---------------------------- MODULE ThunderRequest ----------------------------
(***************************************************************************)
(* The Thunder JSON-RPC client of the Firebolt test application            *)
(* (tests/ws_comm_tester.h): the batch of start_thunder_tests and, for     *)
(* every call of it, send_request with a websocket client and a runner     *)
(* thread of its own.  The caller waits for an answer or a timeout, stops  *)
(* the client, joins the runner and returns.  The websocketpp client and   *)
(* the Thunder server are external, modelled from how the code uses them.  *)
(*                                                                         *)
(* What a thread does under ctx->mtx is one step.                          *)
(***************************************************************************)
EXTENDS Naturals

CONSTANTS
  Calls,         \* the number of calls in the batch
  MaxConcurrent  \* the capacity of the request queue

ASSUME CallsAssumption == Calls \in Nat /\ MaxConcurrent \in Nat \ {0}

VARIABLES
  uriSet,        \* m_uri is not empty
  exitRequested,
  call,          \* the call of the batch being made
  cpc,           \* where the calling thread is
  permits,       \* m_current_count of the request queue
  completed, sendSuccess, responseReceived, responseData,  \* RequestContext
  timedOut,      \* the wait of this call ended by its timeout
  finalSuccess,
  answer,        \* what each finished call returned; "none" for false
  conn,          \* the websocket of this call
  stopped,       \* client.stop() was called
  runner         \* the thread in client.run()

ctx   == <<completed, sendSuccess, responseReceived, responseData>>
batch == <<uriSet, exitRequested, call, answer>>
net   == <<conn, stopped, runner>>
vars  == <<batch, cpc, permits, ctx, timedOut, finalSuccess, net>>

\* An answer: a result with the id of this call, anything else that is JSON (an
\* error, another id, another version), or a payload that does not parse.
Payloads == {"result", "other", "garbage"}

CallerPC == {"batch", "send", "prepare", "wait", "join", "return", "sleep", "ended"}

\* Between events the runner is "poll"; a handler that has begun still has to get
\* ctx->mtx ("opening", "message", "failed"), and one that has left its critical
\* section still has to close and stop.
Handling == {"opening", "message", "failed"}
RunnerPC == {"none", "poll", "stopping", "exited"} \cup Handling

Init ==
  /\ uriSet \in BOOLEAN /\ exitRequested = FALSE /\ call = 1
  /\ cpc = "batch" /\ permits = 0
  /\ completed = FALSE /\ sendSuccess = FALSE /\ responseReceived = FALSE
  /\ responseData = "none" /\ timedOut = FALSE /\ finalSuccess = FALSE
  /\ answer = [c \in 1..Calls |-> "none"]
  /\ conn = "none" /\ stopped = FALSE /\ runner = "none"

-----------------------------------------------------------------------------
(* The calling thread.                                                     *)

\* Head of executeTestBatch's loop.
NextCall ==
  /\ cpc = "batch"
  /\ cpc' = IF call > Calls \/ exitRequested THEN "ended" ELSE "send"
  /\ UNCHANGED <<batch, permits, ctx, timedOut, finalSuccess, net>>

\* send_request: no address, no permit, or a fresh context.
SendRequest ==
  /\ cpc = "send"
  /\ IF ~uriSet \/ permits >= MaxConcurrent
       THEN cpc' = "sleep" /\ UNCHANGED <<permits, ctx, timedOut, finalSuccess>>
       ELSE /\ permits' = permits + 1
            /\ completed' = FALSE /\ sendSuccess' = FALSE /\ responseReceived' = FALSE
            /\ responseData' = "none" /\ timedOut' = FALSE /\ finalSuccess' = FALSE
            /\ cpc' = "prepare"
  /\ UNCHANGED <<batch, net>>

\* init_asio and get_connection may fail; else connect and start the runner.
Prepare ==
  /\ cpc = "prepare"
  /\ \/ /\ cpc' = "wait"
        /\ conn' = "connecting" /\ stopped' = FALSE /\ runner' = "poll"
     \/ cpc' = "return" /\ UNCHANGED net
  /\ UNCHANGED <<batch, permits, ctx, timedOut, finalSuccess>>

\* Mutant: the outcome of the send and of the answer is not looked at.
WaitCompleted_AnyAnswer ==
  /\ cpc = "wait" /\ completed
  /\ finalSuccess' = sendSuccess
  /\ cpc' = "join"
  /\ UNCHANGED <<batch, permits, ctx, timedOut, net>>

\* wait_for returns because the transaction is complete.
WaitCompleted ==
  /\ cpc = "wait" /\ completed
  /\ finalSuccess' = (sendSuccess /\ responseReceived)
  /\ cpc' = "join"
  /\ UNCHANGED <<batch, permits, ctx, timedOut, net>>

\* Mutant: the timeout does not stop the client.
WaitTimeout_NoStop ==
  /\ cpc = "wait" /\ ~completed
  /\ timedOut' = TRUE
  /\ finalSuccess' = (sendSuccess /\ responseReceived)
  /\ cpc' = "join"
  /\ UNCHANGED <<batch, permits, ctx, net>>

\* wait_for returns by its timeout, with the transaction still open.
WaitTimeout ==
  /\ cpc = "wait" /\ ~completed
  /\ timedOut' = TRUE
  /\ stopped' = TRUE
  /\ finalSuccess' = (sendSuccess /\ responseReceived)
  /\ cpc' = "join"
  /\ UNCHANGED <<batch, permits, ctx, conn, runner>>

\* Mutant: the runner is detached.
Join_Detaches ==
  /\ cpc = "join"
  /\ cpc' = "return"
  /\ UNCHANGED <<batch, permits, ctx, timedOut, finalSuccess, net>>

Join ==
  /\ cpc = "join" /\ runner = "exited"
  /\ cpc' = "return"
  /\ UNCHANGED <<batch, permits, ctx, timedOut, finalSuccess, net>>

\* Mutant: the outcome is taken from the context after the join.
Return_Rereads ==
  /\ cpc = "return"
  /\ answer' = IF sendSuccess /\ responseReceived
                 THEN [answer EXCEPT ![call] = responseData] ELSE answer
  /\ permits' = permits - 1
  /\ conn' = "none" /\ stopped' = FALSE /\ runner' = "none"
  /\ cpc' = "sleep"
  /\ UNCHANGED <<uriSet, exitRequested, call, ctx, timedOut, finalSuccess>>

\* The response is moved out, the client destroyed and the permit given back.
Return ==
  /\ cpc = "return"
  /\ answer' = IF finalSuccess THEN [answer EXCEPT ![call] = responseData] ELSE answer
  /\ permits' = permits - 1
  /\ conn' = "none" /\ stopped' = FALSE /\ runner' = "none"
  /\ cpc' = "sleep"
  /\ UNCHANGED <<uriSet, exitRequested, call, ctx, timedOut, finalSuccess>>

\* The pause between two calls.
Sleep ==
  /\ cpc = "sleep"
  /\ call' = call + 1
  /\ cpc' = "batch"
  /\ UNCHANGED <<uriSet, exitRequested, answer, permits, ctx, timedOut, finalSuccess, net>>

Caller == \/ NextCall \/ SendRequest \/ Prepare \/ WaitCompleted \/ WaitTimeout
          \/ Join \/ Return \/ Sleep

-----------------------------------------------------------------------------
(* The runner thread: the handlers that client.run() calls.                *)

callerVars == <<batch, cpc, permits, timedOut, finalSuccess>>

Polling == runner = "poll" /\ ~stopped

\* The handshake succeeds; the open handler sends the request ...
Open ==
  /\ Polling /\ conn = "connecting"
  /\ conn' = "open" /\ runner' = "opening"
  /\ UNCHANGED <<callerVars, ctx, stopped>>

\* ... and enters the outcome; a send that failed ends the transaction, and this
\* handler closes and stops inside its critical section.
OpenSent ==
  /\ runner = "opening" /\ runner' = "poll"
  /\ \/ sendSuccess' = TRUE /\ UNCHANGED <<completed, conn, stopped>>
     \/ /\ sendSuccess' = FALSE /\ completed' = TRUE
        /\ conn' = "closed" /\ stopped' = TRUE
  /\ UNCHANGED <<callerVars, responseReceived, responseData>>

\* A frame arrives, or the handshake fails, is rejected or times out, or the server
\* closes: the handler is called.  The caller may time out before it gets the lock.
Message ==
  /\ Polling /\ conn = "open"
  /\ runner' = "message"
  /\ UNCHANGED <<callerVars, ctx, conn, stopped>>

FailOrClose ==
  /\ Polling /\ conn \in {"connecting", "open"}
  /\ conn' = "closed" /\ runner' = "failed"
  /\ UNCHANGED <<callerVars, ctx, stopped>>

\* The critical section of the message handler ...
MessageParsed(p) ==
  /\ runner = "message"
  /\ responseData' = IF p = "garbage" THEN responseData ELSE p
  /\ responseReceived' = IF p = "garbage" THEN FALSE
                         ELSE responseReceived \/ p = "result"
  /\ completed' = TRUE
  /\ runner' = "stopping"
  /\ UNCHANGED <<callerVars, sendSuccess, conn, stopped>>

\* ... and of the fail and close handlers: an outcome that is there already stays.
Failed ==
  /\ runner = "failed"
  /\ completed' = TRUE
  /\ runner' = "stopping"
  /\ UNCHANGED <<callerVars, sendSuccess, responseReceived, responseData, conn, stopped>>

\* con->close and client.stop, at the end of the message, fail and close handlers.
HandlerStops ==
  /\ runner = "stopping"
  /\ conn' = "closed" /\ stopped' = TRUE /\ runner' = "poll"
  /\ UNCHANGED <<callerVars, ctx>>

\* client.run() returns once the client is stopped.
RunReturns ==
  /\ runner = "poll" /\ stopped
  /\ runner' = "exited"
  /\ UNCHANGED <<callerVars, ctx, conn, stopped>>

RunnerContinues == \/ OpenSent \/ Failed \/ HandlerStops \/ RunReturns
                   \/ \E p \in Payloads : MessageParsed(p)

Runner == Open \/ Message \/ FailOrClose \/ RunnerContinues

\* The exit is requested by the lifecycle loop.
RequestExit ==
  /\ ~exitRequested /\ exitRequested' = TRUE
  /\ UNCHANGED <<uriSet, call, answer, cpc, permits, ctx, timedOut, finalSuccess, net>>

Next == Caller \/ Runner \/ RequestExit

\* The caller is scheduled and its timeouts expire; a handler that runs ends and a
\* stopped client returns.  The server owes nothing.
Fairness == WF_vars(Caller) /\ WF_vars(RunnerContinues)

Spec == Init /\ [][Next]_vars /\ Fairness

-----------------------------------------------------------------------------
(* Properties.                                                             *)

\* Every variable has its type; one call holds one permit.
TypeOK ==
  /\ {uriSet, exitRequested, completed, sendSuccess, responseReceived, timedOut,
      finalSuccess, stopped} \subseteq BOOLEAN
  /\ call \in 1 .. Calls + 1 /\ permits \in 0..1
  /\ cpc \in CallerPC /\ runner \in RunnerPC
  /\ responseData \in Payloads \cup {"none"}
  /\ answer \in [1..Calls -> Payloads \cup {"none"}]
  /\ conn \in {"none", "connecting", "open", "closed"}

\* The handlers use the client and the context of the caller's frame: while they
\* can run, the caller is still in the call that owns them.
HandlersInCall == runner \in {"poll", "stopping"} \cup Handling => cpc \in {"wait", "join"}

\* Only a result with the id of the call is returned as a success.
SuccessIsOwn == \A c \in 1..Calls : answer[c] \in {"none", "result"}

\* An answer that comes while a call that timed out is joining its runner changes
\* neither the outcome nor the message logged: the call fails.
TimeoutSticks ==
  [][\A c \in 1..Calls : timedOut /\ cpc = "return" => answer'[c] = answer[c]]_vars

\* A call gives its permit back on every path, so the queue never fills up and no
\* later call of the batch is dropped for it.
PermitReturned == cpc \in {"batch", "send", "sleep", "ended"} => permits = 0

\* A call leaves nothing behind: neither a handler that can run nor a permit.
CallContained == HandlersInCall /\ PermitReturned

\* Whatever the server does, every batch ends.
BatchEnds == <>(cpc = "ended")
=============================================================================
