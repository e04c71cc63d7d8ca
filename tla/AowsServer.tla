------------------------------ MODULE AowsServer ------------------------------
(***************************************************************************)
(* The voice-capture websocket server (aowss-voice-test-server,            *)
(* aows_test_server.js).  Node runs one event handler at a time, so each   *)
(* handler is one step; the order of the events of a session (messages,    *)
(* idle timer, stream errors, the close handshake) and of different        *)
(* sessions is free.  The ws library, the timers and the file streams are  *)
(* external.                                                               *)
(***************************************************************************)
EXTENDS Naturals, FiniteSets

CONSTANTS
  Sessions,     \* websocket connections, each used once
  IdleClose,    \* IDLE_CLOSE_MS > 0
  DecodeAdpcm,  \* DECODE_ADPCM
  MaxFrames     \* bound on the binary frames a client sends

ASSUME SessionsAssumption == IsFiniteSet(Sessions)
ASSUME ConfigAssumption ==
  IdleClose \in BOOLEAN /\ DecodeAdpcm \in BOOLEAN /\ MaxFrames \in Nat

VARIABLES
  ws,        \* readyState of each connection; "none" before the upgrade
  code,      \* the close frame the server sent first
  timer,     \* idleCloseTimer is pending
  out, outDecoded,  \* the state of the two capture streams
  ioFailed,
  counters,  \* counters.frames
  written,   \* frames handed to the raw stream
  activeConnections

perSession == <<ws, code, timer, out, outDecoded, ioFailed, counters, written>>
vars == <<perSession, activeConnections>>

\* "failing" is destroyed with the 'error' event not yet delivered.
Stream == {"none", "open", "ended", "failing", "destroyed"}
Codes  == {"none", "OK", "idle_eos", "io_error"}

Live(s) == ws[s] \in {"open", "closing"}

Init ==
  /\ ws = [s \in Sessions |-> "none"] /\ code = [s \in Sessions |-> "none"]
  /\ timer = [s \in Sessions |-> FALSE] /\ ioFailed = [s \in Sessions |-> FALSE]
  /\ out = [s \in Sessions |-> "none"] /\ outDecoded = [s \in Sessions |-> "none"]
  /\ counters = [s \in Sessions |-> 0] /\ written = [s \in Sessions |-> 0]
  /\ activeConnections = 0

-----------------------------------------------------------------------------
\* Mutant: no test of readyState.
Close_Always(s, c) ==
  /\ ws' = [ws EXCEPT ![s] = IF @ = "closed" THEN @ ELSE "closing"]
  /\ code' = [code EXCEPT ![s] = c]

\* ws.close(c): only the first close sends a frame, and only from OPEN.
Close(s, c) ==
  IF ws[s] = "open"
    THEN ws' = [ws EXCEPT ![s] = "closing"] /\ code' = [code EXCEPT ![s] = c]
    ELSE UNCHANGED <<ws, code>>

\* wss.on('connection').
Connection(s) ==
  /\ ws[s] = "none"
  /\ ws' = [ws EXCEPT ![s] = "open"]
  /\ out' = [out EXCEPT ![s] = "open"]
  /\ outDecoded' = [outDecoded EXCEPT ![s] = IF DecodeAdpcm THEN "open" ELSE "none"]
  /\ activeConnections' = activeConnections + 1
  /\ UNCHANGED <<code, timer, ioFailed, counters, written>>

\* Mutant: only a text message arms the idle timer.
BinaryMessage_NotArmed(s) ==
  /\ Live(s) /\ counters[s] < MaxFrames
  /\ IF ioFailed[s]
       THEN UNCHANGED <<written, counters>>
       ELSE /\ written' = [written EXCEPT ![s] = IF out[s] = "open" THEN @ + 1 ELSE @]
            /\ counters' = [counters EXCEPT ![s] = @ + 1]
  /\ UNCHANGED <<ws, code, timer, out, outDecoded, ioFailed, activeConnections>>

\* A binary message, delivered until the connection is closed:
\* handleBinaryFrame, then armIdleCloseTimer.  What the decoder appends to the
\* second stream does not show here.
BinaryMessage(s) ==
  /\ Live(s) /\ counters[s] < MaxFrames
  /\ IF ioFailed[s]
       THEN UNCHANGED <<written, counters>>
       ELSE /\ written' = [written EXCEPT ![s] = IF out[s] = "open" THEN @ + 1 ELSE @]
            /\ counters' = [counters EXCEPT ![s] = @ + 1]
  /\ timer' = [timer EXCEPT ![s] = @ \/ IdleClose]
  /\ UNCHANGED <<ws, code, out, outDecoded, ioFailed, activeConnections>>

\* A text message "stop", or the event "stop"; every other text only replies.
StopMessage(s) ==
  /\ Live(s)
  /\ Close(s, "OK")
  /\ UNCHANGED <<timer, out, outDecoded, ioFailed, counters, written, activeConnections>>

IdleTimer(s) ==
  /\ timer[s]
  /\ timer' = [timer EXCEPT ![s] = FALSE]
  /\ Close(s, "idle_eos")
  /\ UNCHANGED <<out, outDecoded, ioFailed, counters, written, activeConnections>>

\* The file system fails a stream: it is destroyed, its 'error' event is queued.
Fail(st, s) == st[s] \in {"open", "ended"} /\ st' = [st EXCEPT ![s] = "failing"]

StreamFails(s) ==
  /\ \/ Fail(out, s) /\ UNCHANGED outDecoded
     \/ Fail(outDecoded, s) /\ UNCHANGED out
  /\ UNCHANGED <<ws, code, timer, ioFailed, counters, written, activeConnections>>

\* The 'error' handler of attachStreamErrorHandler.
Destroy(st, s) == st[s] = "failing" /\ st' = [st EXCEPT ![s] = "destroyed"]

\* Mutant: the handler also takes the session off the count.
StreamError_Decrements(s) ==
  /\ \/ Destroy(out, s) /\ UNCHANGED outDecoded
     \/ Destroy(outDecoded, s) /\ UNCHANGED out
  /\ ioFailed' = [ioFailed EXCEPT ![s] = TRUE]
  /\ Close(s, "io_error")
  /\ activeConnections' = IF activeConnections > 0 THEN activeConnections - 1 ELSE 0
  /\ UNCHANGED <<timer, counters, written>>

StreamError(s) ==
  /\ \/ Destroy(out, s) /\ UNCHANGED outDecoded
     \/ Destroy(outDecoded, s) /\ UNCHANGED out
  /\ ioFailed' = [ioFailed EXCEPT ![s] = TRUE]
  /\ Close(s, "io_error")
  /\ UNCHANGED <<timer, counters, written, activeConnections>>

End(st, s) == [st EXCEPT ![s] = IF @ = "open" THEN "ended" ELSE @]

\* Mutant: the idle timer survives the session.
WsClose_KeepsTimer(s) ==
  /\ Live(s)
  /\ ws' = [ws EXCEPT ![s] = "closed"]
  /\ activeConnections' = IF activeConnections > 0 THEN activeConnections - 1 ELSE 0
  /\ out' = End(out, s) /\ outDecoded' = End(outDecoded, s)
  /\ UNCHANGED <<code, timer, ioFailed, counters, written>>

\* ws.on('close'): the end of the handshake, or a connection that was lost.
WsClose(s) ==
  /\ Live(s)
  /\ ws' = [ws EXCEPT ![s] = "closed"]
  /\ activeConnections' = IF activeConnections > 0 THEN activeConnections - 1 ELSE 0
  /\ timer' = [timer EXCEPT ![s] = FALSE]
  /\ out' = End(out, s) /\ outDecoded' = End(outDecoded, s)
  /\ UNCHANGED <<code, ioFailed, counters, written>>

Step(s) == \/ Connection(s) \/ BinaryMessage(s) \/ StopMessage(s) \/ IdleTimer(s)
           \/ StreamFails(s) \/ StreamError(s) \/ WsClose(s)

Next == \E s \in Sessions : Step(s)

\* The event loop delivers expired timers and stream errors; the ws library ends
\* a close handshake, by its timeout if need be.
Fairness == \A s \in Sessions : /\ WF_vars(IdleTimer(s)) /\ WF_vars(StreamError(s))
                                /\ WF_vars(ws[s] = "closing" /\ WsClose(s))

Spec == Init /\ [][Next]_vars /\ Fairness

-----------------------------------------------------------------------------
(* Properties.                                                             *)

\* Every variable has its type.
TypeOK ==
  /\ ws \in [Sessions -> {"none", "open", "closing", "closed"}]
  /\ code \in [Sessions -> Codes]
  /\ timer \in [Sessions -> BOOLEAN] /\ ioFailed \in [Sessions -> BOOLEAN]
  /\ out \in [Sessions -> Stream] /\ outDecoded \in [Sessions -> Stream]
  /\ counters \in [Sessions -> Nat] /\ written \in [Sessions -> Nat]
  /\ activeConnections \in Nat

\* The logged number of active connections is the number of connections that are
\* not closed: no interleaving of closes counts one twice, and Math.max(0, ...)
\* never hides a miscount.
ActiveCount == activeConnections = Cardinality({s \in Sessions : Live(s)})

\* A closed session leaves nothing behind: no pending timer, and neither capture
\* file still open for writing.
ClosedIsQuiet ==
  \A s \in Sessions : ws[s] = "closed" =>
     ~timer[s] /\ out[s] # "open" /\ outDecoded[s] # "open"

\* The logged frame count is the number of frames in the capture, unless the
\* capture stream itself failed; a failing decoder stream never makes it lie.
CountersHonest ==
  \A s \in Sessions :
     /\ written[s] <= counters[s]
     /\ out[s] \in {"open", "ended"} => written[s] = counters[s]

\* What the server logs is true: the number of connections and the frames of each.
CountsHonest == ActiveCount /\ CountersHonest

\* A close frame is sent once: what a later stop, timer or I/O error wants to
\* send does not replace it.
FirstCloseWins ==
  [][\A s \in Sessions : code[s] # "none" => code'[s] = code[s]]_vars

\* With AOWS_IDLE_CLOSE_MS > 0 a session whose client has sent audio and stops
\* sending it (MaxFrames) ends, even if the client stays connected, sends other
\* messages, or never answers the close frame.
AudioSessionEnds == \A s \in Sessions : (counters[s] > 0 /\ IdleClose) ~> (ws[s] = "closed")

\* After an I/O failure of either file the session ends.
FailureEndsSession == \A s \in Sessions : ioFailed[s] ~> (ws[s] = "closed")

\* A session that has sent audio, or whose capture failed, ends.
SessionEnds == AudioSessionEnds /\ FailureEndsSession
=============================================================================
