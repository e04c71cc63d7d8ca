----------------------------- MODULE FireboltApp -----------------------------
(***************************************************************************)
(* The Firebolt test application (firebolt-test-app/native/src/main.cpp):  *)
(* main() from the connection to Firebolt over the lifecycle loop to its   *)
(* return, the Firebolt callback thread that feeds it,                     *)
(* the GL render thread (by its contract, GlContract), the GL progress     *)
(* thread and the test-module thread (TMT) with the subscriptions that its *)
(* modules hold.  The platform's lifecycle manager is external.            *)
(***************************************************************************)
EXTENDS Naturals, Sequences

CONSTANTS
  Events,    \* the events the test modules can subscribe to
  Methods,   \* the methods of the modules of buildModuleList, in order
  Changes,   \* the changes of state the lifecycle manager announces, old and new
  MaxQueue   \* bound on pendingAppStates

Kinds == {"call", "subscribe", "unsubscribe", "unsubscribeAll"}

ASSUME MethodsAssumption ==
  /\ Methods \in Seq([kind : Kinds, events : SUBSET Events])
  /\ MaxQueue \in Nat

LifecycleState == {"INITIALIZING", "PAUSED", "ACTIVE", "SUSPENDED", "HIBERNATED",
                   "TERMINATING"}

\* Any two states: the manager may skip states or go back.  After TERMINATING it
\* announces nothing.
ASSUME ChangesAssumption ==
  Changes \subseteq {m \in (LifecycleState \ {"TERMINATING"}) \X LifecycleState : m[1] # m[2]}

\* A module with a subscribe lists its unsubscribeAll too.
ASSUME CleanupAssumption ==
  \A i \in 1..Len(Methods) : Methods[i].kind = "subscribe" =>
     \A e \in Methods[i].events :
        \E j \in 1..Len(Methods) : Methods[j].kind = "unsubscribeAll" /\ e \in Methods[j].events

VARIABLES
  link,          \* the connection to Firebolt: "none", "open", "closed"
  promise,       \* what connState's promise holds: "unset", "up", "down"
  listening,     \* the lifecycle subscription is live
  platform,      \* the platform's lifecycle state of the app
  announced,     \* AppState of the change it announced last
  skipped,       \* it announced a change that no AppState follows (a history variable)
  queue,         \* pendingAppStates
  mpc,           \* where main() is
  handling,      \* newAppState of the current pass of the lifecycle loop
  stopFor,       \* what stopGlApp was called for: "state" (a handler) or "key"
  currentAppState,
  exitRequested,
  exitKey,       \* gGlExitKeyRequested
  cleanupAllowed, \* autoDeferredCleanupAllowed
  glMode, glPhase, \* the GlApp object, see GlContract
  glRunThreadStarted,
  glJoinable,    \* glAppRunThread.joinable()
  aborted,       \* a joinable std::thread was overwritten
  progThread,    \* the progress thread: "none", "top", "wait", "got", "exited"
  hasChanged, shutdownSignaled, totalSet,  \* ProgressController
  tracker,       \* g_tracker points to the ProgressController
  tmt,           \* where the test-module thread is
  at,            \* the method it looks at
  cleanupDone,   \* autoDeferredCleanupDone
  subscribed     \* events with a live subscription into a module

conn      == <<link, promise, listening>>
lifecycle == <<platform, announced, skipped, queue>>
mainVars  == <<mpc, handling, stopFor, currentAppState, exitRequested, cleanupAllowed>>
glVars    == <<glMode, glPhase, glRunThreadStarted, glJoinable, aborted>>
pcVars    == <<hasChanged, shutdownSignaled, totalSet>>
tmtVars   == <<tmt, at, cleanupDone>>
vars == <<conn, lifecycle, mainVars, exitKey, glVars, progThread, pcVars, tracker, tmtVars,
          subscribed>>

GL == INSTANCE GlContract WITH mode <- glMode, phase <- glPhase

-----------------------------------------------------------------------------
\* getAppStateFromLifeCycleEvent: an AppState is the change it stands for; every
\* other change is the unknown one.
UNKNOWN_STATE == <<"UNKNOWN", "UNKNOWN">>
Mapped == {<<"INITIALIZING", "PAUSED">>, <<"INITIALIZING", "SUSPENDED">>,
           <<"PAUSED", "ACTIVE">>, <<"ACTIVE", "PAUSED">>,
           <<"PAUSED", "SUSPENDED">>, <<"SUSPENDED", "PAUSED">>,
           <<"SUSPENDED", "HIBERNATED">>, <<"HIBERNATED", "SUSPENDED">>}
            \cup ({"ACTIVE", "PAUSED", "SUSPENDED"} \X {"TERMINATING"})
getAppStateFromLifeCycleEvent(m) == IF m \in Mapped THEN m ELSE UNKNOWN_STATE
AppState == Mapped \cup {UNKNOWN_STATE}

INITIALIZING_TO_PAUSED == <<"INITIALIZING", "PAUSED">>
PAUSED_TO_ACTIVE == <<"PAUSED", "ACTIVE">>
ACTIVE_TO_PAUSED == <<"ACTIVE", "PAUSED">>
ToBackground  == {<<"PAUSED", "SUSPENDED">>, <<"SUSPENDED", "HIBERNATED">>}
ToTerminating == ({"ACTIVE", "PAUSED", "SUSPENDED"} \X {"TERMINATING"})

MainPC == {"connect", "await", "font", "subscribe", "loop", "handle", "started", "wake",
           "close", "join", "deinit", "key", "joinTmt", "joinGl", "joinProg", "exit", "done"}
TmtPC  == {"none", "register", "total", "run", "cleanup1", "wait", "cleanup2",
           "unregister", "done"}

Init ==
  /\ link = "none" /\ promise = "unset" /\ listening = FALSE
  /\ platform = "INITIALIZING" /\ announced = UNKNOWN_STATE /\ skipped = FALSE
  /\ queue = <<>>
  /\ mpc = "connect" /\ handling = UNKNOWN_STATE /\ currentAppState = UNKNOWN_STATE
  /\ stopFor = "state"
  /\ exitRequested = FALSE /\ exitKey = FALSE
  /\ cleanupAllowed = FALSE
  /\ GL!Init /\ glPhase = "null"
  /\ glRunThreadStarted = FALSE /\ glJoinable = FALSE /\ aborted = FALSE
  /\ progThread = "none"
  /\ hasChanged = FALSE /\ shutdownSignaled = FALSE /\ totalSet = FALSE
  /\ tracker = FALSE /\ tmt = "none" /\ at = 1 /\ cleanupDone = FALSE
  /\ subscribed = {}

-----------------------------------------------------------------------------
(* The platform and the Firebolt callback thread.                          *)

\* A change goes on from the platform's state or repeats the last one announced,
\* and has an AppState unless the app is about to end.
Follows(m) == /\ m[1] = platform \/ m = announced
              /\ m \in Mapped \/ m[2] = "TERMINATING"

\* A lifecycle change; the callback queues it while main is subscribed.
LifecycleChange(m) ==
  /\ mpc # "done" /\ Len(queue) < MaxQueue
  /\ platform # "TERMINATING"
  /\ platform' = m[2]
  /\ announced' = getAppStateFromLifeCycleEvent(m)
  /\ skipped' = (skipped \/ ~Follows(m))
  /\ queue' = IF listening THEN Append(queue, getAppStateFromLifeCycleEvent(m)) ELSE queue
  /\ UNCHANGED <<conn, mainVars, exitKey, glVars, progThread, pcVars, tracker, tmtVars, subscribed>>

\* The connection callback: the first result is the one main gets (call_once).
ConnectionChanged ==
  /\ link = "open"
  /\ \E result \in {"up", "down"} :
       promise' = IF promise = "unset" THEN result ELSE promise
  /\ UNCHANGED <<link, listening, lifecycle, mainVars, exitKey, glVars, progThread, pcVars,
                 tracker, tmtVars, subscribed>>

\* increment_progress through the registered tracker, once a total is set.
Report == hasChanged' = (hasChanged \/ (tracker /\ totalSet))

\* An event reaches a test module's callback, which reports a step.
ModuleEvent ==
  /\ mpc # "done" /\ subscribed # {}
  /\ Report
  /\ UNCHANGED <<conn, lifecycle, mainVars, exitKey, glVars, progThread, shutdownSignaled, totalSet,
                 tracker, tmtVars, subscribed>>

\* ESC or BACKSPACE reaches handleGlKeycode on the render thread.
GlExitKey ==
  /\ glPhase = "running" /\ exitKey' = TRUE
  /\ UNCHANGED <<conn, lifecycle, mainVars, glVars, progThread, pcVars, tracker, tmtVars, subscribed>>

\* GlApp::run returns.
GlRunReturns ==
  /\ GL!Exit
  /\ UNCHANGED <<conn, lifecycle, mainVars, exitKey, glRunThreadStarted, glJoinable, aborted,
                 progThread, pcVars, tracker, tmtVars, subscribed>>

-----------------------------------------------------------------------------
(* The main thread.                                                        *)

others == <<conn, exitKey, progThread, tracker, subscribed>>

\* Steps of main before the lifecycle loop; they leave everything else alone.
Starting(from, to) ==
  /\ mpc = from /\ mpc' = to
  /\ UNCHANGED <<lifecycle, handling, stopFor, currentAppState, exitRequested,
                 cleanupAllowed, exitKey, glVars, progThread, pcVars, tracker,
                 tmtVars, subscribed>>

\* main returns 1, disconnecting first or not.
GiveUp(from, linkAfter) ==
  Starting(from, "done") /\ link' = linkAfter /\ UNCHANGED <<promise, listening>>

\* No endpoint is given, Connect fails, or the wait for its result begins.
Connect ==
  \/ GiveUp("connect", "none")
  \/ Starting("connect", "await") /\ link' = "open" /\ UNCHANGED <<promise, listening>>

\* The result is up, or it is down or not there after two seconds.
AwaitConnection ==
  \/ promise = "up" /\ Starting("await", "font") /\ UNCHANGED conn
  \/ promise # "up" /\ GiveUp("await", "closed")

\* Without its font file the app ends, still connected.
CheckFont ==
  \/ GiveUp("font", "open")
  \/ Starting("font", "subscribe") /\ UNCHANGED conn

Subscribe ==
  \/ Starting("subscribe", "loop") /\ listening' = TRUE /\ UNCHANGED <<link, promise>>
  \/ GiveUp("subscribe", "closed")

\* Mutant: a change is dropped when it ends in the state that the last one ended in.
PopState_SameTarget ==
  /\ mpc = "loop" /\ ~exitRequested
  /\ IF queue = <<>>
       THEN mpc' = "key" /\ UNCHANGED <<queue, handling>>
       ELSE /\ handling' = Head(queue) /\ queue' = Tail(queue)
            /\ mpc' = IF Head(queue)[2] = currentAppState[2] THEN "key" ELSE "handle"
  /\ UNCHANGED <<platform, announced, skipped, stopFor, currentAppState, exitRequested,
                 cleanupAllowed, glVars, pcVars, tmtVars, others>>

\* One pass takes one state off the queue; a repetition of the last one handled
\* is dropped.
PopState ==
  /\ mpc = "loop" /\ ~exitRequested
  /\ IF queue = <<>>
       THEN mpc' = "key" /\ UNCHANGED <<queue, handling>>
       ELSE /\ handling' = Head(queue) /\ queue' = Tail(queue)
            /\ mpc' = IF Head(queue) = currentAppState THEN "key" ELSE "handle"
  /\ UNCHANGED <<platform, announced, skipped, stopFor, currentAppState, exitRequested,
                 cleanupAllowed, glVars, pcVars, tmtVars, others>>

\* INITIALIZING_TO_PAUSED: ensureGlAppInitialized ...
HandleInitGl ==
  /\ mpc = "handle" /\ handling = INITIALIZING_TO_PAUSED
  /\ \/ /\ glPhase = "null" /\ GL!Create
        /\ mpc' = "started"
        /\ UNCHANGED <<currentAppState, exitRequested>>
     \/ /\ glPhase # "null"
        /\ mpc' = "started"
        /\ UNCHANGED <<glMode, glPhase, currentAppState, exitRequested>>
     \/ /\ glPhase = "null"                       \* init failed
        /\ exitRequested' = TRUE /\ currentAppState' = handling
        /\ mpc' = "key"
        /\ UNCHANGED <<glMode, glPhase>>
  /\ UNCHANGED <<lifecycle, handling, stopFor, cleanupAllowed,
                 glRunThreadStarted, glJoinable, aborted, pcVars, tmtVars, others>>

\* ... and ensureGlRunThreadStarted, which starts the progress thread once.
HandleStartGl ==
  /\ mpc = "started"
  /\ IF glRunThreadStarted
       THEN UNCHANGED <<glVars, progThread>>
       ELSE /\ GL!Start
            /\ aborted' = (aborted \/ glJoinable)
            /\ glJoinable' = TRUE /\ glRunThreadStarted' = TRUE
            /\ progThread' = IF progThread = "none" THEN "top" ELSE progThread
  /\ currentAppState' = handling
  /\ mpc' = "key"
  /\ UNCHANGED <<conn, lifecycle, handling, stopFor, exitRequested, cleanupAllowed,
                 exitKey, pcVars, tracker, tmtVars, subscribed>>

\* PAUSED_TO_ACTIVE: resume, then startRunTestModules (once).
HandleActive ==
  /\ mpc = "handle" /\ handling = PAUSED_TO_ACTIVE
  /\ IF glPhase # "null" THEN GL!Request("Active") ELSE UNCHANGED <<glMode, glPhase>>
  /\ tmt' = IF tmt = "none" THEN "register" ELSE tmt
  /\ currentAppState' = handling
  /\ mpc' = "key"
  /\ UNCHANGED <<lifecycle, handling, stopFor, exitRequested, cleanupAllowed,
                 glRunThreadStarted, glJoinable, aborted, pcVars, at, cleanupDone, others>>

HandlePaused ==
  /\ mpc = "handle" /\ handling = ACTIVE_TO_PAUSED
  /\ IF glPhase # "null" THEN GL!Request("Paused") ELSE UNCHANGED <<glMode, glPhase>>
  /\ currentAppState' = handling
  /\ mpc' = "key"
  /\ UNCHANGED <<lifecycle, handling, stopFor, exitRequested, cleanupAllowed,
                 glRunThreadStarted, glJoinable, aborted, pcVars, tmtVars, others>>

\* To SUSPENDED or HIBERNATED: wake the progress thread and stop the GlApp;
\* to TERMINATING: the same, after asking for the exit.
HandleStop ==
  /\ mpc = "handle" /\ handling \in ToBackground \cup ToTerminating
  /\ exitRequested' = (exitRequested \/ handling \in ToTerminating)
  /\ stopFor' = "state"
  /\ mpc' = "wake"
  /\ UNCHANGED <<lifecycle, handling, currentAppState, cleanupAllowed, glVars, pcVars,
                 tmtVars, others>>

\* Every other state is only remembered.
HandleOther ==
  /\ mpc = "handle"
  /\ handling \notin {INITIALIZING_TO_PAUSED, PAUSED_TO_ACTIVE, ACTIVE_TO_PAUSED}
                       \cup ToBackground \cup ToTerminating
  /\ currentAppState' = handling
  /\ mpc' = "key"
  /\ UNCHANGED <<lifecycle, handling, stopFor, exitRequested, cleanupAllowed, glVars,
                 pcVars, tmtVars, others>>

\* Mutant: the progress thread is not woken.
wake_for_shutdown_Lost ==
  /\ mpc = "wake"
  /\ UNCHANGED shutdownSignaled
  /\ mpc' = "close"
  /\ UNCHANGED <<lifecycle, handling, stopFor, currentAppState, exitRequested,
                 cleanupAllowed, glVars, hasChanged, totalSet, tmtVars, others>>

wake_for_shutdown ==
  /\ mpc = "wake"
  /\ shutdownSignaled' = TRUE
  /\ mpc' = "close"
  /\ UNCHANGED <<lifecycle, handling, stopFor, currentAppState, exitRequested,
                 cleanupAllowed, glVars, hasChanged, totalSet, tmtVars, others>>

\* stopGlApp: close under the lock, ...
StopClose ==
  /\ mpc = "close"
  /\ IF glPhase # "null" THEN GL!Request("Closing") ELSE UNCHANGED <<glMode, glPhase>>
  /\ mpc' = "join"
  /\ UNCHANGED <<lifecycle, handling, stopFor, currentAppState, exitRequested,
                 cleanupAllowed, glRunThreadStarted, glJoinable, aborted,
                 pcVars, tmtVars, others>>

\* Mutant: the render thread is detached instead of joined.
StopJoin_Detaches ==
  /\ mpc = "join"
  /\ glJoinable' = FALSE
  /\ mpc' = "deinit"
  /\ UNCHANGED <<lifecycle, handling, stopFor, currentAppState, exitRequested,
                 cleanupAllowed, glMode, glPhase, glRunThreadStarted, aborted,
                 pcVars, tmtVars, others>>

\* ... join the render thread if there is one, ...
StopJoin ==
  /\ mpc = "join"
  /\ glJoinable => glPhase = "exited"
  /\ glJoinable' = FALSE
  /\ mpc' = "deinit"
  /\ UNCHANGED <<lifecycle, handling, stopFor, currentAppState, exitRequested,
                 cleanupAllowed, glMode, glPhase, glRunThreadStarted, aborted,
                 pcVars, tmtVars, others>>

\* Mutant: the GlApp is closed and not freed.
StopDeinit_Keeps ==
  /\ mpc = "deinit"
  /\ UNCHANGED <<glMode, glPhase>>
  /\ glRunThreadStarted' = FALSE
  /\ IF stopFor = "key"
       THEN exitRequested' = TRUE /\ mpc' = "loop" /\ UNCHANGED currentAppState
       ELSE currentAppState' = handling /\ mpc' = "key" /\ UNCHANGED exitRequested
  /\ UNCHANGED <<lifecycle, handling, stopFor, cleanupAllowed, glJoinable,
                 aborted, pcVars, tmtVars, others>>

\* ... and free the GlApp.  Then the caller goes on.
StopDeinit ==
  /\ mpc = "deinit"
  /\ IF glPhase # "null" THEN GL!Free ELSE UNCHANGED <<glMode, glPhase>>
  /\ glRunThreadStarted' = FALSE
  /\ IF stopFor = "key"
       THEN exitRequested' = TRUE /\ mpc' = "loop" /\ UNCHANGED currentAppState
       ELSE currentAppState' = handling /\ mpc' = "key" /\ UNCHANGED exitRequested
  /\ UNCHANGED <<lifecycle, handling, stopFor, cleanupAllowed, glJoinable,
                 aborted, pcVars, tmtVars, others>>

\* The end of a pass: the exit key.
CheckExitKey ==
  /\ mpc = "key"
  /\ IF exitKey THEN mpc' = "wake" /\ stopFor' = "key"
                ELSE mpc' = "loop" /\ UNCHANGED stopFor
  /\ UNCHANGED <<lifecycle, handling, currentAppState, exitRequested,
                 cleanupAllowed, glVars, pcVars, tmtVars, others>>

\* The shutdown phase: allow the deferred cleanup, and join in this order.
LoopEnds ==
  /\ mpc = "loop" /\ exitRequested
  /\ cleanupAllowed' = TRUE
  /\ mpc' = "joinTmt"
  /\ UNCHANGED <<lifecycle, handling, stopFor, currentAppState, exitRequested,
                 glVars, pcVars, tmtVars, others>>

\* Mutant: main returns without joining the progress thread.
JoinThreads_NotProg ==
  /\ \/ mpc = "joinTmt" /\ tmt \in {"none", "done"} /\ mpc' = "joinGl"
     \/ mpc = "joinGl" /\ (glJoinable => glPhase = "exited") /\ mpc' = "joinProg"
     \/ mpc = "joinProg" /\ mpc' = "exit"
  /\ glJoinable' = (glJoinable /\ mpc # "joinGl")
  /\ UNCHANGED <<lifecycle, handling, stopFor, currentAppState, exitRequested,
                 cleanupAllowed, glMode, glPhase, glRunThreadStarted, aborted,
                 pcVars, tmtVars, others>>

JoinThreads ==
  /\ \/ mpc = "joinTmt" /\ tmt \in {"none", "done"} /\ mpc' = "joinGl"
     \/ mpc = "joinGl" /\ (glJoinable => glPhase = "exited") /\ mpc' = "joinProg"
     \/ mpc = "joinProg" /\ progThread \in {"none", "exited"} /\ mpc' = "exit"
  /\ glJoinable' = (glJoinable /\ mpc # "joinGl")
  /\ UNCHANGED <<lifecycle, handling, stopFor, currentAppState, exitRequested,
                 cleanupAllowed, glMode, glPhase, glRunThreadStarted, aborted,
                 pcVars, tmtVars, others>>

\* Close towards the platform (unless it is terminating the app), unsubscribe
\* from the lifecycle, which may fail, disconnect and return.
Return ==
  /\ mpc = "exit"
  /\ mpc' = "done"
  /\ link' = "closed" /\ listening' = FALSE
  /\ UNCHANGED <<promise, lifecycle, handling, stopFor, currentAppState, exitRequested,
                 cleanupAllowed, exitKey, glVars, progThread, pcVars, tracker,
                 tmtVars, subscribed>>

Main == \/ Connect \/ AwaitConnection \/ CheckFont \/ Subscribe
        \/ PopState \/ HandleInitGl \/ HandleStartGl \/ HandleActive \/ HandlePaused
        \/ HandleStop \/ HandleOther \/ wake_for_shutdown
        \/ StopClose \/ StopJoin \/ StopDeinit \/ CheckExitKey \/ LoopEnds
        \/ JoinThreads \/ Return

-----------------------------------------------------------------------------
(* The GL progress thread.                                                 *)

progOthers == <<conn, lifecycle, mainVars, exitKey, glVars, totalSet, shutdownSignaled, tracker,
                tmtVars, subscribed>>

ProgTop ==
  /\ progThread = "top"
  /\ progThread' = IF exitRequested THEN "exited" ELSE "wait"
  /\ UNCHANGED <<hasChanged, progOthers>>

\* Mutant: the change is not taken back.
ProgWake_Again ==
  /\ progThread = "wait" /\ (hasChanged \/ shutdownSignaled)
  /\ hasChanged' = hasChanged
  /\ progThread' = "got"
  /\ UNCHANGED progOthers

\* wait_for_percentage_change: once the shutdown was signalled, for good, it returns at
\* once and leaves hasChanged alone.
ProgWake ==
  /\ progThread = "wait" /\ (hasChanged \/ shutdownSignaled)
  /\ hasChanged' = (hasChanged /\ shutdownSignaled)
  /\ progThread' = "got"
  /\ UNCHANGED progOthers

\* Leave, or show what was got (updateProgress, which GlLoop models) and go on.
ProgGot ==
  /\ progThread = "got"
  /\ progThread' = IF exitKey \/ exitRequested THEN "exited" ELSE "top"
  /\ UNCHANGED <<hasChanged, progOthers>>

Prog == ProgTop \/ ProgWake \/ ProgGot

-----------------------------------------------------------------------------
(* The test-module thread.                                                 *)

tmtOthers == <<conn, lifecycle, mainVars, exitKey, glVars, progThread, shutdownSignaled>>

Deferred(m) == m.kind \in {"unsubscribe", "unsubscribeAll"}

TmtRegister ==
  /\ tmt = "register"
  /\ tracker' = TRUE
  /\ tmt' = "total"
  /\ UNCHANGED <<at, cleanupDone, hasChanged, totalSet, subscribed, tmtOthers>>

TmtTotal ==
  /\ tmt = "total"
  /\ totalSet' = TRUE /\ hasChanged' = TRUE
  /\ tmt' = "run" /\ at' = 1
  /\ UNCHANGED <<cleanupDone, tracker, subscribed, tmtOthers>>

\* Mutant: an early return skips the deferred cleanup.
TmtRunExit_NoCleanup ==
  /\ tmt = "run" /\ at <= Len(Methods) /\ exitRequested
  /\ tmt' = "unregister"
  /\ UNCHANGED <<at, cleanupDone, hasChanged, totalSet, tracker, subscribed, tmtOthers>>

\* runAutoMode returns at once when the exit was requested before a method ...
TmtRunExit ==
  /\ tmt = "run" /\ at <= Len(Methods) /\ exitRequested
  /\ tmt' = "wait"
  /\ UNCHANGED <<at, cleanupDone, hasChanged, totalSet, tracker, subscribed, tmtOthers>>

\* ... skips the deferred methods, and runs the others.  A subscribe that the
\* module already made is dropped without a report.
TmtRunMethod ==
  /\ tmt = "run" /\ at <= Len(Methods) /\ ~exitRequested
  /\ LET m == Methods[at] IN
       CASE Deferred(m) -> UNCHANGED <<hasChanged, subscribed>>
         [] m.kind = "call" -> Report /\ UNCHANGED subscribed
         [] m.kind = "subscribe" ->
              IF m.events \subseteq subscribed
                THEN UNCHANGED <<hasChanged, subscribed>>
                ELSE Report /\ subscribed' \in {subscribed, subscribed \cup m.events}
  /\ at' = at + 1
  /\ UNCHANGED <<tmt, cleanupDone, totalSet, tracker, tmtOthers>>

\* After the last method (and the Thunder tests, which touch none of this state)
\* the deferred cleanup runs.
TmtRunEnds ==
  /\ tmt = "run" /\ at > Len(Methods)
  /\ tmt' = "cleanup1" /\ at' = 1
  /\ UNCHANGED <<cleanupDone, hasChanged, totalSet, tracker, subscribed, tmtOthers>>

\* runAutoModeDeferredUnsubscribeCleanup, skipped if it has been done.  An
\* unsubscribe may fail; unsubscribeAll forgets every subscription of a module.
Cleanup(here, next) ==
  /\ tmt = here
  /\ IF cleanupDone \/ at > Len(Methods)
       THEN /\ cleanupDone' = TRUE /\ tmt' = next
            /\ UNCHANGED <<at, hasChanged, subscribed>>
       ELSE LET m == Methods[at] IN
            /\ CASE ~Deferred(m) -> UNCHANGED <<hasChanged, subscribed>>
                 [] m.kind = "unsubscribe" ->
                      Report /\ subscribed' \in {subscribed, subscribed \ m.events}
                 [] m.kind = "unsubscribeAll" ->
                      Report /\ subscribed' = subscribed \ m.events
            /\ at' = at + 1
            /\ UNCHANGED <<tmt, cleanupDone>>
  /\ UNCHANGED <<totalSet, tracker, tmtOthers>>

TmtCleanup == Cleanup("cleanup1", "wait") \/ Cleanup("cleanup2", "unregister")

TmtWait ==
  /\ tmt = "wait" /\ (exitRequested \/ cleanupAllowed)
  /\ tmt' = "cleanup2" /\ at' = 1
  /\ UNCHANGED <<cleanupDone, hasChanged, totalSet, tracker, subscribed, tmtOthers>>

\* SetTestProgressTracker(nullptr); the modules are destroyed.
TmtUnregister ==
  /\ tmt = "unregister"
  /\ tracker' = FALSE
  /\ tmt' = "done"
  /\ UNCHANGED <<at, cleanupDone, hasChanged, totalSet, subscribed, tmtOthers>>

Tmt == \/ TmtRegister \/ TmtTotal \/ TmtRunExit \/ TmtRunMethod \/ TmtRunEnds
       \/ TmtCleanup \/ TmtWait \/ TmtUnregister

-----------------------------------------------------------------------------
Next == \/ \E m \in Changes : LifecycleChange(m)
        \/ ConnectionChanged \/ ModuleEvent \/ GlExitKey \/ GlRunReturns
        \/ Main \/ Prog \/ Tmt

\* Every thread of the process is scheduled, a Firebolt call returns, and run()
\* returns once it was closed, which GlContract promises.
Fairness == /\ WF_vars(Main) /\ WF_vars(Prog) /\ WF_vars(Tmt)
            /\ WF_vars(glMode = "Closing" /\ GlRunReturns)

Spec == Init /\ [][Next]_vars /\ Fairness

-----------------------------------------------------------------------------
(* Properties.                                                             *)

SwitchType ==
  /\ listening \in BOOLEAN /\ exitRequested \in BOOLEAN /\ exitKey \in BOOLEAN
  /\ cleanupAllowed \in BOOLEAN
  /\ glRunThreadStarted \in BOOLEAN /\ glJoinable \in BOOLEAN /\ aborted \in BOOLEAN
  /\ hasChanged \in BOOLEAN /\ shutdownSignaled \in BOOLEAN
  /\ totalSet \in BOOLEAN /\ tracker \in BOOLEAN /\ cleanupDone \in BOOLEAN

ControlType ==
  /\ link \in {"none", "open", "closed"} /\ promise \in {"unset", "up", "down"}
  /\ mpc \in MainPC /\ stopFor \in {"state", "key"}
  /\ GL!TypeOK
  /\ progThread \in {"none", "top", "wait", "got", "exited"}
  /\ tmt \in TmtPC

DataType ==
  /\ platform \in LifecycleState /\ announced \in AppState /\ skipped \in BOOLEAN
  /\ queue \in Seq(AppState) /\ Len(queue) <= MaxQueue
  /\ handling \in AppState /\ currentAppState \in AppState
  /\ at \in 1 .. Len(Methods) + 1
  /\ subscribed \subseteq Events

\* Every variable has its type.
TypeOK == SwitchType /\ ControlType /\ DataType

\* While a callback can fire its module exists (the test-module thread destroys
\* the modules at its end, also along the early return of runAutoMode) and the
\* tracker is registered with a total, so that its report counts.
CallbackHasTracker == subscribed # {} => tracker /\ totalSet /\ tmt # "done"

\* std::thread is never assigned over a joinable thread (std::terminate), and
\* the render thread never outlives its GlApp.
RenderThreadOwned == /\ ~aborted
                     /\ glPhase \in {"running", "exited"} => glRunThreadStarted
                     /\ glPhase = "running" => glJoinable

\* When main returns no thread is left, the GlApp is freed and no lifecycle
\* callback can reach main's variables, whether it got as far as its loop or not
\* and whichever of the three ways the exit was asked for.
ExitQuiesces ==
  mpc = "done" => /\ glPhase = "null" /\ ~glJoinable
                  /\ progThread \in {"none", "exited"}
                  /\ tmt \in {"none", "done"}
                  /\ ~listening

\* With every announced change taken off the queue, the mode last requested of a
\* running window (which the render loop may still lose, see GlLoop) is that of the
\* change announced last, whatever came before it: Active after PAUSED_TO_ACTIVE,
\* Paused after ACTIVE_TO_PAUSED, and no window runs after a change to the background
\* or to the end.  While the platform skips no state, Active is requested if and only
\* if the app is ACTIVE.  Needs the FIFO of the queue, and that dropping a repeated
\* state loses nothing.
RequestFollowsPlatform ==
  queue = <<>> /\ mpc = "loop" /\ glPhase = "running" =>
    /\ announced = PAUSED_TO_ACTIVE => glMode = "Active"
    /\ announced = ACTIVE_TO_PAUSED => glMode = "Paused"
    /\ announced \notin ToBackground \cup ToTerminating
    /\ ~skipped => (platform = "ACTIVE" <=> glMode = "Active")

\* main and its threads use the GlApp as GlContract says: whichever handlers run and
\* whenever run() returns by itself, nothing is requested of a window after close,
\* and it is started once and freed once, after run().  GlLoop is checked for such
\* a user only.
HonoursContract == GL!Safety

\* An exit, requested by a handler or with the exit key, happens: main gets
\* through stopGlApp and the three joins.
ExitCompletes == exitRequested \/ exitKey ~> mpc = "done"

\* A report made while the progress thread lives is taken by it, unless the window
\* is being stopped: no notification is lost between two of its waits.
ProgressTaken == hasChanged /\ progThread # "none" ~> ~hasChanged \/ shutdownSignaled
=============================================================================
