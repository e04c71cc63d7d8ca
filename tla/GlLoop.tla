------------------------------- MODULE GlLoop -------------------------------
(***************************************************************************)
(* The render thread of the Firebolt test application (GlApp::run in       *)
(* firebolt-test-app/native/src/gl.cpp) and the two threads of main.cpp    *)
(* that drive it through shared atomics:                                   *)
(*                                                                         *)
(*   render  GlApp::run: the compositor handshake, the bootstrap frame and *)
(*           the unified dispatch / poll / draw loop;                      *)
(*   main    the lifecycle loop, which calls resume, pause, close, joins   *)
(*           the render thread and calls deinit (stopGlApp);               *)
(*   prog    the progress thread, which calls updateProgress.              *)
(*                                                                         *)
(* Every store that another thread may observe is a step of its own, in    *)
(* the order of the code; what one thread does between two such accesses   *)
(* is one step.  The compositor, the event fd and the wayland queue are    *)
(* external and modelled from how the code uses them.                      *)
(***************************************************************************)
EXTENDS Naturals

CONSTANT Percents      \* the percentages updateProgress is called with

ASSUME PercentsAssumption == Percents \subseteq Nat

VARIABLES
  running,    \* AppContext::running
  lifecycle,  \* AppContext::lifecycle_state
  target,     \* AppContext::target_lifecycle_state
  pending,    \* AppContext::state_transition_pending
  dirty,      \* AppContext::keyFrameDirty
  frameCb,    \* AppContext::frame_callback # nullptr
  configured, \* AppContext::configured
  eventfd,    \* AppContext::wakeEventFd is readable
  progress,   \* progress_percentage and progress_color = ElectricRed
  ctx,        \* m_ctx: "live", or "freed" by deinit
  rpc,        \* where the render thread is in run()
  cur,        \* its local loop_current_state
  readTarget, \* its local target
  shown,      \* the progress drawn by the last presented frame
  requested,  \* live wl_callback objects whose done has not been dispatched
  socket,     \* compositor events not yet read from the wayland socket
  queue,      \* events read into the display's internal queue
  mutex,      \* the owner of glAppMutex
  mpc,        \* what main is doing to the GlApp
  ppc,        \* what the progress thread is doing to the GlApp
  update      \* the arguments of its updateProgress call

ctxVars    == <<running, lifecycle, target, pending, dirty, frameCb, configured,
                progress, ctx>>
renderVars == <<rpc, cur, readTarget, shown>>
wlVars     == <<requested, socket, queue>>
progVars   == <<ppc, update>>
vars == <<ctxVars, eventfd, renderVars, wlVars, mutex, mpc, progVars>>

-----------------------------------------------------------------------------
RenderLifecycleState == {"Bootstrapping", "Paused", "Active", "Closing"}

\* A key event changes only the text of the next frame and gGlExitKeyRequested;
\* for the loop it is an event without effect, as "configure" is once configured.
Events   == {"configure", "frame", "hangup"}
Progress == [percent : 0..100, red : BOOLEAN]
Updates  == [percent : Percents, red : BOOLEAN]
NoUpdate == [percent |-> 0, red |-> FALSE]

Clamp(p) == IF p > 100 THEN 100 ELSE p

\* The points of run() between two accesses to shared state.  "apply" holds
\* state_interlock_mutex, which no other thread takes.
MainLoop == {"top", "apply", "store", "dispatch", "poll", "post", "render",
             "present"}
RenderPC == {"hs", "hsPoll", "boot"} \cup MainLoop \cup {"cleanup", "done"}

\* The next store of resume, pause or close.  Which of the three main is in is
\* told by target, which only main writes.
Requests == {"Active", "Paused", "Closing"}
MainPC   == {"idle", "pending", "running", "signal", "join", "deinit", "gone"}
ProgPC   == {"idle", "percent", "colour", "signal"}

Init ==
  /\ running = TRUE /\ lifecycle = "Paused" /\ target = "Bootstrapping"
  /\ pending = FALSE /\ dirty = FALSE /\ frameCb = FALSE
  /\ configured \in BOOLEAN
  /\ eventfd = FALSE
  /\ progress = NoUpdate /\ shown = NoUpdate
  /\ ctx = "live"
  /\ rpc = "hs" /\ cur = "Paused" /\ readTarget = "Bootstrapping"
  /\ requested = 0 /\ socket = {} /\ queue = {}
  /\ mutex = "free" /\ mpc = "idle"
  /\ ppc = "idle" /\ update = NoUpdate

-----------------------------------------------------------------------------
(* The main thread: resume, pause, close, stopGlApp.                       *)

\* resume(), pause() and close() under glAppMutex: the first store.  The
\* lifecycle handler resumes on PAUSED_TO_ACTIVE and pauses on ACTIVE_TO_PAUSED,
\* which alternate.
MainRequest(r) ==
  /\ mpc = "idle" /\ mutex = "free" /\ ctx = "live"
  /\ r = "Active" => target # "Active"
  /\ r = "Paused" => target = "Active"
  /\ mutex' = "main"
  /\ target' = r
  /\ mpc' = "pending"
  /\ UNCHANGED <<running, lifecycle, pending, dirty, frameCb, configured, progress, ctx,
                 eventfd, renderVars, wlVars, progVars>>

MainPending ==
  /\ mpc = "pending"
  /\ pending' = TRUE
  /\ mpc' = IF target = "Closing" THEN "running" ELSE "signal"
  /\ UNCHANGED <<running, lifecycle, target, dirty, frameCb, configured, progress, ctx,
                 eventfd, renderVars, wlVars, mutex, progVars>>

\* Only close() also clears running.
MainRunning ==
  /\ mpc = "running"
  /\ running' = FALSE
  /\ mpc' = "signal"
  /\ UNCHANGED <<lifecycle, target, pending, dirty, frameCb, configured, progress, ctx,
                 eventfd, renderVars, wlVars, mutex, progVars>>

\* Mutant: the request is stored but the loop is not signalled.
MainSignal_Lost ==
  /\ mpc = "signal"
  /\ mutex' = "free"
  /\ mpc' = IF target = "Closing" THEN "join" ELSE "idle"
  /\ UNCHANGED <<ctxVars, eventfd, renderVars, wlVars, progVars>>

\* signal_run_loop, and the lock_guard's release.  After close, stopGlApp joins.
MainSignal ==
  /\ mpc = "signal"
  /\ eventfd' = TRUE
  /\ mutex' = "free"
  /\ mpc' = IF target = "Closing" THEN "join" ELSE "idle"
  /\ UNCHANGED <<ctxVars, renderVars, wlVars, progVars>>

\* Mutant: stopGlApp does not wait for the render thread.
MainJoin_Detaches ==
  /\ mpc = "join"
  /\ mpc' = "deinit"
  /\ UNCHANGED <<ctxVars, eventfd, renderVars, wlVars, mutex, progVars>>

MainJoin ==
  /\ mpc = "join" /\ rpc = "done"
  /\ mpc' = "deinit"
  /\ UNCHANGED <<ctxVars, eventfd, renderVars, wlVars, mutex, progVars>>

\* deinit() and glApp.reset(), all under glAppMutex: no other thread can
\* observe the intermediate states, so they are one step.
MainDeinit ==
  /\ mpc = "deinit" /\ mutex = "free"
  /\ running' = FALSE /\ eventfd' = FALSE /\ ctx' = "freed"
  /\ mpc' = "gone"
  /\ UNCHANGED <<lifecycle, target, pending, dirty, frameCb, configured, progress,
                 renderVars, wlVars, mutex, progVars>>

Main == \/ \E r \in Requests : MainRequest(r)
        \/ MainPending \/ MainRunning \/ MainSignal
        \/ MainJoin \/ MainDeinit

-----------------------------------------------------------------------------
(* The progress thread: updateProgress under glAppMutex.                   *)

ProgBegin ==
  /\ ppc = "idle" /\ mutex = "free" /\ ctx = "live"
  /\ mutex' = "prog"
  /\ update' \in Updates
  /\ ppc' = "percent"
  /\ UNCHANGED <<ctxVars, eventfd, renderVars, wlVars, mpc>>

ProgPercent ==
  /\ ppc = "percent"
  /\ progress' = [progress EXCEPT !.percent = Clamp(update.percent)]
  /\ ppc' = IF update.red THEN "colour" ELSE "signal"
  /\ UNCHANGED <<running, lifecycle, target, pending, dirty, frameCb, configured, ctx,
                 eventfd, renderVars, wlVars, mutex, mpc, update>>

ProgColour ==
  /\ ppc = "colour"
  /\ progress' = [progress EXCEPT !.red = TRUE]
  /\ ppc' = "signal"
  /\ UNCHANGED <<running, lifecycle, target, pending, dirty, frameCb, configured, ctx,
                 eventfd, renderVars, wlVars, mutex, mpc, update>>

ProgSignal ==
  /\ ppc = "signal"
  /\ eventfd' = TRUE
  /\ mutex' = "free"
  /\ ppc' = "idle" /\ update' = NoUpdate
  /\ UNCHANGED <<ctxVars, renderVars, wlVars, mpc>>

Prog == ProgBegin \/ ProgPercent \/ ProgColour \/ ProgSignal

-----------------------------------------------------------------------------
(* The render thread: GlApp::run.                                          *)

\* stop_run_loop: clears running and wakes the loop.
StopRunLoop == running' = FALSE /\ eventfd' = TRUE

\* Mutant: frame_handle_done does not mark the next frame dirty.
Dispatch_NotDirty(es, fd) ==
  /\ configured' = (configured \/ "configure" \in es)
  /\ IF "frame" \in es
       THEN /\ dirty' = dirty
            /\ frameCb' = (frameCb /\ requested # 1)
            /\ requested' = requested - 1
            /\ eventfd' = TRUE
       ELSE /\ eventfd' = fd
            /\ UNCHANGED <<dirty, frameCb, requested>>

\* wl_display_dispatch_pending over the events es.  frame_handle_done (for the
\* callback that frame_callback points to) marks the frame dirty and signals.
Dispatch(es, fd) ==
  /\ configured' = (configured \/ "configure" \in es)
  /\ IF "frame" \in es
       THEN /\ dirty' = TRUE
            /\ frameCb' = (frameCb /\ requested # 1)
            /\ requested' = requested - 1
            /\ eventfd' = TRUE
       ELSE /\ eventfd' = fd
            /\ UNCHANGED <<dirty, frameCb, requested>>

\* Head of the handshake loop, and the running check after it.
HsTest ==
  /\ rpc = "hs"
  /\ rpc' = IF ~running THEN "done" ELSE IF configured THEN "boot" ELSE "hsPoll"
  /\ UNCHANGED <<ctxVars, eventfd, cur, readTarget, shown, wlVars, mutex, mpc, progVars>>

\* One handshake pass.  poll waits at most 100 ms, so the step is never blocked.
HsPoll ==
  /\ rpc = "hsPoll"
  /\ \/ /\ eventfd /\ ~running
        /\ rpc' = "done" /\ eventfd' = FALSE
        /\ UNCHANGED <<ctxVars, wlVars>>
     \/ /\ ~(eventfd /\ ~running)
        /\ "hangup" \in socket
        /\ rpc' = "done" /\ StopRunLoop
        /\ UNCHANGED <<lifecycle, target, pending, dirty, frameCb, configured, progress,
                       ctx, wlVars>>
     \/ /\ ~(eventfd /\ ~running)
        /\ "hangup" \notin socket
        /\ rpc' = "hs"
        /\ Dispatch(socket, FALSE)
        /\ socket' = {} /\ queue' = {}
        /\ UNCHANGED <<running, lifecycle, target, pending, progress, ctx>>
  /\ UNCHANGED <<cur, readTarget, shown, mutex, mpc, progVars>>

\* poll fails during the handshake.
HsPollError ==
  /\ rpc = "hsPoll"
  /\ rpc' = "done" /\ StopRunLoop
  /\ UNCHANGED <<lifecycle, target, pending, dirty, frameCb, configured, progress, ctx,
                 cur, readTarget, shown, wlVars, mutex, mpc, progVars>>

\* eglSwapBuffers may read the socket into the internal queue.
SwapBuffers ==
  \/ UNCHANGED <<socket, queue>>
  \/ /\ queue' = queue \cup (socket \ {"hangup"})
     /\ socket' = socket \cap {"hangup"}

\* Claiming the EGL context fails: run() returns and running stays set.
BootUnclaimed ==
  /\ rpc = "boot"
  /\ rpc' = "done"
  /\ UNCHANGED <<ctxVars, eventfd, cur, readTarget, shown, wlVars, mutex, mpc, progVars>>

\* The bootstrap frame or the glyph atlas fails.
BootFails ==
  /\ rpc = "boot"
  /\ rpc' = "done" /\ StopRunLoop
  /\ UNCHANGED <<lifecycle, target, pending, dirty, frameCb, configured, progress, ctx,
                 cur, readTarget, shown, wlVars, mutex, mpc, progVars>>

Boot ==
  /\ rpc = "boot"
  /\ shown' = progress
  /\ frameCb' = FALSE /\ dirty' = TRUE
  /\ SwapBuffers
  /\ rpc' = "top"
  /\ UNCHANGED <<running, lifecycle, target, pending, configured, progress, ctx, eventfd,
                 cur, readTarget, requested, mutex, mpc, progVars>>

\* Mutant: the loop does not look for a pending transition.
Top_IgnoresPending ==
  /\ rpc = "top"
  /\ rpc' = IF ~running THEN "cleanup" ELSE "dispatch"
  /\ UNCHANGED <<ctxVars, eventfd, cur, readTarget, shown, wlVars, mutex, mpc, progVars>>

\* Head of the main loop: running, then state_transition_pending.
Top ==
  /\ rpc = "top"
  /\ rpc' = IF ~running THEN "cleanup" ELSE IF pending THEN "apply" ELSE "dispatch"
  /\ UNCHANGED <<ctxVars, eventfd, cur, readTarget, shown, wlVars, mutex, mpc, progVars>>

ApplyRead ==
  /\ rpc = "apply"
  /\ readTarget' = target
  /\ rpc' = "store"
  /\ UNCHANGED <<ctxVars, eventfd, cur, shown, wlVars, mutex, mpc, progVars>>

\* lifecycle_state is read by this thread only, so both stores are one step.
ApplyStore ==
  /\ rpc = "store"
  /\ lifecycle' = readTarget
  /\ pending' = FALSE
  /\ rpc' = IF readTarget = "Closing" THEN "cleanup" ELSE "dispatch"
  /\ UNCHANGED <<running, target, dirty, frameCb, configured, progress, ctx, eventfd,
                 cur, readTarget, shown, wlVars, mutex, mpc, progVars>>

\* Step 1: the state of this pass, and the events resting in the queue.  The
\* queue is then empty, so wl_display_prepare_read succeeds.
DispatchQueued ==
  /\ rpc = "dispatch"
  /\ cur' = lifecycle
  /\ Dispatch(queue, eventfd)
  /\ queue' = {}
  /\ rpc' = "poll"
  /\ UNCHANGED <<running, lifecycle, target, pending, progress, ctx, readTarget, shown,
                 socket, mutex, mpc, progVars>>

\* poll finds the event fd or the socket readable and both are drained.
PollReady ==
  /\ rpc = "poll"
  /\ eventfd \/ socket # {}
  /\ IF "hangup" \in socket
       THEN /\ StopRunLoop
            /\ rpc' = "cleanup"
            /\ UNCHANGED <<socket, queue>>
       ELSE /\ eventfd' = FALSE
            /\ queue' = socket /\ socket' = {}
            /\ rpc' = "post"
            /\ UNCHANGED running
  /\ UNCHANGED <<lifecycle, target, pending, dirty, frameCb, configured, progress, ctx,
                 cur, readTarget, shown, requested, mutex, mpc, progVars>>

\* Only an Active loop polls with a timeout (0 or 33 ms); else it is -1.
PollTimeout ==
  /\ rpc = "poll"
  /\ cur = "Active" /\ ~eventfd /\ socket = {}
  /\ rpc' = "post"
  /\ UNCHANGED <<ctxVars, eventfd, cur, readTarget, shown, wlVars, mutex, mpc, progVars>>

\* poll returns -1 and nothing is read.
PollInterrupted ==
  /\ rpc = "poll"
  /\ rpc' = "post"
  /\ UNCHANGED <<ctxVars, eventfd, cur, readTarget, shown, wlVars, mutex, mpc, progVars>>

\* The events just read, and the test of Step 2.
DispatchRead ==
  /\ rpc = "post"
  /\ Dispatch(queue, eventfd)
  /\ queue' = {}
  /\ rpc' = IF cur = "Active" /\ dirty' THEN "render" ELSE "top"
  /\ UNCHANGED <<running, lifecycle, target, pending, progress, ctx, cur, readTarget,
                 shown, socket, mutex, mpc, progVars>>

\* Step 2: ask for the next frame callback and load the percentage to draw.
Render ==
  /\ rpc = "render"
  /\ dirty' = FALSE /\ frameCb' = TRUE
  /\ requested' = requested + 1
  /\ shown' = [shown EXCEPT !.percent = progress.percent]
  /\ rpc' = "present"
  /\ UNCHANGED <<running, lifecycle, target, pending, configured, progress, ctx, eventfd,
                 cur, readTarget, socket, queue, mutex, mpc, progVars>>

\* Load the colour and swap.
Present ==
  /\ rpc = "present"
  /\ shown' = [shown EXCEPT !.red = progress.red]
  /\ SwapBuffers
  /\ rpc' = "top"
  /\ UNCHANGED <<ctxVars, eventfd, cur, readTarget, requested, mutex, mpc, progVars>>

PresentFails ==
  /\ rpc = "present"
  /\ StopRunLoop
  /\ rpc' = "cleanup"
  /\ UNCHANGED <<lifecycle, target, pending, dirty, frameCb, configured, progress, ctx,
                 cur, readTarget, shown, wlVars, mutex, mpc, progVars>>

\* Mutant: the outstanding callback is forgotten, not destroyed.
Cleanup_Leaks ==
  /\ rpc = "cleanup"
  /\ frameCb' = FALSE
  /\ UNCHANGED wlVars
  /\ rpc' = "done"
  /\ UNCHANGED <<running, lifecycle, target, pending, dirty, configured, progress, ctx,
                 eventfd, cur, readTarget, shown, mutex, mpc, progVars>>

\* After the loop: destroy the callback frame_callback points to.
Cleanup ==
  /\ rpc = "cleanup"
  /\ frameCb' = FALSE
  /\ IF frameCb
       THEN /\ requested' = requested - 1
            /\ socket' = socket \ {"frame"} /\ queue' = queue \ {"frame"}
       ELSE UNCHANGED wlVars
  /\ rpc' = "done"
  /\ UNCHANGED <<running, lifecycle, target, pending, dirty, configured, progress, ctx,
                 eventfd, cur, readTarget, shown, mutex, mpc, progVars>>

RenderContinues ==
  \/ HsTest \/ HsPoll \/ HsPollError \/ BootUnclaimed \/ BootFails \/ Boot
  \/ Top \/ ApplyRead \/ ApplyStore \/ DispatchQueued
  \/ PollReady \/ PollTimeout \/ DispatchRead
  \/ Render \/ Present \/ PresentFails \/ Cleanup

RenderThread == RenderContinues \/ PollInterrupted

-----------------------------------------------------------------------------
(* The compositor.                                                         *)

FrameDone ==
  /\ requested > 0 /\ "frame" \notin socket \cup queue
  /\ socket' = socket \cup {"frame"}
  /\ UNCHANGED <<ctxVars, eventfd, renderVars, requested, queue, mutex, mpc, progVars>>

CompositorEvent ==
  /\ ctx = "live"
  /\ \E e \in {"configure", "hangup"} : e \notin socket /\ socket' = socket \cup {e}
  /\ UNCHANGED <<ctxVars, eventfd, renderVars, requested, queue, mutex, mpc, progVars>>

Next == Main \/ Prog \/ RenderThread \/ FrameDone \/ CompositorEvent

\* The threads are scheduled: each is weakly fair, but no signal is owed to a poll
\* that blocks.  main is not obliged to make a request (that is the platform's
\* choice) but finishes those it begins; the compositor answers frame requests.
\* The progress thread takes glAppMutex again and again, so that main gets it for
\* deinit is a strong fairness of the lock; a readable poll is not interrupted by
\* signals for ever.
MainContinues == mpc # "idle" /\ Main
ProgContinues == ppc # "idle" /\ Prog
Fairness == /\ WF_vars(RenderContinues)
            /\ WF_vars(MainContinues)
            /\ WF_vars(ProgContinues)
            /\ SF_vars(MainDeinit) /\ SF_vars(PollReady)
            /\ WF_vars(FrameDone)

Spec == Init /\ [][Next]_vars /\ Fairness
-----------------------------------------------------------------------------
(* Properties.                                                             *)

\* Every variable has its type, at most one wl_callback is ever live, and the
\* percentage handed to the renderer and shown stays between 0 and 100.
FlagTypes == {running, pending, dirty, frameCb, configured, eventfd} \subseteq BOOLEAN

ThreadTypes ==
  /\ {lifecycle, target, cur, readTarget} \subseteq RenderLifecycleState
  /\ ctx \in {"live", "freed"}
  /\ rpc \in RenderPC /\ mpc \in MainPC /\ ppc \in ProgPC
  /\ requested \in {0, 1}
  /\ socket \subseteq Events /\ queue \subseteq Events \ {"hangup"}
  /\ mutex \in {"free", "main", "prog"}

ProgressTypes ==
  progress \in Progress /\ shown \in Progress /\ update \in Updates \cup {NoUpdate}

TypeOK == FlagTypes /\ ThreadTypes /\ ProgressTypes

\* The frame chain never breaks and never doubles: in the main loop either the
\* next frame is due (keyFrameDirty) or exactly one callback is outstanding and
\* frame_callback points to it, so drawing cannot stall and no callback leaks;
\* once the loop has ended none is left.
FrameChain ==
  /\ rpc \in MainLoop \cup {"cleanup"} => /\ requested = IF frameCb THEN 1 ELSE 0
                                          /\ dirty # frameCb
  /\ rpc = "done" => requested = 0 /\ ~frameCb

\* No lost wakeup: a loop that is about to block in poll, perhaps with no
\* timeout, has seen every transition and stop request whose signal was sent;
\* one that it has not seen is still to be signalled, or is in the event fd.
NoLostWakeup ==
  rpc \in {"dispatch", "poll"} /\ (pending \/ ~running)
     => eventfd \/ mpc \in {"running", "signal"}

\* deinit frees AppContext only when neither the render thread nor the progress
\* thread can still be using it (the join and glAppMutex in stopGlApp).
NoUseAfterFree == ctx = "freed" => rpc = "done" /\ ppc = "idle"

\* stopGlApp always gets to the end: once close has been requested the render
\* thread leaves run(), is joined, and the context is freed.
CloseCompletes == (target = "Closing") ~> (mpc = "gone")

\* If updates stop while the loop stays Active, the screen ends up showing the
\* last percentage and colour.
LatestShown ==
  <>[](ppc = "idle" /\ lifecycle = "Active" /\ rpc \in MainLoop) => <>[](shown = progress)

\* A resume or pause made when no earlier transition is pending takes effect,
\* unless another request overtakes it or the loop is not (or no longer) reached.
SettledRequestApplied ==
  \A r \in {"Active", "Paused"} :
     (mpc = "pending" /\ target = r /\ ~pending)
        ~> (lifecycle = r \/ target # r \/ rpc \notin MainLoop)

\* gl.h promises of every resume() that it switches the event loop into active
\* rendering mode.  The loop reads the target and clears the pending flag in two
\* steps that resume() does not exclude, so a request between them is lost.
ResumeTakesEffect ==
  (target = "Active")
     ~> (lifecycle = "Active" \/ target # "Active" \/ rpc \notin MainLoop)
-----------------------------------------------------------------------------
(* The contract that the lifecycle loop relies on.                         *)

phase == IF ctx = "freed" THEN "null" ELSE IF rpc = "done" THEN "exited" ELSE "running"

Contract == INSTANCE GlContract WITH mode <- target

\* The render loop implements GlContract: run() ends after close, not before it is
\* joined is the object freed, and no request follows close.
ImplementsContract == Contract!Spec
=============================================================================
