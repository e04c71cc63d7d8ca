----------------------------- MODULE GlLoopProof -----------------------------
(***************************************************************************)
(* Proofs about GlLoop for any set of percentages: its four invariants and *)
(* its refinement of the contract, from one inductive invariant.  What the *)
(* checked invariants lack to be inductive is how the three threads stand  *)
(* to one another: who holds glAppMutex, what a request still has to do,   *)
(* and where the one outstanding frame event may be.                       *)
(***************************************************************************)
EXTENDS GlLoop, TLAPS

\* The one frame event: it is in one place at most, only while its callback is
\* live, and no callback is live before the loop.  The queue rests empty at poll,
\* and only a dirty frame is rendered.
FrameEvents ==
  /\ rpc \in {"hs", "hsPoll", "boot"} => requested = 0 /\ ~frameCb
  /\ "frame" \in socket \cup queue => requested = 1
  /\ "frame" \notin socket \/ "frame" \notin queue
  /\ rpc = "poll" => queue = {}
  /\ rpc = "render" => dirty

\* A stop that arrives while a transition is applied is signalled.
StopSignalled ==
  rpc \in {"apply", "store"} /\ ~running => eventfd \/ mpc \in {"running", "signal"}

\* glAppMutex is held exactly during a request and during updateProgress.
Locking == /\ mutex = "prog" <=> ppc # "idle"
           /\ mutex = "main" <=> mpc \in {"pending", "running", "signal"}

\* The stages of stopGlApp.
Stopping == /\ mpc = "idle" => target # "Closing"
            /\ mpc \in {"running", "join", "deinit", "gone"} => target = "Closing"
            /\ mpc \in {"deinit", "gone"} => rpc = "done"
            /\ ctx = "freed" <=> mpc = "gone"

IInv == /\ TypeOK /\ FrameChain /\ NoLostWakeup /\ NoUseAfterFree
        /\ FrameEvents /\ StopSignalled /\ Locking /\ Stopping

\* The part of it that does not look at the progress.
CInv == /\ FlagTypes /\ ThreadTypes /\ FrameChain /\ NoLostWakeup /\ NoUseAfterFree
        /\ FrameEvents /\ StopSignalled /\ Locking /\ Stopping

\* The constants of the module, expanded together.
USE DEF RenderLifecycleState, Events, Progress, Updates, NoUpdate, MainLoop, RenderPC,
        Requests, MainPC, ProgPC

-----------------------------------------------------------------------------
\* The clamp of updateProgress keeps a percentage on the screen's scale, whatever
\* ProgressController computed.
LEMMA ClampInRange == \A p \in Percents \cup {0} : Clamp(p) \in 0..100
BY PercentsAssumption DEF Clamp

\* A render loop that begins has its invariant.
LEMMA InitIInv == Init => IInv
<1>1. Init => CInv
  <2>1. Init => FlagTypes  /\ ThreadTypes
    BY DEF Init, FlagTypes, ThreadTypes
  <2>2. Init => FrameChain /\ FrameEvents
    BY DEF Init, FrameChain, FrameEvents
  <2>3. Init => NoLostWakeup /\ NoUseAfterFree /\ StopSignalled /\ Locking /\ Stopping
    BY DEF Init, NoLostWakeup, NoUseAfterFree, StopSignalled, Locking, Stopping
  <2>4. QED
    BY <2>1, <2>2, <2>3 DEF CInv
<1>2. Init => ProgressTypes
  BY DEF Init, ProgressTypes
<1>3. QED
  BY <1>1, <1>2 DEF IInv, CInv, TypeOK

\* A dispatch consumes the frame event, if it is among es, together with its
\* callback, and leaves the chain due: this is where a frame could be lost.
LEMMA DispatchFrame ==
  ASSUME FlagTypes, ThreadTypes, FrameChain, rpc \in MainLoop,
         NEW es \in SUBSET Events, NEW fd \in BOOLEAN,
         "frame" \in es => requested = 1, Dispatch(es, fd)
  PROVE  /\ configured' \in BOOLEAN /\ dirty' \in BOOLEAN /\ frameCb' \in BOOLEAN
         /\ eventfd' \in BOOLEAN /\ requested' \in {0, 1}
         /\ requested' = IF frameCb' THEN 1 ELSE 0
         /\ dirty' # frameCb'
         /\ "frame" \in es => requested' = 0
         /\ "frame" \notin es => requested' = requested
         /\ fd => eventfd'
<1>1. CASE "frame" \in es
  <2>1. requested' = 0
    BY <1>1 DEF Dispatch
  <2>2. ~frameCb' /\ dirty' /\ eventfd' /\ configured' \in BOOLEAN
    BY <1>1 DEF Dispatch, FlagTypes
  <2>3. frameCb' \in BOOLEAN /\ dirty' \in BOOLEAN /\ eventfd' \in BOOLEAN
    BY <1>1 DEF Dispatch, FlagTypes
  <2>4. QED
    BY <1>1, <2>1, <2>2, <2>3
<1>2. CASE "frame" \notin es
  BY <1>2 DEF FlagTypes, ThreadTypes, FrameChain, Dispatch
<1>3. QED
  BY <1>1, <1>2

\* The main thread keeps the control part.
LEMMA MainStep == ASSUME CInv, Main PROVE CInv'
<1> USE DEF CInv, FlagTypes, ThreadTypes, FrameChain, NoLostWakeup, NoUseAfterFree, FrameEvents,
            StopSignalled, Locking, Stopping, ctxVars, renderVars, wlVars, progVars
<1>1. ASSUME NEW r \in Requests, MainRequest(r) PROVE CInv'
  BY <1>1 DEF MainRequest
<1>2. CASE MainPending
  BY <1>2 DEF MainPending
<1>3. CASE MainRunning
  BY <1>3 DEF MainRunning
<1>4. CASE MainSignal
  BY <1>4 DEF MainSignal
<1>5. CASE MainJoin
  BY <1>5 DEF MainJoin
<1>6. CASE MainDeinit
  BY <1>6 DEF MainDeinit
<1>7. QED
  BY <1>1, <1>2, <1>3, <1>4, <1>5, <1>6 DEF Main

\* The progress thread keeps the control part.
LEMMA ProgStep == ASSUME CInv, Prog PROVE CInv'
<1> USE DEF CInv, FlagTypes, ThreadTypes, FrameChain, NoLostWakeup, NoUseAfterFree, FrameEvents,
            StopSignalled, Locking, Stopping, ctxVars, renderVars, wlVars, progVars
<1>1. CASE ProgBegin
  BY <1>1 DEF ProgBegin
<1>2. CASE ProgPercent
  BY <1>2 DEF ProgPercent
<1>3. CASE ProgColour
  BY <1>3 DEF ProgColour
<1>4. CASE ProgSignal
  BY <1>4 DEF ProgSignal
<1>5. QED
  BY <1>1, <1>2, <1>3, <1>4 DEF Prog

\* The handshake and the bootstrap frame keep the control part.
LEMMA BootStep ==
  ASSUME CInv, HsTest \/ HsPoll \/ HsPollError \/ BootUnclaimed \/ BootFails \/ Boot
  PROVE  CInv'
<1> USE DEF CInv, FlagTypes, ThreadTypes, FrameChain, NoLostWakeup, NoUseAfterFree, FrameEvents,
            StopSignalled, Locking, Stopping, ctxVars, wlVars, progVars
<1>1. CASE HsTest
  BY <1>1 DEF HsTest
<1>2. CASE HsPoll
  <2>1. FlagTypes'
    BY <1>2 DEF HsPoll, Dispatch, StopRunLoop
  <2>2. ThreadTypes'
    <3>1. requested' \in {0, 1}
      BY <1>2 DEF HsPoll, Dispatch, StopRunLoop
    <3>2. socket' \subseteq Events /\ queue' \subseteq Events \ {"hangup"}
      BY <1>2 DEF HsPoll, Dispatch, StopRunLoop
    <3>3. QED
      BY <1>2, <3>1, <3>2 DEF HsPoll, Dispatch, StopRunLoop
  <2>3. FrameChain' /\ FrameEvents'
    BY <1>2 DEF HsPoll, Dispatch, StopRunLoop
  <2>4. NoLostWakeup' /\ StopSignalled'
    BY <1>2 DEF HsPoll, Dispatch, StopRunLoop
  <2>5. NoUseAfterFree' /\ Locking' /\ Stopping'
    BY <1>2 DEF HsPoll, Dispatch, StopRunLoop
  <2>6. QED
    BY <2>1, <2>2, <2>3, <2>4, <2>5
<1>3. CASE HsPollError
  BY <1>3 DEF HsPollError, StopRunLoop
<1>4. CASE BootUnclaimed
  BY <1>4 DEF BootUnclaimed
<1>5. CASE BootFails
  BY <1>5 DEF BootFails, StopRunLoop
<1>6. CASE Boot
  BY <1>6 DEF Boot, SwapBuffers
<1>7. QED
  BY <1>1, <1>2, <1>3, <1>4, <1>5, <1>6

\* The main loop of run() keeps the control part.
LEMMA LoopStep ==
  ASSUME CInv,
         \/ Top \/ ApplyRead \/ ApplyStore \/ DispatchQueued \/ PollReady \/ PollTimeout
         \/ PollInterrupted \/ DispatchRead \/ Render \/ Present \/ PresentFails \/ Cleanup
  PROVE  CInv'
<1> USE DEF CInv, FlagTypes, ThreadTypes, FrameChain, NoLostWakeup, NoUseAfterFree, FrameEvents,
            StopSignalled, Locking, Stopping, ctxVars, wlVars, progVars
<1>1. CASE Top
  BY <1>1 DEF Top
<1>2. CASE ApplyRead
  BY <1>2 DEF ApplyRead
<1>3. CASE ApplyStore
  BY <1>3 DEF ApplyStore
<1>4. CASE DispatchQueued
  <2>1. Dispatch(queue, eventfd) /\ rpc \in MainLoop
    BY <1>4 DEF DispatchQueued
  <2>2. "frame" \in queue => requested = 1
    OBVIOUS
  <2>3. QED
    BY <1>4, <2>1, <2>2, DispatchFrame DEF DispatchQueued
<1>5. CASE PollReady
  <2>1. FlagTypes'
    BY <1>5 DEF PollReady, StopRunLoop
  <2>2. ThreadTypes'
    <3>1. requested' \in {0, 1}
      BY <1>5 DEF PollReady, StopRunLoop
    <3>2. socket' \subseteq Events /\ queue' \subseteq Events \ {"hangup"}
      <4>1. CASE "hangup" \in socket
        BY <1>5, <4>1 DEF PollReady, StopRunLoop
      <4>2. CASE "hangup" \notin socket
        <5>1. queue' = socket /\ socket' = {} /\ socket \subseteq Events
          BY <1>5, <4>2 DEF PollReady
        <5>2. QED
          BY <4>2, <5>1
      <4>3. QED
        BY <4>1, <4>2
    <3>3. QED
      BY <1>5, <3>1, <3>2 DEF PollReady, StopRunLoop
  <2>3. FrameChain' /\ FrameEvents'
    BY <1>5 DEF PollReady, StopRunLoop
  <2>4. NoLostWakeup' /\ StopSignalled'
    BY <1>5 DEF PollReady, StopRunLoop
  <2>5. NoUseAfterFree' /\ Locking' /\ Stopping'
    BY <1>5 DEF PollReady, StopRunLoop
  <2>6. QED
    BY <2>1, <2>2, <2>3, <2>4, <2>5
<1>6. CASE PollTimeout
  BY <1>6 DEF PollTimeout
<1>7. CASE PollInterrupted
  BY <1>7 DEF PollInterrupted
<1>8. CASE DispatchRead
  <2>1. Dispatch(queue, eventfd) /\ rpc \in MainLoop
    BY <1>8 DEF DispatchRead
  <2>2. "frame" \in queue => requested = 1
    OBVIOUS
  <2>3. QED
    BY <1>8, <2>1, <2>2, DispatchFrame DEF DispatchRead
<1>9. CASE Render
  <2>1. requested = 0 /\ ~frameCb
    BY <1>9 DEF Render
  <2>2. requested' = 1
    BY <1>9, <2>1 DEF Render
  <2>3. FlagTypes' /\ ThreadTypes'
    BY <1>9, <2>2 DEF Render
  <2>4. FrameChain' /\ FrameEvents'
    <3>1. frameCb' /\ ~dirty' /\ rpc' = "present" /\ socket' = socket /\ queue' = queue
      BY <1>9 DEF Render
    <3>2. QED
      BY <2>2, <3>1
  <2>5. NoLostWakeup' /\ StopSignalled' /\ NoUseAfterFree' /\ Locking' /\ Stopping'
    BY <1>9 DEF Render
  <2>6. QED
    BY <2>3, <2>4, <2>5
<1>10. CASE Present
  BY <1>10 DEF Present, SwapBuffers
<1>11. CASE PresentFails
  BY <1>11 DEF PresentFails, StopRunLoop
<1>12. CASE Cleanup
  <2>1. FlagTypes'
    BY <1>12 DEF Cleanup
  <2>2. ThreadTypes'
    <3>1. requested' \in {0, 1}
      BY <1>12 DEF Cleanup
    <3>2. socket' \subseteq Events /\ queue' \subseteq Events \ {"hangup"}
      BY <1>12 DEF Cleanup
    <3>3. QED
      BY <1>12, <3>1, <3>2 DEF Cleanup
  <2>3. FrameChain' /\ FrameEvents'
    BY <1>12 DEF Cleanup
  <2>4. NoLostWakeup' /\ StopSignalled'
    BY <1>12 DEF Cleanup
  <2>5. NoUseAfterFree' /\ Locking' /\ Stopping'
    BY <1>12 DEF Cleanup
  <2>6. QED
    BY <2>1, <2>2, <2>3, <2>4, <2>5
<1>13. QED
  BY <1>1, <1>2, <1>3, <1>4, <1>5, <1>6, <1>7, <1>8, <1>9, <1>10, <1>11, <1>12

\* The compositor keeps the control part.
LEMMA CompositorStep == ASSUME CInv, FrameDone \/ CompositorEvent PROVE CInv'
<1> USE DEF CInv, FlagTypes, ThreadTypes, FrameChain, NoLostWakeup, NoUseAfterFree, FrameEvents,
            StopSignalled, Locking, Stopping, ctxVars, renderVars, progVars
<1>1. CASE FrameDone
  <2>1. requested = 1 /\ requested' = 1
    BY <1>1 DEF FrameDone
  <2>2. FlagTypes' /\ ThreadTypes'
    BY <1>1 DEF FrameDone
  <2>3. FrameChain' /\ FrameEvents'
    BY <1>1, <2>1 DEF FrameDone
  <2>4. NoLostWakeup' /\ StopSignalled' /\ NoUseAfterFree' /\ Locking' /\ Stopping'
    BY <1>1 DEF FrameDone
  <2>5. QED
    BY <2>2, <2>3, <2>4
<1>2. CASE CompositorEvent
  <2>1. FlagTypes' /\ ThreadTypes'
    BY <1>2 DEF CompositorEvent
  <2>2. FrameChain' /\ FrameEvents'
    BY <1>2 DEF CompositorEvent
  <2>3. NoLostWakeup' /\ StopSignalled' /\ NoUseAfterFree' /\ Locking' /\ Stopping'
    BY <1>2 DEF CompositorEvent
  <2>4. QED
    BY <2>1, <2>2, <2>3
<1>3. QED
  BY <1>1, <1>2

\* The progress thread writes what the clamp allows; the render thread only copies it.
LEMMA ProgressStep == ASSUME ProgressTypes, Next PROVE ProgressTypes'
<1> USE DEF ProgressTypes, ctxVars, renderVars, wlVars, progVars
<1>1. CASE ProgBegin \/ ProgSignal
  BY <1>1 DEF ProgBegin, ProgSignal
<1>2. CASE ProgPercent
  <2>1. update.percent \in Percents \cup {0}
    OBVIOUS
  <2>2. Clamp(update.percent) \in 0..100
    BY <2>1, ClampInRange
  <2>3. QED
    BY <1>2, <2>2 DEF ProgPercent
<1>3. CASE ProgColour
  BY <1>3 DEF ProgColour
<1>4. CASE Boot \/ Render \/ Present
  BY <1>4 DEF Boot, Render, Present
<1>5. CASE UNCHANGED <<progress, shown, update>>
  BY <1>5
<1>6. CASE Main \/ FrameDone \/ CompositorEvent
  <2>1. UNCHANGED <<progress, shown, update>>
    BY <1>6 DEF Main, MainRequest, MainPending, MainRunning, MainSignal, MainJoin,
                MainDeinit, FrameDone, CompositorEvent
  <2>2. QED
    BY <2>1
<1>7. CASE \/ HsTest \/ HsPoll \/ HsPollError \/ BootUnclaimed \/ BootFails \/ Top
           \/ ApplyRead \/ ApplyStore \/ DispatchQueued \/ PollReady \/ PollTimeout
           \/ PollInterrupted \/ DispatchRead \/ PresentFails \/ Cleanup
  <2>1. UNCHANGED <<progress, shown, update>>
    BY <1>7 DEF HsTest, HsPoll, HsPollError, BootUnclaimed, BootFails, Top, ApplyRead,
                ApplyStore, DispatchQueued, PollReady, PollTimeout, PollInterrupted,
                DispatchRead, PresentFails, Cleanup
  <2>2. QED
    BY <2>1
<1>8. QED
  BY <1>1, <1>2, <1>3, <1>4, <1>6, <1>7 DEF Next, Prog, RenderThread, RenderContinues

\* Every step of the three threads keeps the invariant.
LEMMA IInvStep == IInv /\ [Next]_vars => IInv'
<1> SUFFICES ASSUME IInv, [Next]_vars PROVE IInv'
  OBVIOUS
<1>1. CInv /\ ProgressTypes
  BY DEF IInv, CInv, TypeOK
<1>2. CASE UNCHANGED vars
  <2>1. CInv'
    BY <1>1, <1>2 DEF vars, ctxVars, renderVars, wlVars, progVars, CInv, FlagTypes, ThreadTypes,
                      FrameChain, NoLostWakeup, NoUseAfterFree, FrameEvents, StopSignalled,
                      Locking, Stopping
  <2>2. ProgressTypes'
    BY <1>1, <1>2 DEF vars, ctxVars, renderVars, progVars, ProgressTypes
  <2>3. QED
    BY <2>1, <2>2 DEF IInv, CInv, TypeOK
<1>3. CASE Next
  <2>1. CInv'
    BY <1>1, <1>3, MainStep, ProgStep, BootStep, LoopStep, CompositorStep
       DEF Next, RenderThread, RenderContinues
  <2>2. ProgressTypes'
    BY <1>1, <1>3, ProgressStep
  <2>3. QED
    BY <2>1, <2>2 DEF IInv, CInv, TypeOK
<1>4. QED
  BY <1>2, <1>3

\* The invariant holds in every reachable state.
THEOREM Invariance == Spec => []IInv
BY InitIInv, IInvStep, PTL DEF Spec

\* Type correctness, with the progress shown always between 0 and 100.
THEOREM TypeCorrect == Spec => []TypeOK
<1>1. IInv => TypeOK
  BY DEF IInv
<1>2. QED
  BY <1>1, Invariance, PTL

\* The chain of frame callbacks never breaks, doubles or leaks.
THEOREM FrameChainCorrect == Spec => []FrameChain
<1>1. IInv => FrameChain
  BY DEF IInv
<1>2. QED
  BY <1>1, Invariance, PTL

\* A loop about to block in poll has, or will get, the wakeup for whatever it has
\* not seen.
THEOREM NoLostWakeupCorrect == Spec => []NoLostWakeup
<1>1. IInv => NoLostWakeup
  BY DEF IInv
<1>2. QED
  BY <1>1, Invariance, PTL

\* deinit frees the context after the last use by the other two threads.
THEOREM NoUseAfterFreeCorrect == Spec => []NoUseAfterFree
<1>1. IInv => NoUseAfterFree
  BY DEF IInv
<1>2. QED
  BY <1>1, Invariance, PTL

-----------------------------------------------------------------------------
\* Every step of the three threads is a step of the contract or leaves the
\* requested mode and the phase of the object alone.
LEMMA ContractStep == IInv /\ [Next]_vars => [Contract!Next]_(Contract!vars)
<1> SUFFICES ASSUME IInv, [Next]_vars PROVE [Contract!Next]_(Contract!vars)
  OBVIOUS
<1> USE DEF IInv, TypeOK, FlagTypes, ThreadTypes, Stopping, NoUseAfterFree, phase,
            Contract!vars, Contract!Next
<1>1. ASSUME NEW r \in Requests, MainRequest(r) PROVE Contract!Request(r) /\ target # "Closing"
  BY <1>1 DEF MainRequest, Contract!Request, ctxVars, renderVars
<1>2. CASE MainDeinit
  <2>1. Contract!Free
    BY <1>2 DEF MainDeinit, Contract!Free, renderVars
  <2>2. QED
    BY <2>1
<1>3. CASE MainPending \/ MainRunning \/ MainSignal \/ MainJoin \/ Prog \/ FrameDone
           \/ CompositorEvent \/ UNCHANGED vars
  BY <1>3 DEF MainPending, MainRunning, MainSignal, MainJoin, Prog, ProgBegin, ProgPercent,
              ProgColour, ProgSignal, FrameDone, CompositorEvent, vars, ctxVars, renderVars
<1>4. CASE RenderThread
  <2>1. target' = target /\ ctx' = ctx /\ rpc # "done"
    BY <1>4 DEF RenderThread, RenderContinues, HsTest, HsPoll, HsPollError, BootUnclaimed, BootFails, Boot,
                Top, ApplyRead, ApplyStore, DispatchQueued, PollReady, PollTimeout,
                PollInterrupted, DispatchRead, Render, Present, PresentFails, Cleanup, ctxVars
  <2>2. CASE rpc' = "done"
    <3>1. Contract!Exit
      BY <2>1, <2>2 DEF Contract!Exit
    <3>2. QED
      BY <3>1
  <2>3. CASE rpc' # "done"
    BY <2>1, <2>3
  <2>4. QED
    BY <2>2, <2>3
<1>5. ASSUME NEW r \in Requests, MainRequest(r) PROVE [Contract!Next]_(Contract!vars)
  <2>1. r \in Contract!Modes \ {"Bootstrapping"}
    BY DEF Contract!Modes
  <2>2. QED
    BY <1>1, <1>5, <2>1
<1>6. QED
  BY <1>2, <1>3, <1>4, <1>5 DEF Next, Main

\* The threads and locks of GlLoop implement the object that FireboltApp is built
\* on: requests stop with close, run() ends before the object is freed.
THEOREM ContractSafety == Spec => Contract!Safety
<1>1. Init => Contract!Init
  BY DEF Init, Contract!Init, phase
<1>2. QED
  BY <1>1, ContractStep, Invariance, PTL DEF Spec, Contract!Safety
=============================================================================
