-------------------------- MODULE FireboltAppProof --------------------------
(***************************************************************************)
(* Proofs about FireboltApp, for any list of methods in which a module     *)
(* that subscribes lists its unsubscribeAll, and any bound on the queue.   *)
(* The invariant has a part for each of the things the threads share: the  *)
(* window and its threads, the exit, the subscriptions, and the queue of   *)
(* lifecycle states between the platform and the window; a part each for   *)
(* the queue and the window holds while the platform skips no state.       *)
(***************************************************************************)
EXTENDS FireboltApp, TLAPS

StartPC == {"connect", "await", "font", "subscribe"}
EndPC   == {"joinTmt", "joinGl", "joinProg", "exit", "done"}

\* Before the lifecycle loop there is only main.
StartInv ==
  mpc \in StartPC =>
    /\ glPhase = "null" /\ ~glJoinable /\ progThread = "none" /\ tmt = "none"
    /\ ~listening /\ ~exitRequested
    /\ queue = <<>> /\ handling = UNKNOWN_STATE /\ currentAppState = UNKNOWN_STATE

RenderInv ==
  /\ RenderThreadOwned
  /\ glJoinable => glRunThreadStarted /\ glPhase \in {"running", "exited"}
  /\ mpc = "deinit" => ~glJoinable

\* What an exit finds on its way: no window once it is requested and main is back
\* in the loop, and one thread less after each join.
ExitInv ==
  /\ mpc \in {"handle", "started"} => ~exitRequested
  /\ mpc \in {"loop", "key"} /\ exitRequested => glPhase = "null"
  /\ mpc \in EndPC => glPhase = "null"
  /\ mpc \in {"joinGl", "joinProg", "exit", "done"} => tmt \in {"none", "done"}
  /\ mpc \in {"exit", "done"} => progThread \in {"none", "exited"}
  /\ mpc = "done" => ~listening

\* From method k on, an unsubscribeAll ends the subscription to e.
ClearedFrom(e, k) ==
  \E j \in k..Len(Methods) : Methods[j].kind = "unsubscribeAll" /\ e \in Methods[j].events

\* A live subscription will be cancelled before the module goes.
SubscriptionInv ==
  /\ tmt \in {"total", "run", "cleanup1", "wait", "cleanup2", "unregister"} => tracker
  /\ tmt \in {"run", "cleanup1", "wait", "cleanup2", "unregister"} => totalSet
  /\ tmt \in {"none", "register", "total", "unregister", "done"} => subscribed = {}
  /\ cleanupDone => subscribed = {} /\ tmt \in {"wait", "cleanup2", "unregister", "done"}
  /\ tmt \in {"run", "wait"} => \A e \in subscribed : ClearedFrom(e, 1)
  /\ tmt \in {"cleanup1", "cleanup2"} => \A e \in subscribed : ClearedFrom(e, at)

\* What was announced last is the last in the queue, or what was handled last.
QueueInv ==
  /\ queue # <<>> => queue[Len(queue)] = announced
  /\ queue = <<>> /\ (handling # UNKNOWN_STATE \/ glPhase # "null") => handling = announced
  /\ announced # UNKNOWN_STATE => announced[2] = platform
  /\ ~listening => mpc \in StartPC \cup {"done"}

\* The derived state b repeats or may follow the derived state a.
Links(a, b) ==
  \/ a = b
  \/ /\ a # UNKNOWN_STATE
     /\ IF b = UNKNOWN_STATE THEN a[2] \in {"INITIALIZING", "HIBERNATED"} ELSE a[2] = b[1]

\* Without a skip, the state last handled and those in the queue begin where the one
\* before ended; only the last may be unknown, and then the platform is terminating
\* the app.
ChainInv ==
  ~skipped =>
    /\ \A k \in 1..Len(queue) - 1 : Links(queue[k], queue[k + 1])
    /\ queue # <<>> /\ handling # UNKNOWN_STATE => Links(handling, queue[1])
    /\ queue # <<>> /\ announced = UNKNOWN_STATE => platform = "TERMINATING"

\* The state last handled decides what a window was asked for.
WindowInv ==
  /\ mpc \in {"loop", "key"} => currentAppState = handling
  /\ mpc \in {"wake", "close", "join", "deinit"} /\ stopFor = "key" => currentAppState = handling
  /\ mpc \in {"loop", "key"} /\ glPhase # "null" =>
       /\ handling = PAUSED_TO_ACTIVE => glMode = "Active"
       /\ handling = ACTIVE_TO_PAUSED => glMode = "Paused"
       /\ handling \notin ToBackground \cup ToTerminating
  /\ mpc = "started" => handling = INITIALIZING_TO_PAUSED

WindowMode(s) == CASE s = INITIALIZING_TO_PAUSED -> "Bootstrapping"
                   [] s = PAUSED_TO_ACTIVE -> "Active"
                   [] s = ACTIVE_TO_PAUSED -> "Paused"

\* Without a skip it decides whether there is a window and in which mode.
ModeInv ==
  ~skipped =>
    /\ mpc \in {"loop", "key"} /\ glPhase # "null" =>
         /\ handling \in {INITIALIZING_TO_PAUSED, PAUSED_TO_ACTIVE, ACTIVE_TO_PAUSED}
         /\ glMode = WindowMode(handling)
    /\ mpc = "handle" /\ glPhase # "null" =>
         handling \in Mapped /\ handling[1] \in {"PAUSED", "ACTIVE"}
    /\ mpc = "started" => glMode = "Bootstrapping"

\* There is a window to start; only from close to the free it is closing.
RequestInv ==
  /\ mpc = "started" => glPhase # "null"
  /\ mpc \in {"loop", "key", "handle", "started", "wake", "close"} /\ glPhase # "null" =>
       glMode # "Closing"
  /\ mpc \in {"join", "deinit"} /\ glPhase # "null" => glMode = "Closing"

IInv == /\ TypeOK /\ StartInv /\ RenderInv /\ ExitInv /\ SubscriptionInv
        /\ QueueInv /\ ChainInv /\ WindowInv /\ ModeInv /\ RequestInv

-----------------------------------------------------------------------------
\* Deriving a state never leaves the enumeration.
LEMMA DerivedType == \A m \in Changes : getAppStateFromLifeCycleEvent(m) \in AppState
  BY DEF getAppStateFromLifeCycleEvent, AppState

\* A change, and a derived state but the unknown one, tell where they begin and end.
LEMMA StatePairs ==
  /\ Changes \cup Mapped \subseteq LifecycleState \X LifecycleState
  /\ \A m \in Changes \cup Mapped : m # UNKNOWN_STATE /\ m[1] # "TERMINATING"
  /\ UNKNOWN_STATE \in AppState
  /\ {INITIALIZING_TO_PAUSED, PAUSED_TO_ACTIVE, ACTIVE_TO_PAUSED} \subseteq Mapped
  <1>1. /\ Changes \subseteq LifecycleState \X LifecycleState
        /\ \A m \in Changes : m # UNKNOWN_STATE /\ m[1] # "TERMINATING"
    BY ChangesAssumption DEF LifecycleState, UNKNOWN_STATE
  <1>2. /\ Mapped \subseteq LifecycleState \X LifecycleState
        /\ \A m \in Mapped : m # UNKNOWN_STATE /\ m[1] # "TERMINATING"
    BY DEF Mapped, LifecycleState, UNKNOWN_STATE
  <1>3. {INITIALIZING_TO_PAUSED, PAUSED_TO_ACTIVE, ACTIVE_TO_PAUSED} \subseteq Mapped
    BY DEF Mapped, INITIALIZING_TO_PAUSED, PAUSED_TO_ACTIVE, ACTIVE_TO_PAUSED
  <1> QED
    BY <1>1, <1>2, <1>3 DEF AppState

\* The methods are records of a kind and a set of events.
LEMMA MethodsFacts ==
  /\ Len(Methods) \in Nat
  /\ \A i \in 1..Len(Methods) : Methods[i].kind \in Kinds /\ Methods[i].events \subseteq Events
  <1> DEFINE Method == [kind : Kinds, events : SUBSET Events]
  <1>1. Methods \in Seq(Method)
    BY MethodsAssumption
  <1> HIDE DEF Method
  <1>2. Len(Methods) \in Nat /\ \A i \in 1..Len(Methods) : Methods[i] \in Method
    BY <1>1
  <1>3. \A m \in Method : m.kind \in Kinds /\ m.events \subseteq Events
    BY DEF Method
  <1> QED
    BY <1>2, <1>3

\* When main begins nothing else has.
LEMMA InitInvariant == Init => IInv
  <1> SUFFICES ASSUME Init PROVE IInv
    OBVIOUS
  <1> USE DEF Init
  <1>1. TypeOK
    <2>1. queue \in Seq(AppState) /\ Len(queue) <= MaxQueue
      BY MethodsAssumption
    <2>2. at \in 1 .. Len(Methods) + 1
      BY MethodsAssumption
    <2>3. GL!TypeOK
      BY DEF GL!TypeOK, GL!Modes, GL!Phases, GL!Init
    <2> QED
      BY <2>1, <2>2, <2>3, StatePairs
      DEF TypeOK, SwitchType, ControlType, DataType, LifecycleState, MainPC, TmtPC
  <1>2. StartInv /\ RenderInv /\ ExitInv
    BY DEF StartInv, RenderInv, RenderThreadOwned, ExitInv, StartPC, EndPC
  <1>3. SubscriptionInv
    BY DEF SubscriptionInv
  <1>4. QueueInv /\ ChainInv
    BY DEF QueueInv, ChainInv, StartPC
  <1>5. WindowInv /\ ModeInv /\ RequestInv
    BY DEF WindowInv, ModeInv, RequestInv
  <1> QED
    BY <1>1, <1>2, <1>3, <1>4, <1>5 DEF IInv

\* A report only sets a switch.
LEMMA ReportType == SwitchType /\ (Report \/ UNCHANGED hasChanged) => hasChanged' \in BOOLEAN
  <1>1. Report => hasChanged' \in BOOLEAN
    BY Zenon DEF Report
  <1> QED
    BY <1>1 DEF SwitchType

\* A method of the run phase adds at most its own events, and only by subscribing.
LEMMA MethodEffects ==
  ASSUME TmtRunMethod, DataType
  PROVE  /\ Report \/ UNCHANGED hasChanged
         /\ at \in 1..Len(Methods) /\ at' = at + 1
         /\ \/ subscribed' = subscribed
            \/ /\ Methods[at].kind = "subscribe"
               /\ subscribed' = subscribed \cup Methods[at].events
  <1>1. at \in 1..Len(Methods) /\ at' = at + 1
    BY MethodsFacts DEF TmtRunMethod, DataType
  <1>2. Methods[at].kind \in Kinds
    BY <1>1, MethodsFacts
  <1>3. CASE Deferred(Methods[at])
    BY <1>1, <1>3 DEF TmtRunMethod, Deferred
  <1>4. CASE Methods[at].kind = "call"
    BY <1>1, <1>4 DEF TmtRunMethod, Deferred
  <1>5. CASE Methods[at].kind = "subscribe"
    BY <1>1, <1>5 DEF TmtRunMethod, Deferred
  <1> QED
    BY <1>2, <1>3, <1>4, <1>5 DEF Deferred, Kinds

\* A step of the cleanup only ends subscriptions, an unsubscribeAll all of its own.
LEMMA CleanupEffects ==
  ASSUME NEW here, NEW next, Cleanup(here, next), DataType
  PROVE  /\ Report \/ UNCHANGED hasChanged
         /\ subscribed' \subseteq subscribed
         /\ at' = at \/ (at \in 1..Len(Methods) /\ at' = at + 1)
         /\ cleanupDone \/ at > Len(Methods) =>
              subscribed' = subscribed /\ cleanupDone' /\ tmt' = next
         /\ ~(cleanupDone \/ at > Len(Methods)) =>
              /\ at \in 1..Len(Methods) /\ at' = at + 1
              /\ UNCHANGED <<tmt, cleanupDone>>
              /\ Methods[at].kind = "unsubscribeAll" =>
                   subscribed' = subscribed \ Methods[at].events
  <1>1. CASE cleanupDone \/ at > Len(Methods)
    <2>1. /\ at' = at /\ hasChanged' = hasChanged /\ subscribed' = subscribed
          /\ cleanupDone' /\ tmt' = next
      BY <1>1 DEF Cleanup
    <2>2. subscribed' \subseteq subscribed
      BY <2>1
    <2> QED
      BY <1>1, <2>1, <2>2
  <1>2. CASE ~(cleanupDone \/ at > Len(Methods))
    <2>1. /\ at \in 1..Len(Methods) /\ at' = at + 1
          /\ UNCHANGED <<tmt, cleanupDone>>
      BY <1>2, MethodsFacts DEF Cleanup, DataType
    <2>2. Methods[at].kind \in Kinds
      BY <2>1, MethodsFacts
    <2>3. CASE ~Deferred(Methods[at])
      BY <1>2, <2>1, <2>3 DEF Cleanup, Deferred
    <2>4. CASE Methods[at].kind = "unsubscribe"
      BY <1>2, <2>1, <2>4 DEF Cleanup, Deferred
    <2>5. CASE Methods[at].kind = "unsubscribeAll"
      BY <1>2, <2>1, <2>5 DEF Cleanup, Deferred
    <2> QED
      BY <1>2, <2>1, <2>3, <2>4, <2>5 DEF Deferred
  <1> QED
    BY <1>1, <1>2

\* Every action keeps the switches Boolean, ...
LEMMA NextSwitch == SwitchType /\ DataType /\ [Next]_vars => SwitchType'
  <1> SUFFICES ASSUME SwitchType, DataType, [Next]_vars PROVE SwitchType'
    OBVIOUS
  <1> USE DEF SwitchType, conn, lifecycle, mainVars, glVars, pcVars,
           tmtVars, others, progOthers, tmtOthers
  <1>1. ASSUME NEW m \in Changes, LifecycleChange(m) PROVE SwitchType'
    BY <1>1 DEF LifecycleChange
  <1>2. CASE ConnectionChanged
    BY <1>2 DEF ConnectionChanged
  <1>3. CASE ModuleEvent
    BY <1>3 DEF ModuleEvent, Report
  <1>4. CASE GlExitKey
    BY <1>4 DEF GlExitKey
  <1>5. CASE GlRunReturns
    BY <1>5 DEF GlRunReturns, GL!Exit
  <1>6. CASE Connect \/ AwaitConnection \/ CheckFont
    BY <1>6 DEF Connect, AwaitConnection, CheckFont, Starting, GiveUp
  <1>7. CASE PopState
    BY <1>7 DEF PopState
  <1>8. CASE HandleStartGl
    BY <1>8 DEF HandleStartGl, GL!Start
  <1>9. CASE HandleActive \/ HandlePaused
    BY <1>9 DEF HandleActive, HandlePaused, GL!Request
  <1>10. CASE HandleStop
    BY <1>10 DEF HandleStop
  <1>11. CASE HandleOther
    BY <1>11 DEF HandleOther
  <1>12. CASE wake_for_shutdown
    BY <1>12 DEF wake_for_shutdown
  <1>13. CASE StopClose
    BY <1>13 DEF StopClose, GL!Request
  <1>14. CASE StopJoin
    BY <1>14 DEF StopJoin
  <1>15. CASE StopDeinit
    BY <1>15 DEF StopDeinit, GL!Free
  <1>16. CASE CheckExitKey
    BY <1>16 DEF CheckExitKey
  <1>17. CASE LoopEnds
    BY <1>17 DEF LoopEnds
  <1>18. CASE Return
    BY <1>18 DEF Return
  <1>19. CASE JoinThreads
    BY <1>19 DEF JoinThreads
  <1>20. CASE ProgTop
    BY <1>20 DEF ProgTop
  <1>21. CASE ProgWake
    BY <1>21 DEF ProgWake
  <1>22. CASE ProgGot
    BY <1>22 DEF ProgGot
  <1>23. CASE TmtRegister
    BY <1>23 DEF TmtRegister
  <1>24. CASE TmtTotal
    BY <1>24 DEF TmtTotal
  <1>25. CASE TmtRunExit
    BY <1>25 DEF TmtRunExit
  <1>26. CASE TmtRunEnds
    BY <1>26 DEF TmtRunEnds
  <1>27. CASE TmtWait
    BY <1>27 DEF TmtWait
  <1>28. CASE TmtUnregister
    BY <1>28 DEF TmtUnregister
  <1>29. CASE Subscribe
    <2>1. CASE Starting("subscribe", "loop") /\ listening' = TRUE
      BY <2>1 DEF Starting
    <2>2. CASE GiveUp("subscribe", "closed")
      BY <2>2 DEF GiveUp, Starting
    <2> QED
      BY <1>29, <2>1, <2>2 DEF Subscribe
  <1>30. CASE HandleInitGl
    <2>1. CASE exitRequested' = TRUE
      BY <1>30, <2>1 DEF HandleInitGl
    <2>2. CASE exitRequested' = exitRequested
      BY <1>30, <2>2 DEF HandleInitGl
    <2> QED
      BY <1>30, <2>1, <2>2 DEF HandleInitGl
  <1>31. CASE TmtRunMethod
    <2>1. hasChanged' \in BOOLEAN
      <3>1. Report \/ UNCHANGED hasChanged
        BY <1>31, MethodEffects
      <3> QED
        BY <3>1, ReportType
    <2> QED
      BY <1>31, <2>1 DEF TmtRunMethod
  <1>32. ASSUME NEW here, NEW next, Cleanup(here, next) PROVE SwitchType'
    <2>1. hasChanged' \in BOOLEAN
      <3>1. Report \/ UNCHANGED hasChanged
        BY <1>32, CleanupEffects
      <3> QED
        BY <3>1, ReportType
    <2> QED
      BY <1>32, <2>1 DEF Cleanup
  <1>33. CASE UNCHANGED vars
    BY <1>33 DEF vars
  <1> QED
    BY <1>1, <1>2, <1>3, <1>4, <1>5, <1>6, <1>7, <1>8, <1>9, <1>10, <1>11, <1>12, <1>13,
       <1>14, <1>15, <1>16, <1>17, <1>18, <1>19, <1>20, <1>21, <1>22, <1>23, <1>24,
       <1>25, <1>26, <1>27, <1>28, <1>29, <1>30, <1>31, <1>32, <1>33 DEF Next, Main,
       Prog, Tmt, TmtCleanup, TmtPC

\* ... every thread at one of its places ...
LEMMA NextControl == ControlType /\ [Next]_vars => ControlType'
  <1> SUFFICES ASSUME ControlType, [Next]_vars PROVE ControlType'
    OBVIOUS
  <1> USE DEF ControlType, MainPC, TmtPC, GL!TypeOK, GL!Modes, GL!Phases,
           conn, lifecycle, mainVars, glVars, pcVars,
           tmtVars, others, progOthers, tmtOthers
  <1>1. ASSUME NEW m \in Changes, LifecycleChange(m) PROVE ControlType'
    BY <1>1 DEF LifecycleChange
  <1>2. CASE ConnectionChanged \/ ModuleEvent \/ GlExitKey \/ GlRunReturns
    BY <1>2 DEF ConnectionChanged, ModuleEvent, GlExitKey, GlRunReturns, Report, GL!Exit
  <1>3. CASE Connect \/ AwaitConnection \/ CheckFont
    BY <1>3 DEF Connect, AwaitConnection, CheckFont, Starting, GiveUp
  <1>4. CASE PopState
    BY <1>4 DEF PopState
  <1>5. CASE HandleStartGl \/ HandleActive \/ HandlePaused \/ HandleStop \/ HandleOther
    BY <1>5 DEF HandleStartGl, HandleActive, HandlePaused, HandleStop, HandleOther,
       GL!Start, GL!Request
  <1>6. CASE wake_for_shutdown \/ StopClose \/ StopJoin \/ StopDeinit
    BY <1>6 DEF wake_for_shutdown, StopClose, StopJoin, StopDeinit, GL!Request, GL!Free
  <1>7. CASE CheckExitKey \/ LoopEnds \/ JoinThreads \/ Return
    BY <1>7 DEF CheckExitKey, LoopEnds, JoinThreads, Return
  <1>8. CASE ProgTop \/ ProgWake \/ ProgGot
    BY <1>8 DEF ProgTop, ProgWake, ProgGot
  <1>9. CASE TmtRegister \/ TmtTotal \/ TmtRunExit \/ TmtRunEnds \/ TmtWait \/ TmtUnregister
    BY <1>9 DEF TmtRegister, TmtTotal, TmtRunExit, TmtRunEnds, TmtWait, TmtUnregister
  <1>10. CASE Subscribe
    BY <1>10 DEF Subscribe, Starting, GiveUp
  <1>11. CASE HandleInitGl
    BY <1>11 DEF HandleInitGl, GL!Create
  <1>12. CASE TmtRunMethod
    BY <1>12 DEF TmtRunMethod
  <1>13. ASSUME NEW here \in TmtPC, NEW next \in TmtPC, Cleanup(here, next) PROVE ControlType'
    <2>1. tmt' \in {tmt, next}
      BY <1>13 DEF Cleanup
    <2> QED
      BY <1>13, <2>1 DEF Cleanup
  <1>14. CASE UNCHANGED vars
    BY <1>14 DEF vars
  <1> QED
    BY <1>1, <1>2, <1>3, <1>4, <1>5, <1>6, <1>7, <1>8, <1>9, <1>10, <1>11, <1>12, <1>13,
       <1>14 DEF Next, Main, Prog, Tmt, TmtCleanup, TmtPC

\* ... and the queue, the states and the subscriptions in their sets.
LEMMA NextData == DataType /\ [Next]_vars => DataType'
  <1> SUFFICES ASSUME DataType, [Next]_vars PROVE DataType'
    OBVIOUS
  <1> USE DEF DataType, conn, lifecycle, mainVars, glVars, pcVars,
           tmtVars, others, progOthers, tmtOthers
  <1>1. ASSUME NEW m \in Changes, LifecycleChange(m) PROVE DataType'
    BY <1>1, StatePairs, DerivedType, MethodsAssumption DEF LifecycleChange
  <1>2. CASE ConnectionChanged \/ ModuleEvent \/ GlExitKey \/ GlRunReturns
    BY <1>2, MethodsFacts DEF ConnectionChanged, ModuleEvent, GlExitKey, GlRunReturns,
       Report, GL!Exit
  <1>3. CASE Connect \/ AwaitConnection \/ CheckFont
    BY <1>3, MethodsFacts DEF Connect, AwaitConnection, CheckFont, Starting, GiveUp
  <1>4. CASE HandleStartGl \/ HandleActive \/ HandlePaused \/ HandleStop \/ HandleOther
    BY <1>4, MethodsFacts DEF HandleStartGl, HandleActive, HandlePaused, HandleStop,
       HandleOther, GL!Start, GL!Request
  <1>5. CASE wake_for_shutdown \/ StopClose \/ StopJoin \/ StopDeinit
    BY <1>5, MethodsFacts DEF wake_for_shutdown, StopClose, StopJoin, StopDeinit,
       GL!Request, GL!Free
  <1>6. CASE CheckExitKey \/ LoopEnds \/ JoinThreads \/ Return
    BY <1>6, MethodsFacts DEF CheckExitKey, LoopEnds, JoinThreads, Return
  <1>7. CASE ProgTop \/ ProgWake \/ ProgGot
    BY <1>7, MethodsFacts DEF ProgTop, ProgWake, ProgGot
  <1>8. CASE TmtRegister \/ TmtTotal \/ TmtRunExit \/ TmtRunEnds \/ TmtWait \/ TmtUnregister
    BY <1>8, MethodsFacts DEF TmtRegister, TmtTotal, TmtRunExit, TmtRunEnds, TmtWait,
       TmtUnregister
  <1>9. CASE Subscribe \/ HandleInitGl
    BY <1>9 DEF Subscribe, HandleInitGl, Starting, GiveUp, GL!Create
  <1>10. CASE PopState
    <2>1. CASE queue = <<>>
      BY <1>10, <2>1 DEF PopState
    <2>2. CASE queue # <<>>
      <3>1. /\ Head(queue) \in AppState /\ Tail(queue) \in Seq(AppState)
            /\ Len(Tail(queue)) = Len(queue) - 1
        BY <2>2
      <3>2. Len(Tail(queue)) <= MaxQueue
        BY <3>1, MethodsAssumption
      <3>3. handling' = Head(queue) /\ queue' = Tail(queue)
        BY <1>10, <2>2 DEF PopState
      <3>4. UNCHANGED <<platform, announced, skipped, currentAppState, at, subscribed>>
        BY <1>10 DEF PopState
      <3> QED
        BY <3>1, <3>2, <3>3, <3>4
    <2> QED
      BY <2>1, <2>2
  <1>11. CASE TmtRunMethod
    <2>1. subscribed' \subseteq Events /\ at' \in 1 .. Len(Methods) + 1
      BY <1>11, MethodEffects, MethodsFacts
    <2> QED
      BY <1>11, <2>1 DEF TmtRunMethod
  <1>12. ASSUME NEW here, NEW next, Cleanup(here, next) PROVE DataType'
    <2>1. subscribed' \subseteq subscribed
      BY <1>12, CleanupEffects
    <2>2. at' = at \/ (at \in 1..Len(Methods) /\ at' = at + 1)
      BY <1>12, CleanupEffects
    <2>3. at' \in 1 .. Len(Methods) + 1
      BY <2>2, MethodsFacts
    <2> QED
      BY <1>12, <2>1, <2>3 DEF Cleanup
  <1>13. CASE UNCHANGED vars
    BY <1>13 DEF vars
  <1> QED
    BY <1>1, <1>2, <1>3, <1>4, <1>5, <1>6, <1>7, <1>8, <1>9, <1>10, <1>11, <1>12, <1>13
       DEF Next, Main, Prog, Tmt, TmtCleanup, TmtPC

\* Nothing begins before main is in its loop.
LEMMA NextStart ==
  ASSUME StartInv, [Next]_vars
  PROVE  StartInv'
  <1> USE DEF StartInv, StartPC, conn, lifecycle, mainVars, glVars, pcVars,
           tmtVars, others, progOthers, tmtOthers
  <1>1. ASSUME NEW m \in Changes, LifecycleChange(m) PROVE StartInv'
    BY <1>1 DEF LifecycleChange
  <1>2. CASE ConnectionChanged \/ ModuleEvent \/ GlExitKey \/ GlRunReturns
    BY <1>2 DEF ConnectionChanged, ModuleEvent, GlExitKey, GlRunReturns, Report, GL!Exit
  <1>3. CASE Connect \/ AwaitConnection \/ CheckFont \/ Subscribe
    BY <1>3 DEF Connect, AwaitConnection, CheckFont, Subscribe, Starting, GiveUp
  <1>4. CASE PopState
    BY <1>4 DEF PopState
  <1>5. CASE HandleInitGl
    BY <1>5 DEF HandleInitGl, GL!Create
  <1>6. CASE HandleStartGl
    BY <1>6 DEF HandleStartGl, GL!Start
  <1>7. CASE HandleActive \/ HandlePaused \/ HandleStop \/ HandleOther
    BY <1>7 DEF HandleActive, HandlePaused, HandleStop, HandleOther, GL!Request
  <1>8. CASE wake_for_shutdown \/ StopClose \/ StopJoin \/ StopDeinit
    BY <1>8 DEF wake_for_shutdown, StopClose, StopJoin, StopDeinit, GL!Request, GL!Free
  <1>9. CASE CheckExitKey \/ LoopEnds \/ JoinThreads \/ Return
    BY <1>9 DEF CheckExitKey, LoopEnds, JoinThreads, Return
  <1>10. CASE ProgTop \/ ProgWake \/ ProgGot
    BY <1>10 DEF ProgTop, ProgWake, ProgGot
  <1>11. CASE TmtRegister \/ TmtTotal \/ TmtRunExit \/ TmtRunEnds \/ TmtWait \/ TmtUnregister
    BY <1>11 DEF TmtRegister, TmtTotal, TmtRunExit, TmtRunEnds, TmtWait, TmtUnregister
  <1>12. CASE TmtRunMethod
    BY <1>12 DEF TmtRunMethod
  <1>13. ASSUME NEW here \in {"cleanup1", "cleanup2"}, NEW next, Cleanup(here, next) PROVE StartInv'
    BY <1>13 DEF Cleanup
  <1>14. CASE UNCHANGED vars
    BY <1>14 DEF vars
  <1> QED
    BY <1>1, <1>2, <1>3, <1>4, <1>5, <1>6, <1>7, <1>8, <1>9, <1>10, <1>11, <1>12, <1>13,
       <1>14 DEF Next, Main, Prog, Tmt, TmtCleanup, TmtPC

\* The render thread is started when there is none, and joined before its GlApp goes.
LEMMA NextRender ==
  ASSUME StartInv, RenderInv, ExitInv, [Next]_vars
  PROVE  RenderInv'
  <1> USE DEF RenderInv, RenderThreadOwned, StartInv, ExitInv, StartPC, EndPC, conn, lifecycle,
           mainVars, glVars, pcVars, tmtVars, others, progOthers, tmtOthers
  <1>1. ASSUME NEW m \in Changes, LifecycleChange(m) PROVE RenderInv'
    BY <1>1 DEF LifecycleChange
  <1>2. CASE ConnectionChanged \/ ModuleEvent \/ GlExitKey \/ GlRunReturns
    BY <1>2 DEF ConnectionChanged, ModuleEvent, GlExitKey, GlRunReturns, Report, GL!Exit
  <1>3. CASE Connect \/ AwaitConnection \/ CheckFont \/ Subscribe
    BY <1>3 DEF Connect, AwaitConnection, CheckFont, Subscribe, Starting, GiveUp
  <1>4. CASE PopState
    BY <1>4 DEF PopState
  <1>5. CASE HandleInitGl
    BY <1>5 DEF HandleInitGl, GL!Create
  <1>6. CASE HandleStartGl
    BY <1>6 DEF HandleStartGl, GL!Start
  <1>7. CASE HandleActive \/ HandlePaused \/ HandleStop \/ HandleOther
    BY <1>7 DEF HandleActive, HandlePaused, HandleStop, HandleOther, GL!Request
  <1>8. CASE wake_for_shutdown \/ StopClose
    BY <1>8 DEF wake_for_shutdown, StopClose, GL!Request
  <1>9. CASE StopJoin
    BY <1>9 DEF StopJoin
  <1>10. CASE StopDeinit
    BY <1>10 DEF StopDeinit, GL!Free
  <1>11. CASE CheckExitKey \/ LoopEnds
    BY <1>11 DEF CheckExitKey, LoopEnds
  <1>12. CASE JoinThreads
    BY <1>12 DEF JoinThreads
  <1>13. CASE Return
    BY <1>13 DEF Return
  <1>14. CASE ProgTop \/ ProgWake \/ ProgGot
    BY <1>14 DEF ProgTop, ProgWake, ProgGot
  <1>15. CASE TmtRegister \/ TmtTotal \/ TmtRunExit \/ TmtRunEnds \/ TmtWait \/ TmtUnregister
    BY <1>15 DEF TmtRegister, TmtTotal, TmtRunExit, TmtRunEnds, TmtWait, TmtUnregister
  <1>16. CASE TmtRunMethod
    BY <1>16 DEF TmtRunMethod
  <1>17. ASSUME NEW here \in {"cleanup1", "cleanup2"}, NEW next, Cleanup(here, next) PROVE RenderInv'
    BY <1>17 DEF Cleanup
  <1>18. CASE UNCHANGED vars
    BY <1>18 DEF vars
  <1> QED
    BY <1>1, <1>2, <1>3, <1>4, <1>5, <1>6, <1>7, <1>8, <1>9, <1>10, <1>11, <1>12, <1>13,
       <1>14, <1>15, <1>16, <1>17, <1>18 DEF Next, Main, Prog, Tmt, TmtCleanup, TmtPC

\* Each join leaves one thread less, and none of them comes back.
LEMMA NextExit ==
  ASSUME StartInv, ExitInv, [Next]_vars
  PROVE  ExitInv'
  <1> USE DEF StartInv, ExitInv, StartPC, EndPC, conn, lifecycle, mainVars, glVars,
           pcVars, tmtVars, others, progOthers, tmtOthers
  <1>1. ASSUME NEW m \in Changes, LifecycleChange(m) PROVE ExitInv'
    BY <1>1 DEF LifecycleChange
  <1>2. CASE ConnectionChanged \/ ModuleEvent \/ GlExitKey \/ GlRunReturns
    BY <1>2 DEF ConnectionChanged, ModuleEvent, GlExitKey, GlRunReturns, Report, GL!Exit
  <1>3. CASE Connect \/ AwaitConnection \/ CheckFont \/ Subscribe
    BY <1>3 DEF Connect, AwaitConnection, CheckFont, Subscribe, Starting, GiveUp
  <1>4. CASE PopState
    BY <1>4 DEF PopState
  <1>5. CASE HandleInitGl
    BY <1>5 DEF HandleInitGl, GL!Create
  <1>6. CASE HandleStartGl
    BY <1>6 DEF HandleStartGl, GL!Start
  <1>7. CASE HandleActive \/ HandlePaused \/ HandleStop \/ HandleOther
    BY <1>7 DEF HandleActive, HandlePaused, HandleStop, HandleOther, GL!Request
  <1>8. CASE wake_for_shutdown \/ StopClose \/ StopJoin \/ StopDeinit
    BY <1>8 DEF wake_for_shutdown, StopClose, StopJoin, StopDeinit, GL!Request, GL!Free
  <1>9. CASE CheckExitKey \/ LoopEnds
    BY <1>9 DEF CheckExitKey, LoopEnds
  <1>10. CASE JoinThreads \/ Return
    BY <1>10 DEF JoinThreads, Return
  <1>11. CASE ProgTop \/ ProgWake \/ ProgGot
    BY <1>11 DEF ProgTop, ProgWake, ProgGot
  <1>12. CASE TmtRegister \/ TmtTotal \/ TmtRunExit \/ TmtRunEnds \/ TmtWait \/ TmtUnregister
    BY <1>12 DEF TmtRegister, TmtTotal, TmtRunExit, TmtRunEnds, TmtWait, TmtUnregister
  <1>13. CASE TmtRunMethod
    BY <1>13 DEF TmtRunMethod
  <1>14. ASSUME NEW here \in {"cleanup1", "cleanup2"}, NEW next, Cleanup(here, next) PROVE ExitInv'
    BY <1>14 DEF Cleanup
  <1>15. CASE UNCHANGED vars
    BY <1>15 DEF vars
  <1> QED
    BY <1>1, <1>2, <1>3, <1>4, <1>5, <1>6, <1>7, <1>8, <1>9, <1>10, <1>11, <1>12, <1>13,
       <1>14, <1>15 DEF Next, Main, Prog, Tmt, TmtCleanup, TmtPC

\* A subscription is made for a module that will cancel it, and each step of the
\* cleanup leaves only those that a later one cancels.
LEMMA NextSubscription ==
  ASSUME DataType, SubscriptionInv, [Next]_vars
  PROVE  SubscriptionInv'
  <1> USE DEF SubscriptionInv, conn, lifecycle, mainVars, glVars, pcVars,
           tmtVars, others, progOthers, tmtOthers
  <1>1. ASSUME NEW m \in Changes, LifecycleChange(m) PROVE SubscriptionInv'
    BY <1>1 DEF LifecycleChange
  <1>2. CASE ConnectionChanged \/ ModuleEvent \/ GlExitKey \/ GlRunReturns
    BY <1>2 DEF ConnectionChanged, ModuleEvent, GlExitKey, GlRunReturns, Report, GL!Exit
  <1>3. CASE Connect \/ AwaitConnection \/ CheckFont \/ Subscribe
    BY <1>3 DEF Connect, AwaitConnection, CheckFont, Subscribe, Starting, GiveUp
  <1>4. CASE PopState
    BY <1>4 DEF PopState
  <1>5. CASE HandleInitGl \/ HandleStartGl
    BY <1>5 DEF HandleInitGl, HandleStartGl, GL!Create, GL!Start
  <1>6. CASE HandleActive
    BY <1>6 DEF HandleActive, GL!Request
  <1>7. CASE HandlePaused \/ HandleStop \/ HandleOther
    BY <1>7 DEF HandlePaused, HandleStop, HandleOther, GL!Request
  <1>8. CASE wake_for_shutdown \/ StopClose \/ StopJoin \/ StopDeinit
    BY <1>8 DEF wake_for_shutdown, StopClose, StopJoin, StopDeinit, GL!Request, GL!Free
  <1>9. CASE CheckExitKey \/ LoopEnds \/ JoinThreads \/ Return
    BY <1>9 DEF CheckExitKey, LoopEnds, JoinThreads, Return
  <1>10. CASE ProgTop \/ ProgWake \/ ProgGot
    BY <1>10 DEF ProgTop, ProgWake, ProgGot
  <1>11. CASE TmtRegister
    BY <1>11 DEF TmtRegister
  <1>12. CASE TmtTotal
    BY <1>12 DEF TmtTotal
  <1>13. CASE TmtRunExit
    BY <1>13 DEF TmtRunExit
  <1>14. CASE TmtRunEnds
    BY <1>14 DEF TmtRunEnds
  <1>15. CASE TmtWait
    BY <1>15 DEF TmtWait
  <1>16. CASE TmtUnregister
    BY <1>16 DEF TmtUnregister
  <1>17. CASE TmtRunMethod
    <2>1. tmt = "run" /\ UNCHANGED <<tmt, cleanupDone, tracker, totalSet>>
      BY <1>17 DEF TmtRunMethod
    <2>2. ~cleanupDone
      BY <2>1
    <2>3. \A e \in subscribed' : ClearedFrom(e, 1)
      <3>1. \A e \in Methods[at].events : Methods[at].kind = "subscribe" => ClearedFrom(e, 1)
        BY <1>17, MethodEffects, CleanupAssumption DEF ClearedFrom
      <3>2. \A e \in subscribed : ClearedFrom(e, 1)
        BY <2>1
      <3> QED
        BY <1>17, <3>1, <3>2, MethodEffects
    <2> QED
      BY <2>1, <2>2, <2>3
  <1>18. ASSUME NEW here \in {"cleanup1", "cleanup2"}, NEW next \in {"wait", "unregister"},
             Cleanup(here, next)
      PROVE  SubscriptionInv'
    <2>1. tmt = here /\ UNCHANGED <<tracker, totalSet>>
      BY <1>18 DEF Cleanup
    <2>2. tracker /\ totalSet /\ \A e \in subscribed : ClearedFrom(e, at)
      BY <2>1
    <2>3. CASE cleanupDone \/ at > Len(Methods)
      <3>1. subscribed' = subscribed /\ tmt' = next
        BY <1>18, <2>2, <2>3, CleanupEffects
      <3>2. subscribed = {}
        BY <2>2, <2>3, MethodsFacts DEF ClearedFrom, DataType
      <3> QED
        BY <2>1, <2>2, <3>1, <3>2
    <2>4. CASE ~(cleanupDone \/ at > Len(Methods))
      <3>1. /\ at \in 1..Len(Methods) /\ at' = at + 1
            /\ tmt' = tmt /\ cleanupDone' = cleanupDone
            /\ subscribed' \subseteq subscribed
            /\ Methods[at].kind = "unsubscribeAll" => subscribed' = subscribed \ Methods[at].events
        BY <1>18, <2>2, <2>4, CleanupEffects
      <3>2. ASSUME NEW e \in subscribed' PROVE ClearedFrom(e, at + 1)
        <4>1. PICK j \in at..Len(Methods) :
                Methods[j].kind = "unsubscribeAll" /\ e \in Methods[j].events
          BY <2>2, <3>1 DEF ClearedFrom
        <4>2. j # at
          BY <3>1, <4>1
        <4> QED
          BY <3>1, <4>1, <4>2, MethodsFacts DEF ClearedFrom
      <3> QED
        BY <2>1, <2>2, <3>1, <3>2
    <2> QED
      BY <2>3, <2>4
  <1>19. CASE UNCHANGED vars
    BY <1>19 DEF vars
  <1> QED
    BY <1>1, <1>2, <1>3, <1>4, <1>5, <1>6, <1>7, <1>8, <1>9, <1>10, <1>11, <1>12, <1>13,
       <1>14, <1>15, <1>16, <1>17, <1>18, <1>19 DEF Next, Main, Prog, Tmt, TmtCleanup,
       TmtPC

\* What was announced last comes through the queue to main.
LEMMA NextQueue ==
  ASSUME DataType, StartInv, QueueInv, [Next]_vars
  PROVE  QueueInv'
  <1> USE DEF DataType
  <1>1. ASSUME NEW m \in Changes, LifecycleChange(m) PROVE QueueInv'
    <2> DEFINE s == getAppStateFromLifeCycleEvent(m)
    <2>1. /\ mpc # "done" /\ mpc' = mpc /\ platform' = m[2] /\ announced' = s
          /\ UNCHANGED <<handling, listening, glPhase>>
      BY <1>1 DEF LifecycleChange, mainVars, conn, glVars
    <2>2. s # UNKNOWN_STATE => s[2] = platform'
      BY <2>1 DEF getAppStateFromLifeCycleEvent
    <2>3. CASE ~listening
      <3>1. /\ queue' = queue /\ mpc \in StartPC /\ queue = <<>> /\ handling = UNKNOWN_STATE
            /\ glPhase = "null"
        BY <1>1, <2>1, <2>3 DEF LifecycleChange, QueueInv, StartInv
      <3> QED
        BY <2>1, <2>2, <2>3, <3>1 DEF QueueInv
    <2>4. CASE listening
      <3>1. queue' = Append(queue, s) /\ s \in AppState
        BY <1>1, <2>4, DerivedType DEF LifecycleChange
      <3>2. queue' # <<>> /\ queue'[Len(queue')] = s
        BY <3>1
      <3> QED
        BY <2>1, <2>2, <2>4, <3>2 DEF QueueInv
    <2> QED
      BY <2>3, <2>4
  <1>2. CASE PopState
    <2>1. /\ UNCHANGED <<platform, announced, listening, glPhase>>
          /\ mpc = "loop"
      BY <1>2 DEF PopState, others, conn, glVars
    <2>2. listening
      BY <2>1 DEF QueueInv, StartPC
    <2>3. CASE queue = <<>>
      BY <1>2, <2>1, <2>2, <2>3 DEF PopState, QueueInv
    <2>4. CASE queue # <<>>
      <3>1. handling' = queue[1] /\ queue' = Tail(queue)
        BY <1>2, <2>4 DEF PopState
      <3>2. /\ Len(queue) \in Nat \ {0} /\ Len(queue') = Len(queue) - 1
            /\ \A k \in 1..Len(queue') : queue'[k] = queue[k + 1]
        BY <2>4, <3>1
      <3>3. queue' # <<>> => queue'[Len(queue')] = queue[Len(queue)]
        BY <3>1, <3>2
      <3>4. ASSUME queue' = <<>> PROVE handling' = queue[Len(queue)]
        <4>1. Len(queue) = 1
          BY <3>2, <3>4
        <4> QED
          BY <3>1, <4>1
      <3> QED
        BY <2>1, <2>2, <2>4, <3>3, <3>4 DEF QueueInv
    <2> QED
      BY <2>3, <2>4
  <1>3. CASE \/ ConnectionChanged \/ ModuleEvent \/ GlExitKey \/ GlRunReturns \/ Prog \/ Tmt
             \/ UNCHANGED vars
    <2>1. /\ UNCHANGED <<queue, platform, announced, handling, listening, mpc>>
          /\ glPhase' # "null" => glPhase # "null"
      BY <1>3
      DEF ConnectionChanged, ModuleEvent, GlExitKey, GlRunReturns, GL!Exit, Prog, ProgTop, ProgWake,
          ProgGot, Tmt, TmtRegister, TmtTotal, TmtRunExit, TmtRunMethod, TmtRunEnds, TmtCleanup,
          Cleanup, TmtWait, TmtUnregister, vars, conn, lifecycle, mainVars, glVars, progOthers,
          tmtOthers
    <2> QED
      BY <2>1 DEF QueueInv
  <1>4. CASE Connect \/ AwaitConnection \/ CheckFont \/ Subscribe \/ Return
    <2>1. /\ UNCHANGED <<queue, platform, announced, handling, glPhase>>
          /\ listening' \/ mpc' \in StartPC \cup {"done"}
      BY <1>4
      DEF Connect, AwaitConnection, CheckFont, Subscribe, Return, Starting, GiveUp, conn,
          lifecycle, glVars, StartPC
    <2> QED
      BY <2>1 DEF QueueInv
  <1>5. CASE HandleInitGl
    <2>1. /\ UNCHANGED <<queue, platform, announced, handling, listening>>
          /\ mpc \notin StartPC \cup {"done"} /\ handling = INITIALIZING_TO_PAUSED
      BY <1>5 DEF HandleInitGl, conn, lifecycle, others, StartPC
    <2>2. handling # UNKNOWN_STATE
      BY <2>1, StatePairs
    <2> QED
      BY <2>1, <2>2 DEF QueueInv
  <1>6. CASE \/ HandleStartGl \/ HandleActive \/ HandlePaused \/ HandleStop
             \/ HandleOther \/ wake_for_shutdown \/ StopClose \/ StopJoin \/ StopDeinit
             \/ CheckExitKey \/ LoopEnds \/ JoinThreads
    <2>1. /\ UNCHANGED <<queue, platform, announced, handling, listening>>
          /\ mpc \notin StartPC \cup {"done"}
          /\ glPhase' # "null" => glPhase # "null"
      BY <1>6
      DEF HandleStartGl, HandleActive, HandlePaused, HandleStop, HandleOther,
          wake_for_shutdown, StopClose, StopJoin, StopDeinit, CheckExitKey, LoopEnds,
          JoinThreads, GL!Start, GL!Request, GL!Free, conn, lifecycle, glVars, others, StartPC
    <2> QED
      BY <2>1 DEF QueueInv
  <1> QED
    BY <1>1, <1>2, <1>3, <1>4, <1>5, <1>6 DEF Next, Main

\* Without a skip the queue stays a chain from the state last handled to the
\* platform's.
LEMMA NextChain ==
  ASSUME DataType, StartInv, QueueInv, ChainInv, [Next]_vars
  PROVE  ChainInv'
  <1> USE DEF DataType
  <1>1. ASSUME NEW m \in Changes, LifecycleChange(m), ~skipped' PROVE ChainInv'
    <2> DEFINE s == getAppStateFromLifeCycleEvent(m)
    <2>1. /\ mpc # "done" /\ mpc' = mpc /\ platform' = m[2] /\ announced' = s
          /\ platform # "TERMINATING" /\ ~skipped /\ Follows(m)
          /\ UNCHANGED <<handling, listening>>
      BY <1>1 DEF LifecycleChange, mainVars, conn
    <2>2. CASE ~listening
      <3>1. queue' = queue /\ mpc \in StartPC /\ queue = <<>> /\ handling = UNKNOWN_STATE
        BY <1>1, <2>1, <2>2 DEF LifecycleChange, QueueInv, StartInv
      <3> QED
        BY <2>1, <3>1 DEF ChainInv
    <2>3. CASE listening
      <3>1. queue' = Append(queue, s) /\ s \in AppState
        BY <1>1, <2>3, DerivedType DEF LifecycleChange
      <3>2. /\ Len(queue') = Len(queue) + 1 /\ queue'[Len(queue')] = s
            /\ \A k \in 1..Len(queue) : queue'[k] = queue[k]
        BY <3>1
      <3>3. s = UNKNOWN_STATE => m \notin Mapped /\ platform' = "TERMINATING"
        BY <2>1, StatePairs DEF getAppStateFromLifeCycleEvent, Follows
      <3>4. ASSUME announced # UNKNOWN_STATE PROVE Links(announced, s)
        <4>1. announced \in Mapped /\ announced[2] = platform
          BY <3>4 DEF QueueInv, AppState
        <4>2. CASE m \in Mapped
          BY <2>1, <3>4, <4>1, <4>2, StatePairs
          DEF Links, getAppStateFromLifeCycleEvent, Follows
        <4>3. CASE m \notin Mapped
          <5>1. m[1] = platform /\ m[2] = "TERMINATING"
            BY <2>1, <4>1, <4>3 DEF Follows
          <5>2. m[1] \in {"INITIALIZING", "HIBERNATED"}
            BY <4>3, <5>1, StatePairs DEF Mapped, LifecycleState
          <5> QED
            BY <3>4, <4>1, <4>3, <5>1, <5>2 DEF Links, getAppStateFromLifeCycleEvent
        <4> QED
          BY <4>2, <4>3
      <3>5. CASE queue = <<>>
        <4>1. Len(queue') = 1 /\ queue'[1] = s
          BY <3>2, <3>5
        <4>2. handling # UNKNOWN_STATE => Links(handling, s)
          BY <3>4, <3>5 DEF QueueInv
        <4> QED
          BY <2>1, <3>3, <4>1, <4>2 DEF ChainInv
      <3>6. CASE queue # <<>>
        <4>1. Len(queue) \in Nat \ {0}
          BY <3>6
        <4>2. Links(queue[Len(queue)], s)
          BY <2>1, <3>4, <3>6 DEF QueueInv, ChainInv
        <4>3. \A k \in 1..Len(queue') - 1 : Links(queue'[k], queue'[k + 1])
          BY <2>1, <3>2, <4>1, <4>2 DEF ChainInv
        <4>4. queue'[1] = queue[1]
          BY <3>2, <4>1
        <4> QED
          BY <2>1, <3>3, <3>6, <4>3, <4>4 DEF ChainInv
      <3> QED
        BY <3>5, <3>6
    <2> QED
      BY <2>2, <2>3
  <1>2. CASE PopState
    <2>1. UNCHANGED <<platform, announced, skipped>>
      BY <1>2 DEF PopState
    <2>2. CASE queue = <<>>
      BY <1>2, <2>1, <2>2 DEF PopState, ChainInv
    <2>3. CASE queue # <<>>
      <3>1. handling' = queue[1] /\ queue' = Tail(queue)
        BY <1>2, <2>3 DEF PopState
      <3>2. /\ Len(queue) \in Nat \ {0} /\ Len(queue') = Len(queue) - 1
            /\ \A k \in 1..Len(queue') : queue'[k] = queue[k + 1]
        BY <2>3, <3>1
      <3>3. ~skipped => \A k \in 1..Len(queue') - 1 : Links(queue'[k], queue'[k + 1])
        BY <3>2 DEF ChainInv
      <3>4. ~skipped /\ queue' # <<>> => Links(handling', queue'[1])
        BY <3>1, <3>2 DEF ChainInv
      <3> QED
        BY <2>1, <2>3, <3>3, <3>4 DEF ChainInv
    <2> QED
      BY <2>2, <2>3
  <1>3. CASE UNCHANGED <<queue, platform, announced, skipped, handling>>
    BY <1>3 DEF ChainInv
  <1>4. CASE ~PopState /\ \A m \in Changes : ~LifecycleChange(m)
    <2>1. UNCHANGED <<queue, platform, announced, skipped, handling>>
      BY <1>4
      DEF Next, Main, Prog, Tmt, ConnectionChanged, ModuleEvent, GlExitKey, GlRunReturns,
          Connect, AwaitConnection, CheckFont, Subscribe, Starting, GiveUp, HandleInitGl,
          HandleStartGl, HandleActive, HandlePaused, HandleStop, HandleOther, wake_for_shutdown,
          StopClose, StopJoin, StopDeinit, CheckExitKey, LoopEnds, JoinThreads, Return,
          ProgTop, ProgWake, ProgGot, TmtRegister, TmtTotal, TmtRunExit, TmtRunMethod, TmtRunEnds,
          TmtCleanup, Cleanup, TmtWait, TmtUnregister, vars, lifecycle, mainVars, progOthers,
          tmtOthers
    <2> QED
      BY <1>3, <2>1
  <1> QED
    BY <1>1, <1>2, <1>4 DEF ChainInv

\* After a state is handled the window was asked for its mode, or is gone.
LEMMA NextWindow ==
  ASSUME DataType, ControlType, StartInv, ExitInv, WindowInv, [Next]_vars
  PROVE  WindowInv'
  <1> USE DEF WindowInv, conn, lifecycle, mainVars, glVars, pcVars,
           tmtVars, others, progOthers, tmtOthers
  <1>1. ASSUME NEW m \in Changes, LifecycleChange(m) PROVE WindowInv'
    BY <1>1 DEF LifecycleChange
  <1>2. CASE ConnectionChanged \/ ModuleEvent \/ GlExitKey \/ Prog \/ UNCHANGED vars
    BY <1>2 DEF ConnectionChanged, ModuleEvent, GlExitKey, Prog, ProgTop, ProgWake, ProgGot, vars
  <1>3. CASE GlRunReturns
    BY <1>3 DEF GlRunReturns, GL!Exit
  <1>4. CASE Tmt
    BY <1>4 DEF Tmt, TmtRegister, TmtTotal, TmtRunExit, TmtRunMethod, TmtRunEnds, TmtCleanup,
                Cleanup, TmtWait, TmtUnregister
  <1>5. CASE Connect \/ AwaitConnection \/ CheckFont \/ Subscribe
    BY <1>5 DEF Connect, AwaitConnection, CheckFont, Subscribe, Starting, GiveUp, StartInv, StartPC
  <1>6. CASE PopState
    <2>1. /\ currentAppState = handling /\ UNCHANGED <<currentAppState, glPhase, glMode, stopFor>>
          /\ mpc = "loop"
      BY <1>6 DEF PopState
    <2>2. CASE queue = <<>>
      BY <1>6, <2>1, <2>2 DEF PopState
    <2>3. CASE queue # <<>>
      <3>1. /\ handling' = queue[1]
            /\ mpc' = IF queue[1] = currentAppState THEN "key" ELSE "handle"
        BY <1>6, <2>3 DEF PopState, DataType
      <3> QED
        BY <2>1, <3>1
    <2> QED
      BY <2>2, <2>3
  <1>7. CASE HandleInitGl
    BY <1>7 DEF HandleInitGl
  <1>8. CASE HandleStartGl
    BY <1>8 DEF HandleStartGl, INITIALIZING_TO_PAUSED, PAUSED_TO_ACTIVE, ACTIVE_TO_PAUSED,
                ToBackground, ToTerminating
  <1>9. CASE HandleActive
    BY <1>9 DEF HandleActive, GL!Request, PAUSED_TO_ACTIVE, ACTIVE_TO_PAUSED, ToBackground,
                ToTerminating
  <1>10. CASE HandlePaused
    BY <1>10 DEF HandlePaused, GL!Request, PAUSED_TO_ACTIVE, ACTIVE_TO_PAUSED, ToBackground,
                 ToTerminating
  <1>11. CASE HandleStop
    BY <1>11 DEF HandleStop
  <1>12. CASE HandleOther
    BY <1>12 DEF HandleOther
  <1>13. CASE wake_for_shutdown \/ StopClose \/ StopJoin
    BY <1>13 DEF wake_for_shutdown, StopClose, StopJoin, GL!Request
  <1>14. CASE StopDeinit
    BY <1>14 DEF StopDeinit, GL!Free, ControlType
  <1>15. CASE CheckExitKey \/ LoopEnds
    BY <1>15 DEF CheckExitKey, LoopEnds
  <1>16. CASE JoinThreads \/ Return
    BY <1>16 DEF JoinThreads, Return
  <1> QED
    BY <1>1, <1>2, <1>3, <1>4, <1>5, <1>6, <1>7, <1>8, <1>9, <1>10, <1>11, <1>12, <1>13, <1>14,
       <1>15, <1>16 DEF Next, Main

\* Without a skip a state is handled for a window only if it goes on from the one
\* before, and after it the window has its mode or is gone.
LEMMA NextMode ==
  ASSUME DataType, StartInv, ChainInv, WindowInv, ModeInv, [Next]_vars
  PROVE  ModeInv'
  <1> USE DEF ModeInv, WindowMode, conn, lifecycle, mainVars, glVars, pcVars,
           tmtVars, others, progOthers, tmtOthers
  <1>1. ASSUME NEW m \in Changes, LifecycleChange(m) PROVE ModeInv'
    BY <1>1 DEF LifecycleChange
  <1>2. CASE ConnectionChanged \/ ModuleEvent \/ GlExitKey \/ Prog \/ UNCHANGED vars
    BY <1>2 DEF ConnectionChanged, ModuleEvent, GlExitKey, Prog, ProgTop, ProgWake, ProgGot, vars
  <1>3. CASE GlRunReturns
    BY <1>3 DEF GlRunReturns, GL!Exit
  <1>4. CASE Tmt
    BY <1>4 DEF Tmt, TmtRegister, TmtTotal, TmtRunExit, TmtRunMethod, TmtRunEnds, TmtCleanup,
                Cleanup, TmtWait, TmtUnregister
  <1>5. CASE Connect \/ AwaitConnection \/ CheckFont \/ Subscribe
    BY <1>5 DEF Connect, AwaitConnection, CheckFont, Subscribe, Starting, GiveUp, StartInv, StartPC
  <1>6. CASE PopState
    <2>1. /\ currentAppState = handling /\ UNCHANGED <<skipped, glPhase, glMode>>
          /\ mpc = "loop"
      BY <1>6 DEF PopState, WindowInv
    <2>2. CASE queue = <<>>
      BY <1>6, <2>1, <2>2 DEF PopState
    <2>3. CASE queue # <<>>
      <3>1. /\ handling' = queue[1] /\ queue[1] \in AppState
            /\ mpc' = IF queue[1] = currentAppState THEN "key" ELSE "handle"
        BY <1>6, <2>3 DEF PopState, DataType
      <3>2. CASE queue[1] = handling
        BY <2>1, <3>1, <3>2
      <3>3. CASE queue[1] # handling
        <4>1. ASSUME ~skipped, glPhase # "null"
              PROVE  queue[1] \in Mapped /\ queue[1][1] \in {"PAUSED", "ACTIVE"}
          <5>1. handling \in {INITIALIZING_TO_PAUSED, PAUSED_TO_ACTIVE, ACTIVE_TO_PAUSED}
            BY <2>1, <4>1
          <5>2. handling[2] \in {"PAUSED", "ACTIVE"} /\ Links(handling, queue[1])
            BY <2>3, <4>1, <5>1, StatePairs
            DEF ChainInv, INITIALIZING_TO_PAUSED, PAUSED_TO_ACTIVE, ACTIVE_TO_PAUSED
          <5> QED
            BY <3>1, <3>3, <5>2 DEF Links, AppState
        <4> QED
          BY <2>1, <3>1, <3>3, <4>1
      <3> QED
        BY <3>2, <3>3
    <2> QED
      BY <2>2, <2>3
  <1>7. CASE HandleInitGl
    BY <1>7 DEF HandleInitGl, GL!Create, INITIALIZING_TO_PAUSED
  <1>8. CASE HandleStartGl
    BY <1>8 DEF HandleStartGl, GL!Start, WindowInv, INITIALIZING_TO_PAUSED, PAUSED_TO_ACTIVE,
              ACTIVE_TO_PAUSED
  <1>9. CASE HandleActive
    BY <1>9 DEF HandleActive, GL!Request, INITIALIZING_TO_PAUSED, PAUSED_TO_ACTIVE,
              ACTIVE_TO_PAUSED
  <1>10. CASE HandlePaused
    BY <1>10 DEF HandlePaused, GL!Request, INITIALIZING_TO_PAUSED, PAUSED_TO_ACTIVE,
               ACTIVE_TO_PAUSED
  <1>11. CASE HandleStop
    BY <1>11 DEF HandleStop
  <1>12. CASE HandleOther
    <2>1. ~skipped => glPhase = "null"
      <3>1. SUFFICES ASSUME ~skipped, glPhase # "null" PROVE FALSE
        OBVIOUS
      <3>2. handling \in Mapped /\ handling[1] \in {"PAUSED", "ACTIVE"}
        BY <1>12, <3>1 DEF HandleOther
      <3>3. handling \in {PAUSED_TO_ACTIVE, ACTIVE_TO_PAUSED} \cup ToBackground \cup ToTerminating
        BY <3>2 DEF Mapped, PAUSED_TO_ACTIVE, ACTIVE_TO_PAUSED, ToBackground, ToTerminating
      <3> QED
        BY <1>12, <3>3 DEF HandleOther
    <2> QED
      BY <1>12, <2>1 DEF HandleOther
  <1>13. CASE wake_for_shutdown \/ StopClose \/ StopJoin
    BY <1>13 DEF wake_for_shutdown, StopClose, StopJoin
  <1>14. CASE StopDeinit
    BY <1>14 DEF StopDeinit, GL!Free
  <1>15. CASE CheckExitKey \/ LoopEnds
    BY <1>15 DEF CheckExitKey, LoopEnds
  <1>16. CASE JoinThreads \/ Return
    BY <1>16 DEF JoinThreads, Return
  <1> QED
    BY <1>1, <1>2, <1>3, <1>4, <1>5, <1>6, <1>7, <1>8, <1>9, <1>10, <1>11, <1>12, <1>13, <1>14,
       <1>15, <1>16 DEF Next, Main

\* Main comes to a request with a window that is not closing, and from close to the
\* free with one that is.
LEMMA NextRequest ==
  ASSUME StartInv, ExitInv, RequestInv, [Next]_vars
  PROVE  RequestInv'
  <1> USE DEF RequestInv, conn, lifecycle, mainVars, glVars, pcVars, tmtVars,
           others, progOthers, tmtOthers
  <1>1. ASSUME NEW m \in Changes, LifecycleChange(m) PROVE RequestInv'
    BY <1>1 DEF LifecycleChange
  <1>2. CASE ConnectionChanged \/ ModuleEvent \/ GlExitKey \/ Prog \/ UNCHANGED vars
    BY <1>2 DEF ConnectionChanged, ModuleEvent, GlExitKey, Prog, ProgTop, ProgWake, ProgGot, vars
  <1>3. CASE GlRunReturns
    BY <1>3 DEF GlRunReturns, GL!Exit
  <1>4. CASE Tmt
    BY <1>4 DEF Tmt, TmtRegister, TmtTotal, TmtRunExit, TmtRunMethod, TmtRunEnds, TmtCleanup,
                Cleanup, TmtWait, TmtUnregister
  <1>5. CASE Connect \/ AwaitConnection \/ CheckFont \/ Subscribe
    BY <1>5 DEF Connect, AwaitConnection, CheckFont, Subscribe, Starting, GiveUp, StartInv, StartPC
  <1>6. CASE PopState \/ CheckExitKey
    BY <1>6 DEF PopState, CheckExitKey
  <1>7. CASE HandleInitGl
    BY <1>7 DEF HandleInitGl, GL!Create
  <1>8. CASE HandleStartGl
    BY <1>8 DEF HandleStartGl, GL!Start
  <1>9. CASE HandleActive \/ HandlePaused
    BY <1>9 DEF HandleActive, HandlePaused, GL!Request
  <1>10. CASE HandleStop \/ HandleOther \/ wake_for_shutdown
    BY <1>10 DEF HandleStop, HandleOther, wake_for_shutdown
  <1>11. CASE StopClose
    BY <1>11 DEF StopClose, GL!Request
  <1>12. CASE StopJoin
    BY <1>12 DEF StopJoin
  <1>13. CASE StopDeinit
    BY <1>13 DEF StopDeinit, GL!Free
  <1>14. CASE LoopEnds \/ JoinThreads \/ Return
    BY <1>14 DEF LoopEnds, JoinThreads, Return
  <1> QED
    BY <1>1, <1>2, <1>3, <1>4, <1>5, <1>6, <1>7, <1>8, <1>9, <1>10, <1>11, <1>12, <1>13, <1>14
       DEF Next, Main

\* The parts together are inductive.
THEOREM Invariant == Spec => []IInv
  <1>1. ASSUME IInv, [Next]_vars PROVE IInv'
    <2>1. TypeOK'
      BY <1>1, NextSwitch, NextControl, NextData DEF IInv, TypeOK
    <2>2. StartInv' /\ RenderInv' /\ ExitInv'
      BY <1>1, NextStart, NextRender, NextExit DEF IInv
    <2>3. SubscriptionInv' /\ QueueInv' /\ ChainInv'
      BY <1>1, NextSubscription, NextQueue, NextChain DEF IInv, TypeOK
    <2>4. WindowInv' /\ ModeInv' /\ RequestInv'
      BY <1>1, NextWindow, NextMode, NextRequest DEF IInv, TypeOK
    <2> QED
      BY <2>1, <2>2, <2>3, <2>4 DEF IInv
  <1> QED
    BY <1>1, InitInvariant, PTL DEF Spec

\* Every variable keeps its type (main.cpp's and the threads' state).
THEOREM TypeCorrect == Spec => []TypeOK
  <1>1. IInv => TypeOK
    BY DEF IInv
  <1> QED
    BY <1>1, Invariant, PTL

\* No std::thread is assigned over a joinable one, and run() is never left without
\* its GlApp (ensureGlRunThreadStarted, stopGlApp).
THEOREM ThreadOwned == Spec => []RenderThreadOwned
  <1>1. IInv => RenderThreadOwned
    BY DEF IInv, RenderInv
  <1> QED
    BY <1>1, Invariant, PTL

\* When main returns its threads are gone, by whichever way it came there (the
\* early returns, the shutdown phase).
THEOREM MainReturnsAlone == Spec => []ExitQuiesces
  <1>1. IInv => ExitQuiesces
    BY DEF IInv, ExitQuiesces, ExitInv, RenderInv, EndPC
  <1> QED
    BY <1>1, Invariant, PTL

\* A callback of a test module always finds the module and its tracker
\* (runAutoMode and its deferred cleanup).
THEOREM CallbacksHaveTracker == Spec => []CallbackHasTracker
  <1>1. IInv => CallbackHasTracker
    BY DEF IInv, CallbackHasTracker, SubscriptionInv, TypeOK, ControlType, TmtPC
  <1> QED
    BY <1>1, Invariant, PTL

\* Whatever changes the platform announces, the mode requested of a running window is
\* that of the last one; while it skips no state, Active is requested exactly when the
\* app is ACTIVE (the lifecycle callback, the queue and the handlers).
THEOREM RequestIsPlatforms == Spec => []RequestFollowsPlatform
  <1>1. IInv => RequestFollowsPlatform
    <2> SUFFICES ASSUME IInv, queue = <<>>, mpc = "loop", glPhase = "running"
                 PROVE  /\ announced = PAUSED_TO_ACTIVE => glMode = "Active"
                        /\ announced = ACTIVE_TO_PAUSED => glMode = "Paused"
                        /\ announced \notin ToBackground \cup ToTerminating
                        /\ ~skipped => (platform = "ACTIVE" <=> glMode = "Active")
      BY DEF RequestFollowsPlatform
    <2>1. handling = announced
      BY DEF IInv, QueueInv
    <2>2. /\ announced = PAUSED_TO_ACTIVE => glMode = "Active"
          /\ announced = ACTIVE_TO_PAUSED => glMode = "Paused"
          /\ announced \notin ToBackground \cup ToTerminating
      BY <2>1 DEF IInv, WindowInv
    <2>3. ASSUME ~skipped PROVE platform = "ACTIVE" <=> glMode = "Active"
      <3>1. /\ handling \in {INITIALIZING_TO_PAUSED, PAUSED_TO_ACTIVE, ACTIVE_TO_PAUSED}
            /\ glMode = WindowMode(handling)
        BY <2>3 DEF IInv, ModeInv
      <3>2. handling[2] = platform
        BY <2>1, <3>1, StatePairs DEF IInv, QueueInv
      <3> QED
        BY <3>1, <3>2
        DEF WindowMode, INITIALIZING_TO_PAUSED, PAUSED_TO_ACTIVE, ACTIVE_TO_PAUSED
    <2> QED
      BY <2>2, <2>3
  <1> QED
    BY <1>1, Invariant, PTL

\* Every step of main and its threads is a step of GlContract or leaves the window
\* alone.
LEMMA ContractStep == IInv /\ [Next]_vars => [GL!Next]_GL!vars
  <1> SUFFICES ASSUME IInv, [Next]_vars PROVE [GL!Next]_GL!vars
    OBVIOUS
  <1> USE DEF GL!vars
  <1>1. CASE UNCHANGED <<glMode, glPhase>>
    BY <1>1
  <1>2. CASE GlRunReturns
    BY <1>2 DEF GlRunReturns, GL!Next
  <1>3. CASE HandleInitGl
    BY <1>3 DEF HandleInitGl, GL!Next
  <1>4. CASE HandleStartGl
    BY <1>4 DEF HandleStartGl, glVars, GL!Next
  <1>5. CASE HandleActive \/ HandlePaused \/ StopClose
    <2>1. \/ UNCHANGED <<glMode, glPhase>>
          \/ glMode # "Closing" /\ \E m \in {"Active", "Paused", "Closing"} : GL!Request(m)
      BY <1>5 DEF HandleActive, HandlePaused, StopClose, IInv, RequestInv, GL!Request
    <2> QED
      BY <2>1 DEF GL!Next, GL!Modes
  <1>6. CASE StopDeinit
    BY <1>6 DEF StopDeinit, GL!Next
  <1>7. CASE /\ ~GlRunReturns /\ ~HandleInitGl /\ ~HandleStartGl /\ ~HandleActive
             /\ ~HandlePaused /\ ~StopClose /\ ~StopDeinit
    <2>1. UNCHANGED <<glMode, glPhase>>
      BY <1>7
      DEF Next, Main, Prog, Tmt, LifecycleChange, ConnectionChanged, ModuleEvent, GlExitKey,
          Connect, AwaitConnection, CheckFont, Subscribe, Starting, GiveUp, PopState, HandleStop,
          HandleOther, wake_for_shutdown, StopJoin, CheckExitKey, LoopEnds, JoinThreads, Return,
          ProgTop, ProgWake, ProgGot, TmtRegister, TmtTotal, TmtRunExit, TmtRunMethod, TmtRunEnds,
          TmtCleanup, Cleanup, TmtWait, TmtUnregister, vars, glVars, progOthers, tmtOthers
    <2> QED
      BY <2>1
  <1> QED
    BY <1>2, <1>3, <1>4, <1>5, <1>6, <1>7

\* main and its threads use the GlApp as its contract allows (the handlers and
\* stopGlApp): no request after close, one start, and the free after run().
THEOREM ContractHonoured == Spec => HonoursContract
  <1>1. Init => GL!Init
    BY DEF Init
  <1> QED
    BY <1>1, ContractStep, Invariant, PTL DEF Spec, HonoursContract, GL!Safety

\* What main finds where it calls the window: it starts the run thread of one just
\* created, frees one that is closed and not running, asks nothing of one closing.
GuardsHold ==
  /\ mpc = "started" /\ ~glRunThreadStarted => glPhase = "ready"
  /\ mpc = "deinit" /\ glPhase # "null" =>
       glMode = "Closing" /\ glPhase \in {"ready", "exited"}
  /\ mpc \in {"handle", "close"} /\ glPhase # "null" => glMode # "Closing"

\* No guard of GlContract holds main back where the code has none
\* (ensureGlRunThreadStarted, stopGlApp, the handlers): the model loses no behaviour
\* by using the window through the actions of its contract.
THEOREM ContractNeverBlocks == Spec => []GuardsHold
  <1>1. IInv => GuardsHold
    BY DEF IInv, GuardsHold, TypeOK, ControlType, GL!TypeOK, GL!Phases, RenderInv,
           RenderThreadOwned, RequestInv
  <1> QED
    BY <1>1, Invariant, PTL
=============================================================================
