---------------------------- MODULE GlSetupProof ----------------------------
(***************************************************************************)
(* Proofs about GlSetup.  The inductive invariant says what is held at     *)
(* each stage, who has the context, that the xkb pointer and the live      *)
(* objects go together, what is known of the surface ids, and that a       *)
(* resource still held has its parents (in the spelled-out form Parents).  *)
(***************************************************************************)
EXTENDS GlSetup, TLAPS

\* The stages init and run pass once the named step has succeeded.
AfterBoot    == {"atlas", "serving"}
AfterDetach  == {"handshake", "claim", "boot_frame"} \cup AfterBoot
AfterShell   == {"detach"} \cup AfterDetach
AfterSurface == {"shell"} \cup AfterShell
AfterWindow  == {"egl_surface"} \cup AfterSurface
AfterWl      == {"surface_wait", "egl_window"} \cup AfterWindow
AfterContext == {"surface"} \cup AfterWl
AfterEgl     == {"egl_context"} \cup AfterContext
AfterGlobals == {"egl_display"} \cup AfterEgl
AfterConnect == {"xkb", "fds", "registry", "globals"} \cup AfterGlobals
BeforeXkb    == {"init", "connect", "xkb"}

HeldByStage ==
    /\ stage \in AfterConnect => "display" \in held
    /\ stage \in AfterGlobals => {"compositor", "simple_shell_ptr"} \subseteq held
    /\ stage \in AfterEgl => "egl_display" \in held
    /\ stage \in AfterContext => "egl_context" \in held
    /\ stage \in AfterWl => "surface" \in held
    /\ stage \in AfterWindow => "egl_window" \in held
    /\ stage \in AfterSurface => "egl_surface" \in held
    /\ stage \in AfterShell => {"program_id", "main_quad_vao_id"} \subseteq held
    /\ stage = "serving" /\ textReady =>
          {"gpu_glyph_atlas", "text_program_id", "text_vbo_id", "text_vao_id"} \subseteq held
    /\ textReady => stage \in {"serving", "returned", "deinit", "delete_gl", "release", "gone"}
    /\ stage = "delete_gl" => "egl_context" \in held

CurrentByStage ==
    /\ stage \in {"handshake", "claim"} => current = "none"
    /\ stage \in {"shell", "detach", "delete_gl"} => current = "main"
    /\ stage \in {"boot_frame"} \cup AfterBoot => current = "render"

Parents ==
    /\ held \cap {"registry", "compositor", "simple_shell_ptr", "seat", "keyboard",
                  "surface", "egl_display"} # {} => "display" \in held
    /\ held \cap {"egl_context", "egl_surface"} # {} => "egl_display" \in held
    /\ "egl_surface" \in held => "egl_window" \in held
    /\ "egl_window" \in held => "surface" \in held
    /\ held \cap GlObjects # {} => "egl_context" \in held

XkbInv ==
    /\ XkbPaired
    /\ stage \in BeforeXkb => keymap = NoKeymap

SeatInv ==
    /\ "seat" \in held => seats > 0
    /\ "seat" \notin held => seats = 0 \/ seats < MaxSeats

ShellInv ==
    /\ surfaceId = OurId <=> "surface_id" \in told
    /\ createdId = OurId => "surface_created" \in told
    /\ OnlyCreated => (overtaken <=> createdId # OurId)
    /\ overtaken => "surface_created" \in told
    /\ ConfiguredByOurs /\ ConfiguredInEitherOrder

GoneInv == stage = "gone" => held = {}

IInv == /\ TypeOK /\ HeldByStage /\ CurrentByStage /\ Parents /\ XkbInv
        /\ SeatInv /\ ShellInv /\ GoneInv

-----------------------------------------------------------------------------
\* Parents says of each pair of Outlives what ParentsOutlive says.
LEMMA ParentsEnough == Parents => ParentsOutlive
  BY DEF Parents, ParentsOutlive, Outlives, GlObjects

\* The pointers deinit looks at, spelled out, and their ranks.
Pointers == {"embedded_font", "egl_surface", "egl_context", "egl_window", "keyboard",
             "xkbKeymap", "xkbContext", "seat", "simple_shell_ptr", "surface",
             "compositor", "registry", "egl_display", "display", "wakeEventFd"}

\* The pointers deinit looks at, spelled out.
LEMMA RankDomain == DOMAIN Rank = Pointers
  BY DEF Rank, Pointers

\* deinit looks at what was made from a resource before the resource.
LEMMA RankOrder ==
    /\ \A c \in {"registry", "compositor", "simple_shell_ptr", "seat", "keyboard",
                 "surface", "egl_display"} : Rank[c] < Rank["display"]
    /\ \A c \in {"egl_context", "egl_surface"} : Rank[c] < Rank["egl_display"]
    /\ Rank["egl_surface"] < Rank["egl_window"]
    /\ Rank["egl_window"] < Rank["surface"]
    /\ \A c \in Pointers : Rank[c] \in Int
  BY DEF Rank, Pointers

\* What AppContext may hold: those pointers and the GL objects.
LEMMA ResourcesAre == Resources = GlObjects \cup Pointers
  BY RankDomain DEF Resources

\* The pair of xkb objects made from a keymap.
LEMMA ObjectsType ==
  \A k \in Keymaps \cup {NamesKeymap, NoKeymap} :
     Objects(k) \subseteq {"keymap", "state"} \X (Keymaps \cup {NamesKeymap})
  BY DEF Objects

\* A fresh AppContext has its types.
LEMMA InitType == Init => TypeOK
  <1> SUFFICES ASSUME Init PROVE TypeOK
    OBVIOUS
  <1>1. seats \in 0 .. MaxSeats
    BY SeatAssumption DEF Init
  <1>2. stage \in Stages /\ announced \subseteq {"compositor", "simple_shell_ptr"}
    BY DEF Init, Stages
  <1> QED
    BY <1>1, <1>2 DEF Init, TypeOK

\* Every action keeps the types.
LEMMA NextType == TypeOK /\ SeatInv /\ [Next]_vars => TypeOK'
  <1> SUFFICES ASSUME TypeOK, SeatInv, [Next]_vars PROVE TypeOK'
    OBVIOUS
  <1> USE DEF TypeOK, seatVars, xkbVars, shellVars, windowVars
  <1>0. Resources = GlObjects \cup Pointers
    BY ResourcesAre
  <1>1. CASE InitStep
    <2>1. ASSUME NEW f \in Stages, NEW r \in Resources, NEW t \in Stages, Acquire(f, r, t)
          PROVE TypeOK'
      <3>1. stage' \in Stages
        BY <2>1 DEF Acquire, Stages
      <3>2. held' \subseteq Resources
        BY <2>1 DEF Acquire
      <3> QED
        BY <2>1, <3>1, <3>2 DEF Acquire
    <2>2. CASE InitXkb
      BY <1>0, <2>2, ObjectsType DEF InitXkb, Stages, Pointers
    <2>3. CASE CreateEglSurface
      BY <1>0, <2>3 DEF CreateEglSurface, Stages, Pointers
    <2>4. CASE InitGlesPipeline
      BY <1>0, <2>4 DEF InitGlesPipeline, Stages, GlObjects
    <2>5. CASE InitEglDisplay
      BY <1>0, <2>1, <2>5 DEF InitEglDisplay, Stages, Pointers
    <2>6. CASE InitCustomFont \/ ConnectDisplay \/ EnsureRunWakeSignal \/ CreateContext
                 \/ CreateSurface \/ CreateEglWindow
      BY <1>0, <2>1, <2>6
         DEF Stages, Pointers, InitCustomFont, ConnectDisplay, EnsureRunWakeSignal, CreateContext,
                        CreateSurface, CreateEglWindow
    <2>7. CASE GetRegistry \/ CheckGlobals \/ SurfaceRoundtrip \/ DetachContext
      BY <1>0, <2>7 DEF Stages, Pointers, GetRegistry, CheckGlobals, SurfaceRoundtrip, DetachContext
    <2> QED
      BY <1>1, <2>2, <2>3, <2>4, <2>5, <2>6, <2>7 DEF InitStep
  <1>2. CASE Listener
    <2>1. CASE GlobalRegistryHandler
      <3>1. {"compositor", "simple_shell_ptr", "seat"} \subseteq Resources
        BY <1>0 DEF Pointers
      <3>2. held' \subseteq Resources
        BY <2>1, <3>1 DEF GlobalRegistryHandler
      <3>3. seats' \in 0 .. MaxSeats
        BY <2>1, SeatAssumption DEF GlobalRegistryHandler
      <3> QED
        BY <2>1, <3>2, <3>3 DEF GlobalRegistryHandler
    <2>2. CASE SeatHandleCapabilities
      BY <1>0, <2>2 DEF SeatHandleCapabilities, Pointers
    <2>3. CASE KeyboardHandleKeymap
      BY <1>0, <2>3, ObjectsType DEF KeyboardHandleKeymap, Pointers
    <2>4. CASE SurfaceIdEvent \/ SurfaceCreatedEvent \/ OtherSurfaceCreated
      BY <2>4 DEF SurfaceIdEvent, SurfaceCreatedEvent, OtherSurfaceCreated, UpdateConfigured,
                  OurId, OtherId
    <2> QED
      BY <1>2, <2>1, <2>2, <2>3, <2>4 DEF Listener
  <1>3. CASE RenderStep
    BY <1>0, <1>3
       DEF RenderStep, RunStep, Stages, GlObjects, HandshakeDone, HandshakeStops, ClaimContext, BootFrame,
                InitGpuFontAtlas, LoopReturns
  <1>4. CASE DeinitStep
    <2>1. CASE JoinRenderThread \/ BindForDeinit \/ DeleteGlObjects \/ DeleteAppContext
      BY <2>1
         DEF Stages, RunStep, JoinRenderThread, BindForDeinit, DeleteGlObjects, DeleteAppContext
    <2>2. ASSUME NEW r \in DOMAIN Rank, Release(r) PROVE TypeOK'
      BY <2>2 DEF Release
    <2>3. CASE ReleaseContext
      BY <2>3 DEF ReleaseContext
    <2>4. CASE ReleaseKeymap
      BY <2>4 DEF ReleaseKeymap
    <2>5. CASE ReleaseSeat
      BY <2>5, SeatAssumption DEF ReleaseSeat, NextToRelease, SeatInv
    <2> QED
      BY <1>4, <2>1, <2>2, <2>3, <2>4, <2>5 DEF DeinitStep
  <1>5. CASE Gone \/ UNCHANGED vars
    BY <1>5 DEF Gone, vars
  <1> QED
    BY <1>1, <1>2, <1>3, <1>4, <1>5 DEF Next

-----------------------------------------------------------------------------
\* A fresh AppContext holds nothing, so nothing can be in the wrong order.
LEMMA InitInvariant == Init => IInv
  <1> SUFFICES ASSUME Init PROVE IInv
    OBVIOUS
  <1>1. TypeOK
    BY InitType
  <1>2. HeldByStage /\ CurrentByStage /\ Parents /\ GoneInv
    BY DEF Init, HeldByStage, CurrentByStage, Parents, GoneInv, AfterConnect, AfterGlobals,
           AfterEgl, AfterContext, AfterWl, AfterWindow, AfterSurface, AfterShell,
           AfterDetach, AfterBoot
  <1>3. XkbInv /\ SeatInv /\ ShellInv
    BY DEF Init, XkbInv, XkbPaired, Objects, SeatInv, ShellInv, OnlyCreated, ConfiguredByOurs,
           ConfiguredInEitherOrder, OurId
  <1> QED
    BY <1>1, <1>2, <1>3 DEF IInv

\* Who has the context.
LEMMA NextCurrent == IInv /\ [Next]_vars => CurrentByStage'
  <1> SUFFICES ASSUME IInv, [Next]_vars PROVE CurrentByStage'
    OBVIOUS
  <1> USE DEF IInv, CurrentByStage, AfterBoot, seatVars, xkbVars, shellVars, windowVars
  <1>1. CASE InitStep
    BY <1>1 DEF InitStep, Acquire, InitCustomFont, ConnectDisplay, InitXkb,
           EnsureRunWakeSignal, GetRegistry, CheckGlobals, InitEglDisplay, CreateContext,
           CreateSurface, SurfaceRoundtrip, CreateEglWindow, CreateEglSurface,
           InitGlesPipeline, DetachContext
  <1>2. CASE Listener
    BY <1>2 DEF Listener, GlobalRegistryHandler, SeatHandleCapabilities,
           KeyboardHandleKeymap, SurfaceIdEvent, SurfaceCreatedEvent, OtherSurfaceCreated
  <1>3. CASE RenderStep
    BY <1>3 DEF RenderStep, RunStep, HandshakeDone, HandshakeStops, ClaimContext, BootFrame,
                InitGpuFontAtlas, LoopReturns
  <1>4. CASE DeinitStep
    BY <1>4 DEF DeinitStep, RunStep, JoinRenderThread, BindForDeinit, DeleteGlObjects,
           DeleteAppContext, NextToRelease, Release, ReleaseContext, ReleaseKeymap, ReleaseSeat
  <1>5. CASE Gone \/ UNCHANGED vars
    BY <1>5 DEF Gone, vars
  <1> QED
    BY <1>1, <1>2, <1>3, <1>4, <1>5 DEF Next

\* What the stages rest on is there.
LEMMA NextHeld == IInv /\ [Next]_vars => HeldByStage'
  <1> SUFFICES ASSUME IInv, [Next]_vars PROVE HeldByStage'
    OBVIOUS
  <1> USE DEF IInv, HeldByStage, seatVars, xkbVars, shellVars, windowVars, AfterConnect,
              AfterGlobals, AfterEgl, AfterContext, AfterWl, AfterWindow, AfterSurface,
              AfterShell, AfterDetach, AfterBoot
  <1>1. CASE InitStep
    <2>1. CASE InitXkb \/ GetRegistry \/ CheckGlobals \/ SurfaceRoundtrip \/ DetachContext
      BY <1>1, <2>1 DEF InitXkb, GetRegistry, CheckGlobals, SurfaceRoundtrip, DetachContext
    <2>2. CASE InitCustomFont \/ ConnectDisplay \/ EnsureRunWakeSignal
      BY <2>2 DEF Acquire, InitCustomFont, ConnectDisplay, EnsureRunWakeSignal
    <2>3. CASE InitEglDisplay \/ CreateContext \/ CreateSurface \/ CreateEglWindow
      BY <2>3 DEF Acquire, InitEglDisplay, CreateContext, CreateSurface, CreateEglWindow
    <2>4. CASE CreateEglSurface \/ InitGlesPipeline
      BY <2>4 DEF CreateEglSurface, InitGlesPipeline
    <2> QED
      BY <1>1, <2>1, <2>2, <2>3, <2>4 DEF InitStep
  <1>2. CASE Listener
    <2>1. stage' = stage /\ held \subseteq held' /\ textReady' = textReady
      BY <1>2 DEF Listener, GlobalRegistryHandler, SeatHandleCapabilities,
           KeyboardHandleKeymap, SurfaceIdEvent, SurfaceCreatedEvent, OtherSurfaceCreated
    <2> QED
      BY <2>1
  <1>3. CASE RenderStep
    BY <1>3 DEF RenderStep, RunStep, HandshakeDone, HandshakeStops, ClaimContext, BootFrame,
                InitGpuFontAtlas, LoopReturns
  <1>4. CASE DeinitStep
    <2>1. CASE JoinRenderThread \/ BindForDeinit \/ DeleteGlObjects \/ DeleteAppContext
      BY <2>1 DEF RunStep, JoinRenderThread, BindForDeinit, DeleteGlObjects, DeleteAppContext
    <2>2. CASE \/ \E r \in DOMAIN Rank : Release(r)
               \/ ReleaseContext \/ ReleaseKeymap \/ ReleaseSeat
      <3>1. stage = "release" /\ stage' = stage /\ textReady' = textReady
        BY <2>2 DEF NextToRelease, Release, ReleaseContext, ReleaseKeymap, ReleaseSeat
      <3> QED
        BY <3>1
    <2> QED
      BY <1>4, <2>1, <2>2 DEF DeinitStep
  <1>5. CASE Gone \/ UNCHANGED vars
    BY <1>5 DEF Gone, vars
  <1> QED
    BY <1>1, <1>2, <1>3, <1>4, <1>5 DEF Next

\* Nothing is taken without its parents, nothing released before its children.
LEMMA NextParents == IInv /\ [Next]_vars => Parents'
  <1> SUFFICES ASSUME IInv, [Next]_vars PROVE Parents'
    OBVIOUS
  <1> USE DEF IInv, Parents, seatVars, xkbVars, shellVars, windowVars
  <1>1. CASE InitStep
    <2> USE DEF HeldByStage, AfterConnect, AfterGlobals, AfterEgl, AfterContext, AfterWl,
              AfterWindow, AfterSurface, AfterShell, AfterDetach, AfterBoot
    <2>1. CASE InitXkb \/ GetRegistry \/ CheckGlobals \/ SurfaceRoundtrip \/ DetachContext
      BY <1>1, <2>1 DEF InitXkb, GetRegistry, CheckGlobals, SurfaceRoundtrip, DetachContext,
                        GlObjects
    <2>2. CASE InitCustomFont \/ ConnectDisplay \/ EnsureRunWakeSignal
      BY <2>2 DEF Acquire, InitCustomFont, ConnectDisplay, EnsureRunWakeSignal, GlObjects
    <2>3. CASE InitEglDisplay \/ CreateContext \/ CreateSurface \/ CreateEglWindow
      BY <2>3 DEF Acquire, InitEglDisplay, CreateContext, CreateSurface, CreateEglWindow,
                  GlObjects
    <2>4. CASE CreateEglSurface \/ InitGlesPipeline
      BY <2>4 DEF CreateEglSurface, InitGlesPipeline, GlObjects
    <2> QED
      BY <1>1, <2>1, <2>2, <2>3, <2>4 DEF InitStep
  <1>2. CASE Listener
    <2>1. Dispatching /\ announced \subseteq {"compositor", "simple_shell_ptr"}
      BY <1>2 DEF Listener, GlobalRegistryHandler, SeatHandleCapabilities, TypeOK,
           KeyboardHandleKeymap, ShellTalks, SurfaceIdEvent, SurfaceCreatedEvent,
           OtherSurfaceCreated
    <2>2. "display" \in held
      BY <2>1 DEF Dispatching, HeldByStage, AfterConnect, AfterGlobals, AfterEgl,
              AfterContext, AfterWl, AfterWindow, AfterSurface, AfterShell, AfterDetach,
              AfterBoot
    <2>3. /\ held \subseteq held'
          /\ held' \subseteq held \cup {"compositor", "simple_shell_ptr", "seat", "keyboard",
                                        "xkbKeymap"}
      BY <1>2, <2>1 DEF Listener, GlobalRegistryHandler, SeatHandleCapabilities,
           KeyboardHandleKeymap, SurfaceIdEvent, SurfaceCreatedEvent, OtherSurfaceCreated
    <2> QED
      BY <2>2, <2>3 DEF GlObjects
  <1>3. CASE RenderStep
    BY <1>3 DEF RenderStep, RunStep, HandshakeDone, HandshakeStops, ClaimContext, BootFrame,
                InitGpuFontAtlas, LoopReturns, HeldByStage, AfterConnect, AfterGlobals,
                AfterEgl, AfterContext, AfterWl, AfterWindow, AfterSurface, AfterShell,
                AfterDetach, AfterBoot, GlObjects
  <1>4. CASE DeinitStep
    <2>1. CASE JoinRenderThread \/ BindForDeinit \/ DeleteGlObjects \/ DeleteAppContext
      BY <2>1 DEF RunStep, JoinRenderThread, BindForDeinit, DeleteGlObjects, DeleteAppContext,
                  GlObjects
    <2>2. CASE ReleaseContext
      BY <2>2 DEF ReleaseContext, GlObjects
    <2>3. CASE ReleaseKeymap \/ ReleaseSeat
      BY <2>3 DEF ReleaseKeymap, ReleaseSeat, GlObjects
    <2>4. ASSUME NEW r \in Pointers, Release(r) PROVE Parents'
      <3>1. \A q \in held \cap Pointers : Rank[r] <= Rank[q]
        BY <2>4, RankDomain DEF Release, NextToRelease
      <3>2. \A c \in Pointers : Rank[c] < Rank[r] => c \notin held
        BY <3>1, RankOrder
      <3>3. /\ r # "egl_context"
            /\ held' = held \ {r}
        BY <2>4 DEF Release
      <3>4. /\ r = "display" =>
                 held \cap {"registry", "compositor", "simple_shell_ptr", "seat", "keyboard",
                            "surface", "egl_display"} = {}
            /\ r = "egl_display" => held \cap {"egl_context", "egl_surface"} = {}
            /\ r = "egl_window" => "egl_surface" \notin held
            /\ r = "surface" => "egl_window" \notin held
        BY <3>2, RankOrder DEF Pointers
      <3> QED
        BY <3>3, <3>4
    <2> QED
      BY <1>4, <2>1, <2>2, <2>3, <2>4, RankDomain DEF DeinitStep
  <1>5. CASE Gone \/ UNCHANGED vars
    BY <1>5 DEF Gone, vars
  <1> QED
    BY <1>1, <1>2, <1>3, <1>4, <1>5 DEF Next

\* The live xkb objects are the pair pointed to.
LEMMA NextXkb == IInv /\ [Next]_vars => XkbInv'
  <1> SUFFICES ASSUME IInv, [Next]_vars PROVE XkbInv'
    OBVIOUS
  <1> USE KeymapAssumption
      DEF IInv, XkbInv, XkbPaired, BeforeXkb, seatVars, xkbVars, shellVars, windowVars
  <1>1. CASE InitXkb
    BY <1>1 DEF InitXkb
  <1>2. CASE KeyboardHandleKeymap
    <2>1. stage \notin BeforeXkb /\ stage' = stage
      BY <1>2 DEF KeyboardHandleKeymap, Dispatching
    <2>2. PICK k \in Keymaps : xkbLive' = (xkbLive \ Objects(keymap)) \cup Objects(k)
                               /\ keymap' = k /\ held' = held \cup {"xkbKeymap"}
      BY <1>2 DEF KeyboardHandleKeymap
    <2>3. k # NoKeymap /\ xkbLive' = Objects(k)
      BY <2>2
    <2> QED
      BY <2>1, <2>2, <2>3
  <1>3. CASE ReleaseKeymap
    BY <1>3 DEF ReleaseKeymap, NextToRelease, Objects
  <1>4. ASSUME ~InitXkb, ~KeyboardHandleKeymap, ~ReleaseKeymap PROVE XkbInv'
    <2>1. /\ UNCHANGED <<keymap, xkbLive>>
          /\ "xkbKeymap" \in held' <=> "xkbKeymap" \in held
          /\ stage' \in BeforeXkb => stage \in BeforeXkb
      <3>1. CASE InitStep
        BY <1>4, <3>1 DEF InitStep, Acquire, InitCustomFont, ConnectDisplay,
           EnsureRunWakeSignal, GetRegistry, CheckGlobals, InitEglDisplay, CreateContext,
           CreateSurface, SurfaceRoundtrip, CreateEglWindow, CreateEglSurface,
           InitGlesPipeline, DetachContext
      <3>2. CASE Listener
        BY <1>4, <3>2 DEF Listener, GlobalRegistryHandler, SeatHandleCapabilities, TypeOK,
           SurfaceIdEvent, SurfaceCreatedEvent, OtherSurfaceCreated
      <3>3. CASE RenderStep
        BY <3>3 DEF RenderStep, RunStep, HandshakeDone, HandshakeStops, ClaimContext,
                    BootFrame, InitGpuFontAtlas, LoopReturns
      <3>4. CASE DeinitStep
        BY <1>4, <3>4 DEF DeinitStep, RunStep, JoinRenderThread, BindForDeinit,
             DeleteGlObjects, DeleteAppContext, Release, ReleaseContext, ReleaseSeat, GlObjects
      <3>5. CASE Gone \/ UNCHANGED vars
        BY <3>5 DEF Gone, vars
      <3> QED
        BY <3>1, <3>2, <3>3, <3>4, <3>5 DEF Next
    <2> QED
      BY <2>1 DEF Objects
  <1> QED
    BY <1>1, <1>2, <1>3, <1>4

\* AppContext knows one of the seats alive as long as it has not released it.
LEMMA NextSeat == IInv /\ [Next]_vars => SeatInv'
  <1> SUFFICES ASSUME IInv, [Next]_vars PROVE SeatInv'
    OBVIOUS
  <1> USE SeatAssumption DEF IInv, SeatInv, seatVars, xkbVars, shellVars, windowVars
  <1>1. CASE GlobalRegistryHandler
    BY <1>1 DEF GlobalRegistryHandler, TypeOK
  <1>2. CASE ReleaseSeat
    BY <1>2 DEF ReleaseSeat, NextToRelease, TypeOK
  <1>3. ASSUME ~GlobalRegistryHandler, ~ReleaseSeat PROVE SeatInv'
    <2>1. CASE InitStep
      BY <2>1 DEF InitStep, Acquire, InitCustomFont, ConnectDisplay, InitXkb,
           EnsureRunWakeSignal, GetRegistry, CheckGlobals, InitEglDisplay, CreateContext,
           CreateSurface, SurfaceRoundtrip, CreateEglWindow, CreateEglSurface,
           InitGlesPipeline, DetachContext
    <2>2. CASE Listener
      BY <1>3, <2>2 DEF Listener, SeatHandleCapabilities, KeyboardHandleKeymap,
           SurfaceIdEvent, SurfaceCreatedEvent, OtherSurfaceCreated
    <2>3. CASE RenderStep
      BY <2>3 DEF RenderStep, RunStep, HandshakeDone, HandshakeStops, ClaimContext, BootFrame,
                  InitGpuFontAtlas, LoopReturns
    <2>4. CASE DeinitStep
      BY <1>3, <2>4 DEF DeinitStep, RunStep, JoinRenderThread, BindForDeinit, DeleteGlObjects,
           DeleteAppContext, Release, ReleaseContext, ReleaseKeymap, GlObjects
    <2>5. CASE Gone \/ UNCHANGED vars
      BY <2>5 DEF Gone, vars
    <2> QED
      BY <2>1, <2>2, <2>3, <2>4, <2>5 DEF Next
  <1> QED
    BY <1>1, <1>2, <1>3

\* The ids match only when the shell has announced our own surface.
LEMMA NextShell == IInv /\ [Next]_vars => ShellInv'
  <1> SUFFICES ASSUME IInv, [Next]_vars PROVE ShellInv'
    OBVIOUS
  <1> USE DEF IInv, ShellInv, OnlyCreated, ConfiguredByOurs, ConfiguredInEitherOrder, OurId, OtherId
  <1>1. CASE SurfaceIdEvent \/ SurfaceCreatedEvent \/ OtherSurfaceCreated
    <2>1. /\ told \subseteq {"surface_id", "surface_created"} /\ surfaceId \in {0, OurId}
          /\ createdId \in {0, OurId, OtherId} /\ configured \in BOOLEAN /\ overtaken \in BOOLEAN
      BY DEF TypeOK
    <2>2. CASE SurfaceIdEvent
      BY <2>1, <2>2 DEF SurfaceIdEvent, UpdateConfigured
    <2>3. CASE SurfaceCreatedEvent
      BY <2>1, <2>3 DEF SurfaceCreatedEvent, UpdateConfigured
    <2>4. CASE OtherSurfaceCreated
      <3>1. /\ createdId' = OtherId /\ told' = told /\ surfaceId' = surfaceId
            /\ overtaken' = (overtaken \/ OnlyCreated) /\ configured' = configured
        BY <2>1, <2>4 DEF OtherSurfaceCreated, UpdateConfigured
      <3>2. CASE OnlyCreated
        <4>1. overtaken' = TRUE
          BY <3>1, <3>2
        <4>2. ~configured /\ createdId' # OurId
          BY <3>1, <3>2
        <4> QED
          BY <2>1, <3>1, <3>2, <4>1, <4>2
      <3>3. CASE ~OnlyCreated
        <4>1. overtaken' = overtaken
          BY <2>1, <3>1, <3>3
        <4> QED
          BY <3>1, <3>3, <4>1
      <3> QED
        BY <3>2, <3>3
    <2> QED
      BY <1>1, <2>2, <2>3, <2>4
  <1>2. ASSUME ~SurfaceIdEvent, ~SurfaceCreatedEvent, ~OtherSurfaceCreated PROVE ShellInv'
    <2>1. UNCHANGED shellVars
      BY <1>2 DEF Next, InitStep, Acquire, InitCustomFont, ConnectDisplay, InitXkb,
           EnsureRunWakeSignal, GetRegistry, CheckGlobals, InitEglDisplay, CreateContext,
           CreateSurface, SurfaceRoundtrip, CreateEglWindow, CreateEglSurface,
           InitGlesPipeline, DetachContext, Listener, GlobalRegistryHandler,
           SeatHandleCapabilities, KeyboardHandleKeymap, RenderStep, RunStep, HandshakeDone,
           HandshakeStops, ClaimContext, BootFrame, InitGpuFontAtlas, LoopReturns,
           DeinitStep, JoinRenderThread, BindForDeinit, DeleteGlObjects, DeleteAppContext,
           Release, ReleaseContext, ReleaseKeymap, ReleaseSeat, Gone, vars
    <2> QED
      BY <2>1 DEF shellVars
  <1> QED
    BY <1>1, <1>2

\* The context is gone with the last pointer, and the GL objects with it.
LEMMA NextGone == IInv /\ [Next]_vars => GoneInv'
  <1> SUFFICES ASSUME IInv, [Next]_vars PROVE GoneInv'
    OBVIOUS
  <1> USE DEF IInv, GoneInv
  <1>1. CASE DeleteAppContext
    <2>1. held' = held /\ held \cap Pointers = {}
      BY <1>1, RankDomain DEF DeleteAppContext
    <2>2. "egl_context" \notin held
      BY <2>1 DEF Pointers
    <2>3. held \cap GlObjects = {}
      BY <2>2 DEF Parents
    <2> QED
      BY <2>1, <2>3, ResourcesAre DEF TypeOK
  <1>2. CASE Gone \/ UNCHANGED vars
    BY <1>2 DEF Gone, vars, windowVars
  <1>3. ASSUME ~DeleteAppContext, ~Gone, ~UNCHANGED vars PROVE stage' # "gone"
    <2>1. CASE InitStep
      BY <2>1 DEF InitStep, Acquire, InitCustomFont, ConnectDisplay, InitXkb,
           EnsureRunWakeSignal, GetRegistry, CheckGlobals, InitEglDisplay, CreateContext,
           CreateSurface, SurfaceRoundtrip, CreateEglWindow, CreateEglSurface,
           InitGlesPipeline, DetachContext
    <2>2. CASE Listener
      BY <2>2 DEF Listener, GlobalRegistryHandler, SeatHandleCapabilities, Dispatching,
           KeyboardHandleKeymap, ShellTalks, SurfaceIdEvent, SurfaceCreatedEvent,
           OtherSurfaceCreated, windowVars
    <2>3. CASE RenderStep
      BY <2>3 DEF RenderStep, RunStep, HandshakeDone, HandshakeStops, ClaimContext, BootFrame,
                  InitGpuFontAtlas, LoopReturns
    <2>4. CASE DeinitStep
      BY <1>3, <2>4 DEF DeinitStep, RunStep, JoinRenderThread, BindForDeinit, DeleteGlObjects,
           NextToRelease, Release, ReleaseContext, ReleaseKeymap, ReleaseSeat
    <2> QED
      BY <1>3, <2>1, <2>2, <2>3, <2>4 DEF Next
  <1> QED
    BY <1>1, <1>2, <1>3

-----------------------------------------------------------------------------
\* The invariant of the window's life, for any keymaps and number of seats.
THEOREM Invariant == Spec => []IInv
  <1>1. Init => IInv
    BY InitInvariant
  <1>2. IInv /\ [Next]_vars => IInv'
    BY NextType, NextHeld, NextCurrent, NextParents, NextXkb, NextSeat, NextShell, NextGone
       DEF IInv
  <1> QED
    BY <1>1, <1>2, PTL DEF Spec

\* Every variable of the window keeps to its type.
THEOREM TypeCorrect == Spec => []TypeOK
  BY Invariant, PTL DEF IInv

\* Whichever step of GlApp::init fails and whenever the loop returns, deinit
\* releases nothing before what was made from it.
THEOREM ReleasedInOrder == Spec => []ParentsOutlive
  <1>1. IInv => ParentsOutlive
    BY ParentsEnough DEF IInv
  <1> QED
    BY <1>1, Invariant, PTL

\* keyboard_handle_keymap and deinit leave no keymap or state without an owner.
THEOREM KeymapPaired == Spec => []XkbPaired
  <1>1. IInv => XkbPaired
    BY DEF IInv, XkbInv
  <1> QED
    BY <1>1, Invariant, PTL

\* After deinit nothing is left but superseded seats.
THEOREM AllReleased == Spec => []NothingLeft
  <1>1. ASSUME IInv PROVE NothingLeft
    <2> SUFFICES ASSUME stage = "gone" PROVE held = {} /\ xkbLive = {}
                                             /\ (seats = 0 \/ seats < MaxSeats)
      BY DEF NothingLeft
    <2>1. held = {}
      BY <1>1 DEF IInv, GoneInv
    <2> QED
      BY <1>1, <2>1 DEF IInv, XkbInv, XkbPaired, Objects, SeatInv
  <1> QED
    BY <1>1, Invariant, PTL

\* The render thread finds the context free, and draws with it current.
THEOREM ContextMoves == Spec => []ContextHandedOver
  <1>1. IInv => ContextHandedOver
    BY DEF IInv, CurrentByStage, ContextHandedOver, HeldByStage, FrameNeeds, AfterBoot,
           AfterDetach, AfterShell, AfterSurface, AfterWindow, AfterWl, AfterContext
  <1> QED
    BY <1>1, Invariant, PTL

\* No surface of another client ends the handshake, and in whichever order the events of
\* ours come they complete it, unless another surface falls between ours and its id.
THEOREM HandshakeIsOurs == Spec => [](ConfiguredByOurs /\ ConfiguredInEitherOrder)
  <1>1. IInv => ConfiguredByOurs /\ ConfiguredInEitherOrder
    BY DEF IInv, ShellInv
  <1> QED
    BY <1>1, Invariant, PTL

\* GL objects come and go under a current context, or with the context.
THEOREM GlCallsHaveContext == Spec => GlUnderContext
  <1>1. ASSUME IInv, [Next]_vars, GlObjects \cap held' # GlObjects \cap held
        PROVE current = Actor \/ ("egl_context" \notin held' /\ GlObjects \cap held' = {})
    <2> USE DEF IInv, CurrentByStage, AfterBoot, Actor, seatVars, xkbVars, shellVars, windowVars
    <2>1. CASE InitStep
      BY <1>1, <2>1 DEF InitStep, Acquire, InitCustomFont, ConnectDisplay, InitXkb,
           EnsureRunWakeSignal, GetRegistry, CheckGlobals, InitEglDisplay, CreateContext,
           CreateSurface, SurfaceRoundtrip, CreateEglWindow, CreateEglSurface,
           InitGlesPipeline, DetachContext, GlObjects
    <2>2. CASE Listener
      BY <1>1, <2>2 DEF Listener, GlobalRegistryHandler, SeatHandleCapabilities, TypeOK,
           KeyboardHandleKeymap, SurfaceIdEvent, SurfaceCreatedEvent, OtherSurfaceCreated,
           GlObjects
    <2>3. CASE RenderStep
      BY <1>1, <2>3 DEF RenderStep, RunStep, HandshakeDone, HandshakeStops, ClaimContext,
           BootFrame, InitGpuFontAtlas, LoopReturns
    <2>4. CASE ReleaseContext
      BY <2>4 DEF ReleaseContext
    <2>5. CASE JoinRenderThread \/ BindForDeinit \/ DeleteGlObjects \/ DeleteAppContext
      BY <1>1, <2>5 DEF RunStep, JoinRenderThread, BindForDeinit, DeleteGlObjects,
           DeleteAppContext
    <2>6. ASSUME NEW r \in Pointers, Release(r) PROVE FALSE
      BY <1>1, <2>6 DEF Release, Pointers, GlObjects
    <2>7. CASE ReleaseKeymap \/ ReleaseSeat
      BY <1>1, <2>7 DEF ReleaseKeymap, ReleaseSeat, GlObjects
    <2>8. CASE Gone \/ UNCHANGED vars
      BY <1>1, <2>8 DEF Gone, vars
    <2> QED
      BY <1>1, <2>1, <2>2, <2>3, <2>4, <2>5, <2>6, <2>7, <2>8, RankDomain DEF Next, DeinitStep
  <1> QED
    BY <1>1, Invariant, PTL DEF Spec, GlUnderContext
=============================================================================
