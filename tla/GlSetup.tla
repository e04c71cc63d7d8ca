------------------------------ MODULE GlSetup ------------------------------
(***************************************************************************)
(* What the window of the Firebolt test application acquires and releases: *)
(* GlApp::init, the bootstrap of GlApp::run, the Wayland listeners that    *)
(* run in between, and GlApp::deinit (gl.cpp).  Every step of init may     *)
(* fail and leaves the rest to deinit, which ~GlApp calls when initGlApp   *)
(* of main.cpp drops the object; the render thread takes the EGL context   *)
(* over from the main thread and never gives it back.                      *)
(*                                                                         *)
(* GlLoop models the loop itself and the requests of the other threads;    *)
(* here the loop is the one stage "serving", and the main thread calls     *)
(* deinit only after the render thread was joined (stopGlApp).             *)
(***************************************************************************)
EXTENDS Integers, FiniteSets

CONSTANTS
    Keymaps,     \* the keymaps the compositor may send
    NamesKeymap, \* the keymap compiled from the default rule names
    NoKeymap,    \* xkbKeymap = xkbState = nullptr
    MaxSeats     \* bound on the wl_seat globals announced

ASSUME KeymapAssumption == /\ NamesKeymap \notin Keymaps
                           /\ NoKeymap \notin Keymaps \cup {NamesKeymap}
ASSUME SeatAssumption == MaxSeats \in Nat

GlObjects == {"program_id", "vbo_id", "main_quad_vao_id", "gpu_glyph_atlas",
              "text_vbo_id", "text_vao_id", "text_program_id"}

\* Slips: the window released before its EGL surface, the registry never.
RankWindowFirst ==
    [embedded_font |-> 1, egl_window |-> 2, egl_surface |-> 3, egl_context |-> 4,
     keyboard |-> 5, xkbKeymap |-> 6, xkbContext |-> 7, seat |-> 8,
     simple_shell_ptr |-> 9, surface |-> 10, compositor |-> 11, registry |-> 12,
     egl_display |-> 13, display |-> 14, wakeEventFd |-> 15]
RankNoRegistry ==
    [embedded_font |-> 1, egl_surface |-> 2, egl_context |-> 3, egl_window |-> 4,
     keyboard |-> 5, xkbKeymap |-> 6, xkbContext |-> 7, seat |-> 8,
     simple_shell_ptr |-> 9, surface |-> 10, compositor |-> 11,
     egl_display |-> 13, display |-> 14, wakeEventFd |-> 15]

\* The order in which deinit looks at the pointers that are left.
Rank == [embedded_font |-> 1, egl_surface |-> 2, egl_context |-> 3, egl_window |-> 4,
         keyboard |-> 5, xkbKeymap |-> 6, xkbContext |-> 7, seat |-> 8,
         simple_shell_ptr |-> 9, surface |-> 10, compositor |-> 11, registry |-> 12,
         egl_display |-> 13, display |-> 14, wakeEventFd |-> 15]

Resources == GlObjects \cup DOMAIN Rank

Stages == {"init", "connect", "xkb", "fds", "registry", "globals", "egl_display",
           "egl_context", "surface", "surface_wait", "egl_window", "egl_surface",
           "shell", "detach", "handshake", "claim", "boot_frame", "atlas", "serving",
           "returned", "deinit", "delete_gl", "release", "gone"}

VARIABLES
    stage,      \* how far the window's life has come
    held,       \* the resources AppContext points to
    current,    \* the thread the EGL context is current in, or "none"
    announced,  \* the wl_compositor and wl_simple_shell globals still to come
    seats,      \* wl_seat proxies alive, of which AppContext knows the last
    keymap,     \* the keymap xkbKeymap points to, and xkbState was made from
    xkbLive,    \* <<"keymap" or "state", k>>: the xkb objects alive
    surfaceId,  \* simple_shell_surface_id, 0 when not known
    createdId,  \* simple_shell_created_id: the surface created last, ours or not
    told,       \* which of its two events the shell has sent for our surface
    configured, \* AppContext::configured
    overtaken,  \* history: another surface was created after ours, before our id
    textReady   \* text_pipeline_initialized

windowVars == <<stage, held, current>>
seatVars   == <<announced, seats>>
xkbVars    == <<keymap, xkbLive>>
shellVars  == <<surfaceId, createdId, told, configured, overtaken>>
vars == <<windowVars, seatVars, xkbVars, shellVars, textReady>>

OurId == 1
OtherId == 2   \* a surface of another client

Objects(k) == IF k = NoKeymap THEN {} ELSE {<<"keymap", k>>, <<"state", k>>}

TypeOK ==
    /\ stage \in Stages
    /\ held \subseteq Resources
    /\ current \in {"none", "main", "render"}
    /\ announced \subseteq {"compositor", "simple_shell_ptr"}
    /\ seats \in 0 .. MaxSeats
    /\ keymap \in Keymaps \cup {NamesKeymap, NoKeymap}
    /\ xkbLive \subseteq {"keymap", "state"} \X (Keymaps \cup {NamesKeymap})
    /\ surfaceId \in {0, OurId}
    /\ createdId \in {0, OurId, OtherId}
    /\ told \subseteq {"surface_id", "surface_created"}
    /\ {configured, overtaken} \subseteq BOOLEAN
    /\ textReady \in BOOLEAN

Init ==
    /\ stage = "init"
    /\ held = {}
    /\ current = "none"
    /\ announced \in SUBSET {"compositor", "simple_shell_ptr"}
    /\ seats = 0
    /\ keymap = NoKeymap
    /\ xkbLive = {}
    /\ surfaceId = 0
    /\ createdId = 0
    /\ told = {}
    /\ configured = FALSE
    /\ overtaken = FALSE
    /\ textReady = FALSE

-----------------------------------------------------------------------------
(***************************************************************************)
(* GlApp::init, in the main thread                                         *)
(***************************************************************************)

\* One call of init that yields the resource r; when it fails init returns
\* false at once and initGlApp's unique_ptr runs the destructor.
Acquire(from, r, to) ==
    /\ stage = from
    /\ \/ held' = held \cup {r} /\ stage' = to
       \/ held' = held /\ stage' = "deinit"
    /\ UNCHANGED <<current, seatVars, xkbVars, shellVars, textReady>>

\* init_custom_font: XDG_RUNTIME_DIR or the file is missing, or one of the
\* FreeType and cairo calls fails and frees what the earlier ones made.
InitCustomFont == Acquire("init", "embedded_font", "connect")
ConnectDisplay == Acquire("connect", "display", "xkb")
EnsureRunWakeSignal == Acquire("fds", "wakeEventFd", "registry")

\* The xkb context and, with it, ensure_default_xkb_state: neither is fatal.
InitXkb ==
    /\ stage = "xkb"
    /\ stage' = "fds"
    /\ \E k \in {NoKeymap, NamesKeymap} :
          /\ keymap' = k
          /\ xkbLive' = Objects(k)
          /\ \/ held' = held \cup {"xkbContext"} \cup (IF k = NoKeymap THEN {} ELSE {"xkbKeymap"})
             \/ k = NoKeymap /\ held' = held
    /\ UNCHANGED <<current, seatVars, shellVars, textReady>>

GetRegistry ==
    /\ stage = "registry"
    /\ held' = held \cup {"registry"}
    /\ stage' = "globals"
    /\ UNCHANGED <<current, seatVars, xkbVars, shellVars, textReady>>

\* The first round trip is over (its result is not looked at).
CheckGlobals ==
    /\ stage = "globals"
    /\ stage' = IF {"compositor", "simple_shell_ptr"} \subseteq held
                  THEN "egl_display" ELSE "deinit"
    /\ UNCHANGED <<held, current, seatVars, xkbVars, shellVars, textReady>>

\* get_wayland_egl_display, then eglInitialize: a display that was got but not
\* initialized is still the application's to terminate.
InitEglDisplay ==
    \/ Acquire("egl_display", "egl_display", "egl_context")
    \/ /\ stage = "egl_display"
       /\ held' = held \cup {"egl_display"}
       /\ stage' = "deinit"
       /\ UNCHANGED <<current, seatVars, xkbVars, shellVars, textReady>>

\* eglChooseConfig finds a configuration and eglCreateContext a context.
CreateContext == Acquire("egl_context", "egl_context", "surface")

\* wl_compositor_create_surface and the commit; the shell's answers come in the
\* round trip that follows, or later.
CreateSurface == Acquire("surface", "surface", "surface_wait")

SurfaceRoundtrip ==
    /\ stage = "surface_wait"
    /\ stage' = "egl_window"
    /\ UNCHANGED <<held, current, seatVars, xkbVars, shellVars, textReady>>

CreateEglWindow == Acquire("egl_window", "egl_window", "egl_surface")

\* create_wayland_egl_surface and eglMakeCurrent: the surface may exist and
\* still not become current.
CreateEglSurface ==
    /\ stage = "egl_surface"
    /\ \/ /\ held' = held \cup {"egl_surface"}
          /\ current' = "main"
          /\ stage' = "shell"
       \/ /\ held' \in {held, held \cup {"egl_surface"}}
          /\ current' = current
          /\ stage' = "deinit"
    /\ UNCHANGED <<seatVars, xkbVars, shellVars, textReady>>

\* apply_simple_shell_state succeeds only when everything it talks about exists
\* and the shell has told the surface's id.
ShellStateApplies ==
    /\ {"simple_shell_ptr", "surface", "display"} \subseteq held
    /\ surfaceId # 0

\* apply_simple_shell_state and init_gles_pipeline: a shader that does not
\* compile or a program that does not link is deleted again.
InitGlesPipeline ==
    /\ stage = "shell"
    /\ \/ /\ ShellStateApplies
          /\ held' = held \cup {"program_id", "vbo_id", "main_quad_vao_id"}
          /\ stage' = "detach"
       \/ /\ held' = held
          /\ stage' = "deinit"
    /\ UNCHANGED <<current, seatVars, xkbVars, shellVars, textReady>>

\* Slip: the context stays current in the main thread.
KeepContext ==
    /\ stage = "detach"
    /\ stage' = "handshake"
    /\ UNCHANGED <<held, current, seatVars, xkbVars, shellVars, textReady>>

\* The end of init: the context is released for the render thread, which
\* ensureGlRunThreadStarted launches.
DetachContext ==
    /\ stage = "detach"
    /\ current' = "none"
    /\ stage' = "handshake"
    /\ UNCHANGED <<held, seatVars, xkbVars, shellVars, textReady>>

InitStep == \/ InitCustomFont \/ ConnectDisplay \/ InitXkb \/ EnsureRunWakeSignal
            \/ GetRegistry \/ CheckGlobals \/ InitEglDisplay \/ CreateContext
            \/ CreateSurface \/ SurfaceRoundtrip \/ CreateEglWindow
            \/ CreateEglSurface \/ InitGlesPipeline \/ DetachContext

-----------------------------------------------------------------------------
(***************************************************************************)
(* The listeners: called from the round trips of init by the main thread,  *)
(* from the handshake and the loop of run by the render thread             *)
(***************************************************************************)

Dispatching == stage \in {"globals", "surface_wait", "handshake", "serving"}

\* global_registry_handler: a second wl_seat takes the first one's place.
GlobalRegistryHandler ==
    /\ Dispatching
    /\ \/ \E g \in announced :
             /\ announced' = announced \ {g}
             /\ held' = held \cup {g}
             /\ seats' = seats
       \/ /\ seats < MaxSeats
          /\ seats' = seats + 1
          /\ held' = held \cup {"seat"}
          /\ announced' = announced
    /\ UNCHANGED <<stage, current, xkbVars, shellVars, textReady>>

\* seat_handle_capabilities: any seat bound may announce a keyboard, and only
\* the first announcement is taken.
SeatHandleCapabilities ==
    /\ Dispatching
    /\ seats > 0
    /\ "keyboard" \notin held
    /\ held' = held \cup {"keyboard"}
    /\ UNCHANGED <<stage, current, seatVars, xkbVars, shellVars, textReady>>

\* Slip: the old keymap is dropped, its state is not.
KeymapKeepsState ==
    /\ Dispatching
    /\ {"keyboard", "xkbContext"} \subseteq held
    /\ \E k \in Keymaps \ {keymap} :
          /\ xkbLive' = (xkbLive \ {<<"keymap", keymap>>}) \cup Objects(k)
          /\ keymap' = k
    /\ held' = held \cup {"xkbKeymap"}
    /\ UNCHANGED <<stage, current, seatVars, shellVars, textReady>>

\* keyboard_handle_keymap, when the keymap maps and compiles; on each failure
\* the handler drops what it made and the old pair stays.
KeyboardHandleKeymap ==
    /\ Dispatching
    /\ {"keyboard", "xkbContext"} \subseteq held
    /\ \E k \in Keymaps \ {keymap} :
          /\ xkbLive' = (xkbLive \ Objects(keymap)) \cup Objects(k)
          /\ keymap' = k
    /\ held' = held \cup {"xkbKeymap"}
    /\ UNCHANGED <<stage, current, seatVars, shellVars, textReady>>

\* Slip: any surface created will do.
ConfiguredByAny == configured' = (configured \/ (surfaceId' # 0 /\ createdId' # 0))

\* update_simple_shell_configured_state, after the listeners stored their id.
UpdateConfigured ==
    configured' = (configured \/ (surfaceId' # 0 /\ createdId' = surfaceId'))

ShellTalks == Dispatching /\ "simple_shell_ptr" \in held

SurfaceIdEvent ==
    /\ ShellTalks
    /\ "surface" \in held
    /\ "surface_id" \notin told
    /\ told' = told \cup {"surface_id"}
    /\ surfaceId' = OurId
    /\ UNCHANGED <<createdId, overtaken>>
    /\ UpdateConfigured
    /\ UNCHANGED <<windowVars, seatVars, xkbVars, textReady>>

\* Slip: only the other listener looks whether the ids match.
CreatedNotCompared ==
    /\ ShellTalks
    /\ "surface" \in held
    /\ "surface_created" \notin told
    /\ told' = told \cup {"surface_created"}
    /\ createdId' = OurId
    /\ UNCHANGED <<windowVars, seatVars, xkbVars, surfaceId, configured, overtaken, textReady>>

\* The shell announces our surface, before it tells its id or after.
SurfaceCreatedEvent ==
    /\ ShellTalks
    /\ "surface" \in held
    /\ "surface_created" \notin told
    /\ told' = told \cup {"surface_created"}
    /\ createdId' = OurId
    /\ UNCHANGED <<surfaceId, overtaken>>
    /\ UpdateConfigured
    /\ UNCHANGED <<windowVars, seatVars, xkbVars, textReady>>

\* Our surface is announced and its id is still to come.
OnlyCreated == "surface_created" \in told /\ "surface_id" \notin told

\* The same listener hears of every other client's surface, and remembers only the
\* last one created.
OtherSurfaceCreated ==
    /\ ShellTalks
    /\ createdId' = OtherId
    /\ overtaken' = (overtaken \/ OnlyCreated)
    /\ UNCHANGED <<told, surfaceId>>
    /\ UpdateConfigured
    /\ UNCHANGED <<windowVars, seatVars, xkbVars, textReady>>

Listener == \/ GlobalRegistryHandler \/ SeatHandleCapabilities \/ KeyboardHandleKeymap
            \/ SurfaceIdEvent \/ SurfaceCreatedEvent \/ OtherSurfaceCreated

-----------------------------------------------------------------------------
(***************************************************************************)
(* GlApp::run, in the render thread                                        *)
(***************************************************************************)

RunStep(from, to) ==
    /\ stage = from
    /\ stage' = to
    /\ UNCHANGED <<seatVars, xkbVars, shellVars>>

HandshakeDone ==
    /\ RunStep("handshake", "claim")
    /\ configured
    /\ UNCHANGED <<held, current, textReady>>

\* close, a poll error or a broken socket ends the handshake.
HandshakeStops ==
    /\ RunStep("handshake", "returned")
    /\ UNCHANGED <<held, current, textReady>>

\* ensure_egl_current
ClaimContext ==
    \/ /\ RunStep("claim", "boot_frame")
       /\ {"egl_display", "egl_context", "egl_surface"} \subseteq held
       /\ current = "none"
       /\ current' = "render"
       /\ UNCHANGED <<held, textReady>>
    \/ /\ RunStep("claim", "returned")
       /\ UNCHANGED <<held, current, textReady>>

\* What present_prepared_frame draws with; draw_gpu_text_string does nothing
\* before its pipeline is there.
FrameNeeds ==
    {"egl_context", "egl_surface", "program_id", "main_quad_vao_id"}
        \cup (IF textReady THEN {"gpu_glyph_atlas", "text_program_id", "text_vbo_id", "text_vao_id"}
                           ELSE {})

BootFrame ==
    \/ RunStep("boot_frame", "atlas") /\ UNCHANGED <<held, current, textReady>>
    \/ RunStep("boot_frame", "returned") /\ UNCHANGED <<held, current, textReady>>

\* init_gpu_font_atlas: the glyph textures, the buffer and the vertex array
\* stay behind when the text shaders fail.
InitGpuFontAtlas ==
    /\ "embedded_font" \in held
    /\ \/ /\ RunStep("atlas", "serving")
          /\ held' = held \cup {"gpu_glyph_atlas", "text_vbo_id", "text_vao_id", "text_program_id"}
          /\ textReady' = TRUE
       \/ /\ RunStep("atlas", "returned")
          /\ held' = held \cup {"gpu_glyph_atlas", "text_vbo_id", "text_vao_id"}
          /\ textReady' = FALSE
    /\ UNCHANGED current

LoopReturns ==
    /\ RunStep("serving", "returned")
    /\ UNCHANGED <<held, current, textReady>>

-----------------------------------------------------------------------------
(***************************************************************************)
(* GlApp::deinit, in the main thread                                       *)
(***************************************************************************)

\* stopGlApp joins the render thread, which ends with the context current: it
\* is up to EGL whether the end of the thread releases it.
JoinRenderThread ==
    /\ RunStep("returned", "deinit")
    /\ current' \in {current, "none"}
    /\ UNCHANGED <<held, textReady>>

\* Slip: deinit does not look whether it got the context.
BindUnchecked ==
    /\ RunStep("deinit", "delete_gl")
    /\ current' \in {current, "main"}
    /\ UNCHANGED <<held, textReady>>

\* The GL objects can be deleted only with the context current here; where it
\* is still current elsewhere, or eglMakeCurrent fails, they go with the context.
BindForDeinit ==
    \/ /\ RunStep("deinit", "delete_gl")
       /\ {"egl_display", "egl_context", "egl_surface"} \subseteq held
       /\ current # "render"
       /\ current' = "main"
       /\ UNCHANGED <<held, textReady>>
    \/ /\ RunStep("deinit", "release")
       /\ UNCHANGED <<held, current, textReady>>

DeleteGlObjects ==
    /\ RunStep("delete_gl", "release")
    /\ held' = held \ GlObjects
    /\ current' = "none"
    /\ UNCHANGED textReady

\* The next pointer, in deinit's order, that is not null.
NextToRelease(r) ==
    /\ stage = "release"
    /\ r \in held
    /\ \A q \in held \cap DOMAIN Rank : Rank[r] <= Rank[q]

Release(r) ==
    /\ r \notin {"egl_context", "xkbKeymap", "seat"}
    /\ NextToRelease(r)
    /\ held' = held \ {r}
    /\ UNCHANGED <<stage, current, seatVars, xkbVars, shellVars, textReady>>

\* eglDestroyContext takes the GL objects that are left along.
ReleaseContext ==
    /\ NextToRelease("egl_context")
    /\ held' = held \ ({"egl_context"} \cup GlObjects)
    /\ current' = "none"
    /\ UNCHANGED <<stage, seatVars, xkbVars, shellVars, textReady>>

ReleaseKeymap ==
    /\ NextToRelease("xkbKeymap")
    /\ held' = held \ {"xkbKeymap"}
    /\ xkbLive' = xkbLive \ Objects(keymap)
    /\ keymap' = NoKeymap
    /\ UNCHANGED <<stage, current, seatVars, shellVars, textReady>>

ReleaseSeat ==
    /\ NextToRelease("seat")
    /\ held' = held \ {"seat"}
    /\ seats' = seats - 1
    /\ UNCHANGED <<stage, current, announced, xkbVars, shellVars, textReady>>

\* No pointer is left: the AppContext is deleted.
DeleteAppContext ==
    /\ RunStep("release", "gone")
    /\ held \cap DOMAIN Rank = {}
    /\ UNCHANGED <<held, current, textReady>>

Gone == stage = "gone" /\ UNCHANGED vars

RenderStep == \/ HandshakeDone \/ HandshakeStops \/ ClaimContext \/ BootFrame
              \/ InitGpuFontAtlas \/ LoopReturns

DeinitStep == \/ JoinRenderThread \/ BindForDeinit \/ DeleteGlObjects
              \/ (\E r \in DOMAIN Rank : Release(r))
              \/ ReleaseContext \/ ReleaseKeymap \/ ReleaseSeat \/ DeleteAppContext

Next == InitStep \/ Listener \/ RenderStep \/ DeinitStep \/ Gone

(***************************************************************************)
(* The threads go on when they can, but for the loop, which serves as long *)
(* as nobody closes it; the shell sends both events for our surface.       *)
(***************************************************************************)
Fairness == /\ WF_vars(InitStep)
            /\ WF_vars(HandshakeDone) /\ WF_vars(ClaimContext)
            /\ WF_vars(BootFrame) /\ WF_vars(InitGpuFontAtlas)
            /\ WF_vars(DeinitStep)
            /\ WF_vars(SurfaceIdEvent) /\ WF_vars(SurfaceCreatedEvent)

Spec == Init /\ [][Next]_vars
FairSpec == Spec /\ Fairness

-----------------------------------------------------------------------------
\* Which resource must exist as long as which other one does: what the Wayland,
\* EGL and GL libraries ask of the order of their destructors.
Outlives ==
    ({"display"} \X {"registry", "compositor", "simple_shell_ptr", "seat", "keyboard",
                     "surface", "egl_display"})
    \cup ({"egl_display"} \X {"egl_context", "egl_surface"})
    \cup ({"egl_window"} \X {"egl_surface"})
    \cup ({"surface"} \X {"egl_window"})
    \cup ({"egl_context"} \X GlObjects)

\* Nothing is released before what was made from it, at whichever step init
\* failed or the loop stopped.
ParentsOutlive == \A pair \in Outlives : pair[2] \in held => pair[1] \in held

\* The xkb objects alive are the pair AppContext points to: a keymap replaced
\* takes its state with it, and deinit leaves none.
XkbPaired ==
    /\ xkbLive = Objects(keymap)
    /\ keymap # NoKeymap <=> "xkbKeymap" \in held

\* When deinit is done only superseded seats are left, and there are none
\* unless the compositor announced several.
NothingLeft == stage = "gone" => /\ held = {}
                                 /\ xkbLive = {}
                                 /\ seats = 0 \/ seats < MaxSeats

\* Nobody holds the context when the render thread claims it (init has given it
\* up on the way to the handshake, and no listener takes it); from then on frames
\* are drawn in the thread that has the context, with objects that exist.
ContextHandedOver ==
    /\ stage \in {"handshake", "claim"} => current = "none"
    /\ stage \in {"boot_frame", "atlas", "serving"} =>
           current = "render" /\ FrameNeeds \subseteq held

\* The window is never configured by another client's surface, nor by one of our
\* surface's two events alone.
ConfiguredByOurs == configured => {"surface_id", "surface_created"} \subseteq told

\* Once both events have come, in either order and with any other surfaces created
\* before, between and after them, the window is configured, but for one order: ours
\* created, another created, our id.
ConfiguredInEitherOrder ==
    {"surface_id", "surface_created"} \subseteq told => (configured <=> ~overtaken)

Actor == IF stage \in {"atlas", "serving"} THEN "render" ELSE "main"

\* GL objects come and go only in the thread the context is current in, or all
\* of them with the context.
GlUnderContext ==
    [][GlObjects \cap held' # GlObjects \cap held =>
           \/ current = Actor
           \/ "egl_context" \notin held' /\ GlObjects \cap held' = {}]_vars

\* The handshake ends for our surface's two events in either order, whatever other
\* surfaces are created.  The one order that leaves it waiting is the one of
\* ConfiguredInEitherOrder.
HandshakeCompletes == stage = "handshake" ~> stage # "handshake" \/ overtaken
=============================================================================
