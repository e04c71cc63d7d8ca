# TLA+ models of feature-test-tools

The repository holds five tools for testing RDK devices. This directory models the parts of
them in which the order of events decides what happens: threads that share state, callbacks that
outlive their caller, timers that race with messages, a window whose set-up may fail at any of
fifteen steps, a background test that must end before what it uses is destroyed, a script that may
fail between any two of its steps. TLC checks the models on small instances; TLAPS proves every
safety property that a passing run checks for every value of the constants.

Line numbers below and in `PROJECT.json` ("map") are those of the sources as they stand in this
repository. `tests/x` abbreviates `firebolt-test-app/native/src/tests/x`.

## 1. Inventory of the system

### 1.1 firebolt-test-app (C++, `firebolt-test-app/native`)

An app started by the RDK platform. It connects to Firebolt, follows the platform's lifecycle
events, draws a progress window with OpenGL on Wayland, and in automatic mode runs every test
module on a thread of its own. Up to five threads are alive at once.

| part | state | operations | interacts through |
|---|---|---|---|
| `main`, `main.cpp:551-951` | the connection's promise, the lifecycle subscription, `pendingAppStates`, `currentAppState`, `exitRequested`, `glApp`, three `std::thread`s | connect and wait two seconds, early returns; Firebolt callback queues a derived state; one pass of the loop handles one; `stopGlApp`; shutdown joins | mutex-guarded queue, atomics, `glAppMutex` |
| render loop, `gl.cpp`, `gl.h` | `AppContext`: running, target and pending mode, `keyFrameDirty`, frame callback, eventfd, progress | `run`, `resume`, `pause`, `close`, `updateProgress`, `init`, `deinit` | atomics, an eventfd, the Wayland queue |
| window set-up, `gl.cpp:233-1445, 1725-1811` | `AppContext`: the font, Wayland, xkb, EGL and GL objects; which thread has the EGL context; the handshake with the shell | `init`, the listeners, the handshake and first frame of `run`, `deinit` | Wayland events, EGL's current context |
| progress thread, `main.cpp:726-751`; `ProgressController`, `main.cpp:104-236` | count, total, `hasChanged`, `shutdownSignaled` | wait for a change, then `updateProgress` | condition variable, `glAppMutex` |
| automatic mode, `main.cpp:407-523, 757-794` | the modules, `autoDeferredCleanupDone` | run methods in order, deferred cleanup, wait for exit | tracker pointer (`utils.h`), atomics |
| test modules, `tests/*Test.cpp` (15) | their subscriptions | subscribe, unsubscribe, unsubscribeAll, plain calls | Firebolt callbacks that capture the module |
| Thunder client, `tests/ws_comm_tester.h` | `RequestContext`, request permits | a batch of calls; one websocket client and one runner thread per call | callbacks on the runner thread, condition variable with a timeout |
| menu mode, parsers, logger | terminal input | choose and run a method by hand | none |

What makes it correct: no thread or callback touches the `AppContext`, a module or a request after
it is gone; no request to the render loop and no exit request is lost; the frame chain neither
stalls nor leaks; what was acquired is released, each resource after those made from it, wherever
the set-up failed; the exit always completes; what is requested of the window follows the platform.

### 1.2 aowss-voice-test-server (JavaScript)

A websocket server that captures voice audio. Per session: a raw capture stream, an optional
stream of decoded ADPCM, an idle timer, frame counters, a flag for I/O failures; globally the
number of active connections. Node runs one handler at a time, but messages, timers, stream
errors and the close handshake come in any order. Correct means that the count and the counters
are honest, that a session ends and leaves nothing behind, and that the decoder stays inside its
buffers and its 16 bits.

### 1.3 ramtapp (C++)

A menu utility for the RDK app managers. Seven managers each open a plugin interface and register
an event handler; a performance test launches and terminates an app in a background thread while
the menu stays in use. Correct means that a test stops when told to, that the stop of one test
does not hit the next, and that the interface outlives the thread that uses it.

### 1.4 bolt-manipulator (bash) and ralfinfo (C++)

`sign_bolt_rdk.sh` extracts a package, signs its content manifest, rewrites the index and builds a
new archive, one or a batch. Its state is a temporary directory (`EXTRACT_DIR`, `OUTPUT_DIR`, the
downloads), the install path and a set of global variables. It is sequential; what is hard is
partial failure (a step fails after others have changed files, and the next run may use the same
directory), state that outlives the package it belongs to, and arithmetic on offsets. Correct means
that an archive's index, manifest and signature agree, that it holds nothing of another package,
that success is complete, and that large files can be mounted in place.

`ralfinfo` loads the certificates of a file or a directory, opens a package with or without
verification, mounts it if asked to, and prints a report. It is sequential; what is hard is that
verification is switched on by any of three options, that a directory is read in no particular order
with links and unusable files in it, and that each call may fail. Correct means that a package is
opened as the options ask, against all the certificates of the source named and no others.

The hazards of all parts, each at its line, are in `PROJECT.json` under "hazards".

## 2. Modules

| module | models | uses |
|---|---|---|
| `GlContract` | what `GlApp` promises `main.cpp` (the abstract specification) | |
| `GlLoop` | `GlApp::run` with the main and progress threads that drive it | refines `GlContract` |
| `GlSetup` | what the window acquires in `init` and `run` and releases in `deinit`, and the listeners between | |
| `FireboltApp`, `MCFireboltApp` | `main` with its lifecycle loop, progress thread, test-module thread, subscriptions | built from the actions of `GlContract` |
| `ThunderRequest` | `start_thunder_tests`, `send_request`, websocket handlers | |
| `AowsServer` | the sessions of the voice server | |
| `Adpcm`, `MCAdpcm` | its ADPCM decoder | |
| `MCAows` | both, one at a time: the server as a run sees it | `AowsServer`, `MCAdpcm` |
| `Ramtapp` | managers' lifetime and the background launch test | |
| `BoltSign`, `MCBoltSign` | `sign_bolt_rdk.sh` but for the bytes of the archive | |
| `BoltZip`, `MCBoltZip` | the archive written by `repackage` | |
| `MCBolt` | both, one at a time: the script as a run sees it | `MCBoltSign`, `MCBoltZip` |
| `RalfInfo` | `ralfinfo.cpp` | |
| `GlLoopProof`, `GlSetupProof`, `FireboltAppProof`, `ThunderRequestProof`, `RamtappProof`, `RalfInfoProof` | theorems | the module they are about |
| `AowsProof`, `BoltProof` | theorems | `AowsServer` and `Adpcm`, `BoltZip` and `BoltSign` |

Operators with a comment that begins with "Mutant" or "Slip" are altered forms of the
action they precede. They belong to no specification: substituted for the action they show that
a property notices a plausible bug.

### GlLoop and GlContract

One action per stretch of code between two accesses to shared state, in source order, for three
threads. `rpc` is the place in `run()`: the handshake (`HsTest`, `HsPoll`), the bootstrap frame
(`Boot`), and the loop (`Top`, `ApplyRead`, `ApplyStore`, `DispatchQueued`, `Poll...`,
`DispatchRead`, `Render`, `Present`), then `Cleanup`. `resume`, `pause` and `close` are the steps
`MainRequest`, `MainPending`, `MainRunning`, `MainSignal` of the main thread: their stores are
separate because the render thread may run between them. `ApplyRead` and `ApplyStore` are two
steps because the interlock mutex that encloses them is taken by nobody else. `deinit` is one
step: it runs under `glAppMutex` with the render thread joined. The eventfd is a Boolean, the
Wayland socket and queue are sets of pending events of three kinds. Drawing is reduced to the
progress value that was shown.

`GlContract` is the view from `main.cpp`: a mode that was asked for and a phase (`null`, `ready`,
`running`, `exited`). `GlLoop` is checked to implement it (mode is `target`, phase follows `ctx`
and `rpc`). It covers one life of the object, from the start of `run()` to `deinit`.

### GlSetup

`stage` is how far the window's life has come: the steps of `init`, the handshake, the claim of the
context, the first frame and the font atlas in `run`, the loop as the one stage `serving`, and
`deinit`. `held` is the set of pointers of `AppContext` that are not null; `Acquire` is one call of
`init` that yields a resource or ends it. The listeners run wherever the code dispatches: in the two
round trips of `init` on the main thread, in the handshake and the loop on the render thread.
`current` is the thread the EGL context is current in. `xkbLive` and `seats` count what no pointer
tells: the xkb objects and the seat proxies alive. `Release` takes the pointers in the order of
`deinit` (`Rank`), one at a time, so that every order of failure meets the same destructor.

Where the code leaves the outcome to a library it is a choice: whether the end of the render thread
releases its context, and whether `eglMakeCurrent` in `deinit` succeeds; if not, the GL objects are
not deleted but go with the context.

The shell tells the id of our surface (`SurfaceIdEvent`) and announces the surfaces created, ours
(`SurfaceCreatedEvent`) and other clients' (`OtherSurfaceCreated`), in any order. The listener
remembers the last announcement only. So there is one order in which the two ids never meet: ours is
created, another one is created, our id comes. The history variable `overtaken` tells it apart;
`HandshakeCompletes` says that the handshake ends for our surface in every other order, and in that
one waits; `ConfiguredByOurs` that no other client's surface and no single event configures it, and
`ConfiguredInEitherOrder`, a theorem, that both events do.

### FireboltApp

Before the loop, `Connect`, `AwaitConnection`, `CheckFont` and `Subscribe` go on or return early
(`GiveUp`); the connection callback (`ConnectionChanged`) may come at any time after `Connect` and
only its first result counts. Then the callback thread (`LifecycleChange`), the loop (`PopState`,
one `Handle...` action per branch, `CheckExitKey`), `stopGlApp` as four steps (`wake_for_shutdown`,
`StopClose`, `StopJoin`, `StopDeinit`), the shutdown (`LoopEnds`, `JoinThreads`, `Return`), the
progress thread, and the test-module thread with its early return, deferred cleanup and wait. An
`AppState` is the pair of platform states it stands for: the eleven of
`getAppStateFromLifeCycleEvent` (`Mapped`) and one for every other pair. The platform is external
and bound to no order: it may skip states, go back or repeat itself, as long as it announces
nothing after TERMINATING. A change without an `AppState` is only warned of (`main.cpp:896-900`)
and leaves the window as it was. `announced` and `skipped` are history variables for
`RequestFollowsPlatform`: the change announced last, and whether one came that does not follow from
the one before. That property is about what main requested last of the window; whether the render
loop does it is a matter of `GlLoop` (`SettledRequestApplied`, `gl_resume_lost`). A module is the
list of methods it contributes, each a plain call or a change of its subscriptions. An event's
callback (`ModuleEvent`) is one step: whether the Firebolt client waits, when a subscription is
cancelled, for a callback in flight is its own affair. The GL object is used through `GlContract`'s
actions only, which is what the refinement licenses. That in turn is only good if `main` keeps its
side: `HonoursContract` says that no request follows close, and `GuardsHold` (in the proof) that no
guard of the contract stops `main` where the code has none.

### ThunderRequest

The calling thread and the runner thread of one call at a time. What a thread does while it holds
`ctx->mtx` is one step; the `close` and `stop` that the message, fail and close handlers make
after releasing it is a step of its own (`HandlerStops`). An answer is a result with the call's
id, any other JSON, or garbage. A handler begins before it gets the lock, so the caller may time out
between the two: that is the race `TimeoutSticks` is about.

### AowsServer, Adpcm

One action per event handler. `code` is the first close frame sent, `written` the frames handed to
the raw stream (it has no variable in the code). A stream fails in two steps, the failure and the
delivery of its 'error' event, as in node. In `Adpcm` a step decodes a header or a payload byte;
beside the predictor runs that of the bit-accumulation form of IMA ADPCM, which a comment of the
code compares it with. A message is decoded before node runs any other handler and the decoder
keeps nothing between messages, so `MCAows` lets either move while the other rests.

### Ramtapp

The main thread from the construction of the managers to the end of `main`, the test thread (one
action per call or test in the loop), and the app, which moves on by itself. `late` and
`unpaired` are history variables for two properties. A failed `GetLoadedApps` reads as unknown,
as in the code.

The event handlers that most managers register with their plugin only print, and are left out;
construction and release are the same for all seven.

### RalfInfo

One action per step of `main` that may fail. The command line, the kinds of the directory's entries
and the package are chosen when the code first looks at them; `ReadEntry` takes the entries in any
order. An option with an empty value is as good as none, as in the code. Failures of `libralf` and
exceptions of the file system, which nothing catches, are alternatives of their step. In `Report` the
metadata's failure ends `main` with 1, while the certificates' (`ralfinfo.cpp:438`) and the auxiliary
keys' (394) leave their part out and the exit code 0.

### BoltSign and BoltZip

One action per function of the script; the archive and the installed copy take two, because they
are written under their final names and a failure may come between. `Fail` is `set -e`, `log_error`
and a kill: it may follow any step and leaves all files as they are. `RunAgain` starts the script
in the same `TEMP_DIR`. A blob stands for its digest, so what refers to a blob holds it. A document
is reduced to what the script's `grep` can tell apart: the order of the index, whether it is on one
line (`compact`), which media type comes first (`type`), whether a manifest has its configuration
on one line (`inline`). A download by curl may be an error page. `latest` is a history variable:
the package that each output was last made from. `SuccessIsComplete` counts by it: each package of
the list has an archive of its own, unless a later one of the same base name has replaced it.
`EndArchive` is one step; `BoltZip` counts the bytes it writes, one action per file, per directory
entry and for the end record. The notes in `zip_entries.txt` are text and hold numbers whole, while
`write_u16` and `write_u32` keep the low bits of a number (`U16`, `U32`): a header of `BoltZip` is
what its fields leave of it, beside the file it was written for, and `Readable` follows the fields.
The range of a 32-bit field is the constant `OffsetLimit`, so that a run can pass it. The
specification is `ZipSpec`, that of `Adpcm` `DecoderSpec`: each shares a proof module and a run
with another one.

## 3. What each run checks

| run | bounds | shows |
|---|---|---|
| `gl_loop` | percentages 0 and 120 | `FrameChain`, `NoLostWakeup`, `NoUseAfterFree`, `LatestShown`, `SettledRequestApplied`, refinement of `GlContract` (411 188 states) |
| `gl_resume_lost` | percentage 50 | violation: a `resume()` between the loop's read and its clearing of the flag is lost |
| `gl_setup` | 2 keymaps besides the default one, 2 seats, another client's surfaces | `ParentsOutlive`, `XkbPaired`, `NothingLeft`, `ContextHandedOver`, `ConfiguredByOurs`, `GlUnderContext`, `HandshakeCompletes` |
| `app` | 2 events, 4 methods, 6 lifecycle changes in any order, 1 waiting | `CallbackHasTracker`, `RenderThreadOwned`, `ExitQuiesces`, `RequestFollowsPlatform`, `HonoursContract`, `ExitCompletes`, `ProgressTaken` (781 782 states) |
| `thunder_requests` | 3 calls | `CallContained` (handlers and permits), `SuccessIsOwn`, `TimeoutSticks`, `BatchEnds` |
| `aows` | 2 sessions, 2 frames; messages of up to 2 frames of 7 bytes, extremes of every field | `CountsHonest`, `ClosedIsQuiet`, `FirstCloseWins`, `SessionEnds`; `OutputFits` (allocation and 16 bits) (151 199 states) |
| `adpcm_same_result` | the same messages | violation: the decoder's difference is not that of the bit-accumulation form |
| `ramtapp` | 2 managers, up to 2 iterations, any number of tests | `StopReachesItsTest`, `NoUseAfterRelease`, `LaunchesPaired`, `ExitEnds` |
| `bolt` | 6 packages, 50 command lines, 2 runs in one directory; listings of up to 3 files, 32-bit fields scaled to 200 000 | `SignatureResolves`, `NothingFromBefore`, `SuccessIsComplete`; `Mountable`, `Readable` (100 467 states) |
| `bolt_certificate` | the same packages and command lines, 1 run | violation: an error page fetched by curl becomes the certificate |
| `ralf_info` | 3 entries in the directory, every command line and package | `VerifiedAgainstSource` (568 944 states) |
| `ralf_empty_option` | 1 entry | violation: `--cert ""` opens the package unverified |

Why the bounds are enough. `GlLoop` has no counter but the percentage; 0 and 120 are on both sides
of the clamp, and the number of requests and updates is not bounded. In `FireboltApp` there is a
change for each case of the loop's switch and one that has no `AppState`; any of them may come
while any other is handled, and one waits behind it (that the queue keeps the order of longer
bursts is proved, for every length: `QueueInv`). Two events allow one to be live while the other is
cancelled. Two sessions suffice for a shared counter, two frames for one before and one after each
other event. Three calls make one after a failure and one after a timeout. Two iterations and any
number of tests make every hand-over between tests and iterations; two managers are the one the
test uses and one it does not. In `Adpcm` a frame of three payload bytes is short, but each nibble
step depends only on predictor and step index, and the chosen headers and bytes reach both clamps
and both ends of the table.

In `BoltZip` the first file's sizes put the second, large one just before, on and after a boundary,
with paddings of 0, 3 and 4 bytes among them; a third follows. The largest size is above the scaled
range of a 32-bit field, and two large files put an offset and the directory's start above it: each
32-bit field is exceeded in some listings and not in others (a name of 2^16 bytes does not exist).
Two runs of `BoltSign` are one that leaves something behind and one that may find it, three
packages one before and one after a failure.

In `GlSetup` two keymaps are one that replaces the default and one that replaces another; two seats
are the one `AppContext` knows and one it has forgotten. Three directory entries allow a usable
certificate, another of a different kind and one entry to ignore, in each order. In `FireboltApp`
the connection adds no bound.

The type invariants are proved (section 5) and checked by no run.

Deadlock is not checked where the system may stop: after `main` returned, when all sessions are
closed, after the batch, and when nothing moves any more in a loop that waits for the platform.

### Fairness

Threads are scheduled (weak fairness of each thread's steps) and calls that the code makes
return. Nothing is assumed of the user, of the platform's choice of lifecycle states, of a server
or of a websocket client. Two assumptions need more than weak fairness, in `GlLoop`: the main
thread gets `glAppMutex` for `deinit` although the progress thread takes it again and again, and
a poll with something to read is not interrupted by signals for ever. The compositor answers frame
requests. In `AowsServer` expired timers and stream errors are delivered and the `ws` library
ends a close handshake, by its own timeout if the peer does not answer. In `FireboltApp` the
render loop returns once closed: `GlLoop` shows it (`ImplementsContract`, whose fairness contains
it). In `GlSetup` nobody is obliged to close the window or to announce another surface; the shell
sends both events for the application's own surface.

## 4. Disagreements between the code and what is said of it

* `gl_resume_lost`: `gl.h:94` promises that `resume()` switches the loop into active rendering.
  The loop reads the target mode (`gl.cpp:1542`) and then clears `state_transition_pending`
  (`gl.cpp:1544`); a request between the two is forgotten until the next one. The mutex held there
  does not help since the requester does not take it. `SettledRequestApplied` states what does
  hold: a request made while none is pending takes effect.
* `adpcm_same_result`: `aows_test_server.js:151` says that the decoder's difference has the "Same
  result as bit-accumulation form". It is rounded once, that form rounds each term: with step 7 and
  magnitude 7 it is 13 instead of 11, and the predictor carries the error on. `DriftBounded` (proved)
  is how far the two may come apart.
* `ralf_empty_option`: the help of `--verify` says "Automatically enabled if --cert or --cert-dir is
  provided." (`ralfinfo.cpp:249`; so does the comment at 285). The code looks at the values (286): an
  option with an empty value, as from an unset variable in a script, opens the package unverified.
* `bolt_certificate`: `download_file` checks what it fetched and says "Failed to download"
  (`sign_bolt_rdk.sh:124-126`), but curl without `-f` (116) succeeds on an HTTP error and leaves the
  error page, which passes the check. Taken for the certificate, it becomes part of the signature of
  a run that succeeds; taken for the key or a package, it ends the run.

Seen in the code while modelling it, and checked by no run:

* `main.cpp:495` and the log message at 783 defer the cleanup of subscriptions to the shutdown
  phase; `runAutoMode` runs it right after the last method (`main.cpp:522`). The model does as the
  code.
* `wake_for_shutdown` (`main.cpp:180`) leaves its flag set. After a suspend the progress thread does
  not block again and spins until the exit; the window does not come back either, since only
  INITIALIZING_TO_PAUSED creates it and no regular change leads there again. `ProgressTaken` is
  therefore about notifications before the first stop.
* A missing font file ends `main` without `Disconnect` (`main.cpp:667-669`), unlike its other early
  returns. `CheckFont` keeps it; no callback reaches freed state, since only the connection callback
  is registered by then and it owns its promise.
* A change of state without an `AppState`, such as ACTIVE to SUSPENDED, is only warned of
  (`main.cpp:896-900`): the window goes on drawing in the mode it had until a change comes that the
  loop knows.
* An announcement of another client's surface between that of ours and our id leaves the handshake
  waiting (`gl.cpp:1254, 1270`; `overtaken`).
* A second `wl_seat` global takes the place of the first, whose proxy nobody destroys
  (`gl.cpp:1296-1309`); `NothingLeft` allows for it.
* `gl.cpp:1494-1495` cancels a read that a failed `wl_display_read_events` has already ended.
* "Will be unmounted automatically when the program exits" (`ralfinfo.cpp:340`): the mount result is
  local to the block that prints it, so the package is unmounted before the report. Exit code 0 may
  come with the certificates or the auxiliary keys missing from it (394, 438). Exceptions of the
  directory's iterator and its queries are not caught and end the program.

Seen in `sign_bolt_rdk.sh`, kept by the model and checked by no run: the index is
written anew with two entries (551), so that a package signed again loses the reference to its first
signature, although the README's step 6 says that a reference is added; the annotation "we need to
preserve" (518) is taken from the first entry of the index, and lost where the index is one line
that contains a signature; an index without a media type of its own gets that of its first manifest
(506); and packages of one base name in a batch are counted each but share one output (573-597, 879).

## 5. Proofs

Every module of a passing run has one inductive invariant (`IInv`; `DecoderInv`, `ZipInv` and
`SignInv` where two share a proof module) that holds initially and is kept by every step, one lemma
or case per action; the theorems follow from it by temporal logic. The constants are arbitrary
within the ASSUMEs of the modules.

* `GlLoopProof`. The checked invariants are not inductive alone. Four facts are added: where the
  single frame event may be (`FrameEvents`), that a stop arriving while a mode is applied is
  signalled (`StopSignalled`), who holds `glAppMutex` (`Locking`), and how far `stopGlApp` has got
  (`Stopping`). `FrameChain` then rests on `DispatchFrame`: a dispatched frame event takes its
  callback with it and leaves the next frame due. `ContractSafety` maps each step to a step of
  `GlContract` or a stutter; its fairness is checked by TLC only.
* `GlSetupProof`. The invariant says of each stage what must be and what cannot be held there,
  which makes `ParentsOutlive` a matter of `Rank`: when a pointer is the first one left, everything
  made from it is gone. The context's place follows from the stage; the two ids `AppContext` remembers
  from what the shell told and from `overtaken`, hence `HandshakeIsOurs` for either order.
* `FireboltAppProof`. Added: before the loop nothing has been started (`StartInv`); who owns the
  render thread at each place of `stopGlApp` (`RenderInv`); what each join has established
  (`ExitInv`); and which subscriptions may still be live at each place of the deferred cleanup
  (`SubscriptionInv`), where `CleanupAssumption` (every subscribe has an unsubscribeAll among the
  methods) is needed. `RequestFollowsPlatform` rests on the queue and on the window: what was
  announced last is the last in the queue, or was handled last (`QueueInv`), and the state handled
  last decides what the window was asked for (`WindowInv`). Both hold whatever the platform
  announces. While it skips nothing, the waiting states also form a chain from the one handled last
  to the platform's (`ChainInv`), and the window's mode is that of the state handled last
  (`ModeInv`): that is why a dropped repetition loses nothing. `RequestInv` says where the window
  may be closing; with it `ContractStep` maps each step to one of `GlContract` or a stutter
  (`ContractHonoured`). Together with `ContractSafety` of `GlLoopProof` this closes the safety
  argument: `main` is a user as the contract wants it, the render loop serves such a user.
  `ContractNeverBlocks` shows that the composition leaves out nothing.
* `ThunderRequestProof`. Added: a complete transaction is never completed again because its
  handler stops the client (`OneEnd`), only an own result is recorded (`ReceivedIsResult`), and
  success is read from a complete transaction that did not time out (`SuccessIsFinal`). This is why
  `Return` may read `response_data` without the lock.
* `AowsProof`, sessions. Added: a session without a capture has no frames, one that is not closing
  has no close code, and only the close handler ends a capture (`SessionHistory`). `ActiveCount` uses
  the library's theorems on cardinalities.
* `AowsProof`, decoder. For messages of any length and content, any frame and header size, any
  start. `DecoderInv` ties the read index to the write index: after k frames and j payload bytes of
  the next, `outOffset` is four times the payload bytes read, so the last write ends where the
  allocation does (`OutputFitsCorrect`). The same j bounds how far the predictor is from the
  bit-accumulation form: the two differences are at most 2 apart (`DiffNear`, by cases over the
  magnitude's bits), clamping brings two values no further apart (`ClampNear`), and a header sets
  both to one value (`DriftBoundedCorrect`; no run checks it, it measures what `adpcm_same_result`
  shows). `StepRange` and `IndexRange` are facts about the tables of the code.
* `RamtappProof`. Added: a running test is joinable and no test runs before the menu or after the
  destructor's join (`TestIsOwned`); the stop flag is raised only when the menu is left
  (`StopIsLate`); nothing was launched late on the way to a launch (`LaunchInTime`); and what a
  test has launched at each place (`TestHistory`, `WithinIterations`).
* `BoltProof`, archive. `PaddingAligns` is the arithmetic: the padding fits its field and brings
  the data to a boundary for every offset and name. Added to the checked invariants: the notes are
  those of the local headers in order (`Noted`), the directory copies the notes (`Copied`), and
  what the end record was computed from (`EndWritten`). The files lie end to end whatever their
  headers say, and a header tells the truth of a file that fits its fields (`HeaderTells`): so each
  file, offset and count within its field's range is found, beside others that are not. The
  theorems hold for any range.
* `BoltProof`, signing. For any packages, command lines and number of runs in one directory, with a
  failure after any step. Added: what is left of the list is its end (`ListInv`); the extraction
  directory holds the package's blobs and nothing else until the signature's join them
  (`ExtractInv`); each document in work names the one before it, and the identity was reset
  (`ChainInv`); an archive under a final name is torn or one package's own, whichever run wrote it
  (`ArchiveInv`); what was finished is still there or being replaced by a package of its name
  (`FinishedInv`), and a batch has counted it (`CountInv`, on the library's cardinalities).
  `PackagesAssumption` says what a package record is and that the empty URL is none;
  `CallsAssumption` that without `--batch` there is at most one package.
* `RalfInfoProof`. Added: what the bundle holds at each place of the directory's reading (the
  usable certificates among the entries already visited), which makes `VerifiedAgainstSource`
  independent of the order.

Model-checked only: the liveness properties (`LatestShown`, `SettledRequestApplied`, the fairness
part of `ImplementsContract`, `ExitCompletes`, `ProgressTaken`, `BatchEnds`, `SessionEnds`,
`ExitEnds`, that the handshake of `HandshakeCompletes` ends), which are outside the prover's reach,
and the four violations of section 4.

## 6. Not modelled

* What is drawn, glyph metrics and the translation of single keys; the text of logs and prompts.
* The interactive menu of the Firebolt app, which `main.cpp:556` makes unreachable, and the counts
  behind the progress percentage (a report is "changed" or not).
* What each test method asks of Firebolt; the network probe of `PermissionTester`.
* The HTTP part of the voice server, reading `.env`, file names, diagnostic replies.
* The menu entries of ramtapp's managers beyond launch and closure, one plugin call each, and their
  event handlers, which only print.
* The cutting of `BOLT_PACKAGE_URLS` at its semicolons (the list is given cut, empty URLs included);
  the text of the JSON documents that `sign_bolt_rdk.sh` writes, checksums, and failures hidden
  inside a pipeline (`prepare_certificates`, `calc_crc32`).
* The wording of `ralfinfo`'s report; the build files.
* Exceptions thrown by websocketpp inside handlers, and failures of `std::thread` creation.

## 7. Plan

Done: the concurrent core (`GlContract`, `GlLoop`, `FireboltApp`), `GlSetup`, `ThunderRequest`,
`AowsServer`, `Adpcm`, `Ramtapp`, `BoltSign`, `BoltZip`, `RalfInfo`, and the proofs of their safety
properties. What is left, in this order:

1. `Progress`: the counts of `ProgressController` and its reporters. Properties: the shown
   percentage reaches 100 only when all steps reported, whatever order totals and reports come in.
2. `TestModules`: the modules' bookkeeping of subscription identifiers (repeated subscribe, failed
   unsubscribe, the speech identifiers of the text-to-speech module) as an implementation of the
   set of live subscriptions of `FireboltApp`.
