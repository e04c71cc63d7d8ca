------------------------------- MODULE Ramtapp -------------------------------
(***************************************************************************)
(* The app-manager test utility (ramtapp): the construction of its         *)
(* managers, the menu thread, the background launch test of PerfTestMgr    *)
(* and the destruction of both.  The Thunder plugins and the app that the  *)
(* test launches are external.                                             *)
(***************************************************************************)
EXTENDS Naturals

CONSTANTS
  Managers,      \* the names in the registry, in no order
  MaxIterations  \* bound on the iterations the user asks for

ASSUME ManagersAssumption == "AppManager" \in Managers /\ MaxIterations \in Nat

VARIABLES
  plugin,       \* each manager's interface: "unopened", "failed", "open", "released"
  mpc,          \* the main thread
  stop,         \* m_stopPerfTest
  joinable,     \* m_perfTestThread.joinable()
  perf,         \* the launch test: where its thread is
  iterations, i,
  outcome,      \* how the last test ended
  seen,         \* the state getAppState returned
  app,          \* the lifecycle state of the application under test
  unpaired,     \* this test launched the app and has not asked to terminate it
  late          \* launches since the test was told to stop

test     == <<perf, iterations, i, outcome, seen, unpaired, late>>
vars == <<plugin, mpc, stop, joinable, test, app>>

\* What the test tells apart of IAppManager's states.
AppState == {"unknown", "loading", "active", "terminating"}

MainPC == {"construct", "menu", "joinOld", "joinLast", "release", "done"}
PerfPC == {"none", "lookup", "check", "launch", "sleepLaunched", "checkLaunched",
           "terminate", "sleepTerminated", "checkTerminated", "ended"}
Outcome == {"none", "failed", "all", "stopped", "inactive"}

Init ==
  /\ plugin = [m \in Managers |-> "unopened"]
  /\ mpc = "construct" /\ stop = FALSE /\ joinable = FALSE
  /\ perf = "none" /\ iterations = 0 /\ i = 0 /\ outcome = "none"
  /\ seen = "unknown" /\ app = "unknown" /\ unpaired = FALSE /\ late = 0

-----------------------------------------------------------------------------
(* The main thread.                                                        *)

\* createManager: open the plugin, or drop the manager.  The handler it registers
\* with the plugin only prints.
CreateManager(m) ==
  /\ mpc = "construct" /\ plugin[m] = "unopened"
  /\ \/ plugin' = [plugin EXCEPT ![m] = "open"]
     \/ plugin' = [plugin EXCEPT ![m] = "failed"]
  /\ UNCHANGED <<mpc, stop, joinable, test, app>>

Constructed ==
  /\ mpc = "construct" /\ \A m \in Managers : plugin[m] # "unopened"
  /\ mpc' = "menu"
  /\ UNCHANGED <<plugin, stop, joinable, test, app>>

\* The test thread is assigned: iterations is what the user typed, which may be 0.
StartTest(n) ==
  /\ joinable' = TRUE
  /\ perf' = "lookup" /\ iterations' = n /\ i' = 0
  /\ outcome' = "none" /\ unpaired' = FALSE /\ late' = 0

\* handleAppLifeCycleRequest: the first test, or stop the one before ...
RequestTest(n) ==
  /\ mpc = "menu"
  /\ IF joinable
       THEN /\ stop' = TRUE /\ mpc' = "joinOld"
            /\ UNCHANGED <<joinable, test>>
       ELSE /\ StartTest(n)
            /\ UNCHANGED <<mpc, stop, seen>>
  /\ UNCHANGED <<plugin, app>>

\* Mutant: the flag is not reset.
JoinOld_KeepsStop(n) ==
  /\ mpc = "joinOld" /\ perf = "ended"
  /\ UNCHANGED stop
  /\ StartTest(n)
  /\ mpc' = "menu"
  /\ UNCHANGED <<plugin, seen, app>>

\* ... join it, reset the flag and start the new one.
JoinOld(n) ==
  /\ mpc = "joinOld" /\ perf = "ended"
  /\ stop' = FALSE
  /\ StartTest(n)
  /\ mpc' = "menu"
  /\ UNCHANGED <<plugin, seen, app>>

\* The App Manager menu, open while a test runs: launch, and close, terminate or kill.
UserLaunch ==
  /\ mpc = "menu" /\ plugin["AppManager"] = "open"
  /\ app' = IF app = "unknown" THEN "loading" ELSE app
  /\ UNCHANGED <<plugin, mpc, stop, joinable, test>>

UserTerminate ==
  /\ mpc = "menu" /\ plugin["AppManager"] = "open"
  /\ app # "unknown" /\ app' = "terminating"
  /\ UNCHANGED <<plugin, mpc, stop, joinable, test>>

\* Mutant: the managers are destroyed before the test is stopped and joined.
Exit_ReleasesFirst ==
  /\ mpc = "menu"
  /\ stop' = TRUE /\ mpc' = "release"
  /\ UNCHANGED <<plugin, joinable, test, app>>

\* Exit from the main menu; ~PerfTestMgr runs before ~ManagerRegistry.
Exit ==
  /\ mpc = "menu"
  /\ stop' = TRUE /\ mpc' = "joinLast"
  /\ UNCHANGED <<plugin, joinable, test, app>>

JoinLast ==
  /\ mpc = "joinLast"
  /\ joinable => perf = "ended"
  /\ joinable' = FALSE
  /\ mpc' = "release"
  /\ UNCHANGED <<plugin, stop, test, app>>

\* A manager's destructor releases the interface.
ReleaseManager(m) ==
  /\ mpc = "release" /\ plugin[m] = "open"
  /\ plugin' = [plugin EXCEPT ![m] = "released"]
  /\ UNCHANGED <<mpc, stop, joinable, test, app>>

Destroyed ==
  /\ mpc = "release" /\ \A m \in Managers : plugin[m] # "open"
  /\ mpc' = "done"
  /\ UNCHANGED <<plugin, stop, joinable, test, app>>

Joins == (\E n \in 0..MaxIterations : JoinOld(n)) \/ JoinLast
Destruction == (\E m \in Managers : ReleaseManager(m)) \/ Destroyed

Main == \/ \E m \in Managers : CreateManager(m)
        \/ \E n \in 0..MaxIterations : RequestTest(n)
        \/ Constructed \/ UserLaunch \/ UserTerminate \/ Exit
        \/ Joins \/ Destruction

-----------------------------------------------------------------------------
(* The test thread: handleAppLaunchTestRequest.                            *)

mainVars == <<plugin, mpc, stop, joinable>>

End(o) == perf' = "ended" /\ outcome' = o

Lookup ==
  /\ perf = "lookup"
  /\ IF plugin["AppManager"] = "open"
       THEN perf' = "check" /\ UNCHANGED outcome
       ELSE End("failed")
  /\ UNCHANGED <<mainVars, iterations, i, seen, unpaired, late, app>>

\* Head of the loop.
Check ==
  /\ perf = "check"
  /\ CASE i >= iterations -> End("all")
       [] ~(i >= iterations) /\ stop -> End("stopped")
       [] ~(i >= iterations) /\ ~stop -> perf' = "launch" /\ UNCHANGED outcome
  /\ UNCHANGED <<mainVars, iterations, i, seen, unpaired, late, app>>

\* LaunchApp, which may fail; an app that is loaded stays as it is.
Launch ==
  /\ perf = "launch"
  /\ \/ End("failed") /\ UNCHANGED <<app, unpaired, late>>
     \/ /\ perf' = "sleepLaunched" /\ unpaired' = TRUE
        /\ late' = IF stop THEN late + 1 ELSE 0
        /\ app' = IF app = "unknown" THEN "loading" ELSE app
        /\ UNCHANGED outcome
  /\ UNCHANGED <<mainVars, iterations, i, seen>>

\* getAppState after a pause; "unknown" also when GetLoadedApps fails.
GetAppState(here, next) ==
  /\ perf = here /\ perf' = next
  /\ seen' \in {app, "unknown"}
  /\ UNCHANGED <<mainVars, iterations, i, outcome, unpaired, late, app>>

\* Mutant: an app that is not active is taken as launched, and left alone.
CheckLaunched_Goes_On ==
  /\ perf = "checkLaunched"
  /\ IF seen = "active" THEN perf' = "terminate" /\ UNCHANGED <<i, outcome>>
                        ELSE perf' = "check" /\ i' = i + 1 /\ UNCHANGED outcome
  /\ UNCHANGED <<mainVars, iterations, seen, unpaired, late, app>>

CheckLaunched ==
  /\ perf = "checkLaunched"
  /\ IF seen = "active" THEN perf' = "terminate" /\ UNCHANGED outcome
                        ELSE End("inactive")
  /\ UNCHANGED <<mainVars, iterations, i, seen, unpaired, late, app>>

Terminate ==
  /\ perf = "terminate"
  /\ \/ End("failed") /\ UNCHANGED <<app, unpaired>>
     \/ /\ perf' = "sleepTerminated" /\ unpaired' = FALSE
        /\ app' = IF app = "unknown" THEN app ELSE "terminating"
        /\ UNCHANGED outcome
  /\ UNCHANGED <<mainVars, iterations, i, seen, late>>

\* Mutant: an app that is still there is waited for.
CheckTerminated_Waits ==
  /\ perf = "checkTerminated"
  /\ IF seen = "unknown" THEN perf' = "check" /\ i' = i + 1 /\ UNCHANGED outcome
                         ELSE perf' = "sleepTerminated" /\ UNCHANGED <<i, outcome>>
  /\ UNCHANGED <<mainVars, iterations, seen, unpaired, late, app>>

CheckTerminated ==
  /\ perf = "checkTerminated"
  /\ IF seen = "unknown" THEN perf' = "check" /\ i' = i + 1 /\ UNCHANGED outcome
                         ELSE End("failed") /\ UNCHANGED i
  /\ UNCHANGED <<mainVars, iterations, seen, unpaired, late, app>>

Test == \/ Lookup \/ Check \/ Launch
        \/ GetAppState("sleepLaunched", "checkLaunched") \/ CheckLaunched
        \/ Terminate
        \/ GetAppState("sleepTerminated", "checkTerminated") \/ CheckTerminated

-----------------------------------------------------------------------------
\* The app manager moves the app on, or loses it.
AppMoves ==
  /\ \E a \in {"active", "unknown"} :
       /\ <<app, a>> \in {<<"loading", "active">>, <<"loading", "unknown">>,
                          <<"active", "unknown">>, <<"terminating", "unknown">>}
       /\ app' = a
  /\ UNCHANGED <<plugin, mpc, stop, joinable, test>>

Next == Main \/ Test \/ AppMoves

\* Plugin calls return and sleeps end; a join or a destructor that has been
\* reached is carried out.
Fairness == WF_vars(Test) /\ WF_vars(Joins) /\ WF_vars(Destruction)

Spec == Init /\ [][Next]_vars /\ Fairness

-----------------------------------------------------------------------------
(* Properties.                                                             *)

\* Every variable has its type, and a test runs no more iterations than asked for.
TypeOK ==
  /\ plugin \in [Managers -> {"unopened", "failed", "open", "released"}]
  /\ mpc \in MainPC /\ perf \in PerfPC /\ outcome \in Outcome
  /\ {stop, joinable, unpaired} \subseteq BOOLEAN
  /\ iterations \in 0..MaxIterations /\ i \in 0..iterations
  /\ {seen, app} \subseteq AppState
  /\ late \in Nat

InTest == perf \notin {"none", "ended"}

\* A test that has been told to stop launches the app at most once more: in the
\* iteration whose check came before the stop.
OneLateLaunch == late <= 1

\* The test thread calls the app manager only while its interface is open: the
\* members of Application are destroyed in the order that joins it first.
NoUseAfterRelease ==
  InTest /\ perf # "lookup" => plugin["AppManager"] = "open"

\* A running test is told to stop only by a main thread that waits for it: the
\* stop of one test never reaches the next.
StopIsForThisTest == InTest /\ stop => mpc \in {"joinOld", "joinLast"}

\* A stop reaches the test it was meant for, in time, and no other.
StopReachesItsTest == StopIsForThisTest /\ OneLateLaunch

\* A test that ends after all its iterations, or because it was stopped, has asked
\* to terminate every app it launched.
LaunchesPaired == outcome \in {"all", "stopped"} => ~unpaired

\* The exit, which joins a running test, comes to its end: the test sees its stop
\* after a bounded number of calls.
ExitEnds == (mpc = "joinLast") ~> (mpc = "done")
=============================================================================
