------------------------------ MODULE RamtappProof ------------------------------
(***************************************************************************)
(* Proofs about Ramtapp for any set of managers and any number of          *)
(* iterations.  One inductive invariant: the checked invariants, and what  *)
(* ties the stop flag, the join and the place of the test thread together. *)
(***************************************************************************)
EXTENDS Ramtapp, TLAPS

\* Managers are opened once, before the menu.
AllTried == mpc # "construct" => \A m \in Managers : plugin[m] # "unopened"

\* A running test is joinable, and runs only between the construction of the
\* managers and the join of the destructor.
TestIsOwned ==
  /\ InTest => joinable
  /\ mpc \in {"construct", "release", "done"} => ~InTest

\* The flag is raised only by a main thread that leaves the menu.
StopIsLate == mpc \in {"construct", "menu"} => ~stop

\* Nothing has been launched too late before the stop, nor on the way to a launch.
LaunchInTime == (perf = "launch" \/ ~stop) => late = 0

\* A test has no outcome before its end; it has launched an app and not asked to
\* terminate it only between the two calls.
TestHistory ==
  /\ InTest => outcome = "none"
  /\ unpaired => perf \notin {"none", "lookup", "check", "launch",
                              "sleepTerminated", "checkTerminated"}

\* An iteration that has begun is one of those asked for.
WithinIterations == InTest /\ perf \notin {"lookup", "check"} => i < iterations

IInv ==
  /\ TypeOK /\ WithinIterations /\ AllTried
  /\ TestIsOwned /\ StopIsLate /\ StopIsForThisTest /\ NoUseAfterRelease
  /\ LaunchInTime /\ OneLateLaunch /\ TestHistory /\ LaunchesPaired

-----------------------------------------------------------------------------
\* Initially there is no interface and no test.
LEMMA InitIInv == Init => IInv
<1> SUFFICES ASSUME Init PROVE IInv
  OBVIOUS
<1>1. TypeOK
  <2>1. {stop, joinable, unpaired} \subseteq BOOLEAN
    BY DEF Init
  <2>2. iterations \in 0..MaxIterations /\ i \in 0..iterations /\ late \in Nat
    BY ManagersAssumption DEF Init
  <2>3. plugin \in [Managers -> {"unopened", "failed", "open", "released"}]
    BY DEF Init
  <2>4. mpc \in MainPC /\ perf \in PerfPC /\ outcome \in Outcome
        /\ {seen, app} \subseteq AppState
    BY DEF Init, MainPC, PerfPC, Outcome, AppState
  <2>5. QED
    BY <2>1, <2>2, <2>3, <2>4 DEF TypeOK
<1>2. AllTried
  BY DEF Init, AllTried
<1>3. TestIsOwned /\ StopIsLate /\ StopIsForThisTest /\ NoUseAfterRelease
  BY DEF Init, TestIsOwned, StopIsLate, StopIsForThisTest, NoUseAfterRelease, InTest
<1>4. WithinIterations /\ LaunchInTime /\ OneLateLaunch /\ TestHistory /\ LaunchesPaired
  BY DEF Init, WithinIterations, LaunchInTime, OneLateLaunch, TestHistory, LaunchesPaired, InTest
<1>5. QED
  BY <1>1, <1>2, <1>3, <1>4 DEF IInv

\* Every step keeps the types; a test counts up to its iterations.
LEMMA TypeStep ==
  ASSUME TypeOK, WithinIterations, Next
  PROVE  TypeOK'
<1> USE DEF TypeOK, MainPC, PerfPC, Outcome, AppState
<1>0. i \in Nat /\ iterations \in Nat /\ late \in Nat
  BY ManagersAssumption
<1>1. CASE \E m \in Managers : CreateManager(m)
  BY <1>1 DEF CreateManager, test
<1>2. CASE Constructed
  BY <1>2 DEF Constructed, test
<1>3. CASE \E n \in 0..MaxIterations : RequestTest(n)
  <2>1. iterations' \in 0..MaxIterations /\ i' \in 0..iterations' /\ late' \in Nat
    BY <1>3, ManagersAssumption DEF RequestTest, StartTest, test
  <2>2. {stop', joinable', unpaired'} \subseteq BOOLEAN
    BY <1>3 DEF RequestTest, StartTest, test
  <2>3. mpc' \in MainPC /\ perf' \in PerfPC /\ outcome' \in Outcome
    BY <1>3 DEF RequestTest, StartTest, test
  <2>4. UNCHANGED <<plugin, seen, app>>
    BY <1>3 DEF RequestTest, test
  <2>5. QED
    BY <2>1, <2>2, <2>3, <2>4
<1>4. CASE \E n \in 0..MaxIterations : JoinOld(n)
  <2>1. iterations' \in 0..MaxIterations /\ i' \in 0..iterations' /\ late' \in Nat
    BY <1>4, ManagersAssumption DEF JoinOld, StartTest
  <2>2. {stop', joinable', unpaired'} \subseteq BOOLEAN
    BY <1>4 DEF JoinOld, StartTest
  <2>3. mpc' \in MainPC /\ perf' \in PerfPC /\ outcome' \in Outcome
    BY <1>4 DEF JoinOld, StartTest
  <2>4. UNCHANGED <<plugin, seen, app>>
    BY <1>4 DEF JoinOld
  <2>5. QED
    BY <2>1, <2>2, <2>3, <2>4
<1>5. CASE UserLaunch \/ UserTerminate
  BY <1>5 DEF UserLaunch, UserTerminate, test
<1>6. CASE Exit
  BY <1>6 DEF Exit, test
<1>7. CASE JoinLast
  BY <1>7 DEF JoinLast, test
<1>8. CASE \E m \in Managers : ReleaseManager(m)
  BY <1>8 DEF ReleaseManager, test
<1>9. CASE Destroyed
  BY <1>9 DEF Destroyed, test
<1>10. CASE Lookup
  BY <1>10 DEF Lookup, End, mainVars
<1>11. CASE Check
  BY <1>11, ManagersAssumption DEF Check, End, mainVars
<1>12. CASE Launch
  <2>1. late' \in Nat
    BY <1>0, <1>12 DEF Launch
  <2>2. unpaired' \in BOOLEAN
    BY <1>12 DEF Launch
  <2>3. perf' \in PerfPC /\ outcome' \in Outcome /\ app' \in AppState
    BY <1>12 DEF Launch, End
  <2>4. UNCHANGED <<plugin, mpc, stop, joinable, iterations, i, seen>>
    BY <1>12 DEF Launch, mainVars
  <2>5. QED
    BY <2>1, <2>2, <2>3, <2>4
<1>13. CASE GetAppState("sleepLaunched", "checkLaunched")
          \/ GetAppState("sleepTerminated", "checkTerminated")
  BY <1>13 DEF GetAppState, mainVars
<1>14. CASE CheckLaunched
  BY <1>14 DEF CheckLaunched, End, mainVars
<1>15. CASE Terminate
  BY <1>15 DEF Terminate, End, mainVars
<1>16. CASE CheckTerminated
  <2>1. UNCHANGED <<plugin, mpc, stop, joinable, iterations, seen, unpaired,
                    late, app>>
    BY <1>16 DEF CheckTerminated, mainVars
  <2>2. perf' \in PerfPC /\ outcome' \in Outcome
    BY <1>16 DEF CheckTerminated, End
  <2>3. i' \in 0..iterations
    BY <1>0, <1>16 DEF CheckTerminated, WithinIterations, InTest
  <2>4. QED
    BY <2>1, <2>2, <2>3
<1>17. CASE AppMoves
  BY <1>17 DEF AppMoves, test
<1>18. QED
  BY <1>1, <1>2, <1>3, <1>4, <1>5, <1>6, <1>7, <1>8, <1>9, <1>10, <1>11, <1>12, <1>13,
     <1>14, <1>15, <1>16, <1>17
  DEF Next, Main, Joins, Destruction, Test

\* The head of the loop starts only iterations that were asked for.
LEMMA IterationStep ==
  ASSUME TypeOK, WithinIterations, Next
  PROVE  WithinIterations'
<1> USE DEF WithinIterations, InTest
<1>1. i \in Nat /\ iterations \in Nat
  BY ManagersAssumption DEF TypeOK
<1>2. CASE \E n \in 0..MaxIterations : RequestTest(n) \/ JoinOld(n)
  BY <1>2 DEF RequestTest, JoinOld, StartTest, test
<1>3. CASE Lookup \/ Check
  <2>1. CASE Lookup
    BY <2>1 DEF Lookup, End
  <2>2. CASE Check /\ i >= iterations
    BY <2>2 DEF Check, End
  <2>3. CASE Check /\ ~(i >= iterations)
    <3>1. i < iterations
      BY <1>1, <2>3
    <3>2. UNCHANGED <<i, iterations>>
      BY <2>3 DEF Check
    <3>3. QED
      BY <3>1, <3>2
  <2>4. QED
    BY <1>3, <2>1, <2>2, <2>3
<1>4. CASE Launch \/ CheckLaunched \/ Terminate
  BY <1>4 DEF Launch, CheckLaunched, Terminate, End
<1>5. CASE CheckTerminated
  BY <1>5 DEF CheckTerminated, End
<1>6. CASE GetAppState("sleepLaunched", "checkLaunched")
           \/ GetAppState("sleepTerminated", "checkTerminated")
  BY <1>6 DEF GetAppState
<1>7. CASE UNCHANGED test
  BY <1>7 DEF test
<1>8. CASE Constructed \/ UserLaunch \/ UserTerminate \/ Exit \/ JoinLast \/ Destroyed
  BY <1>7, <1>8 DEF Constructed, UserLaunch, UserTerminate, Exit, JoinLast, Destroyed
<1>9. CASE AppMoves \/ \E m \in Managers : CreateManager(m) \/ ReleaseManager(m)
  BY <1>7, <1>9 DEF AppMoves, CreateManager, ReleaseManager
<1>10. QED
  BY <1>2, <1>3, <1>4, <1>5, <1>6, <1>8, <1>9 DEF Next, Main, Joins, Destruction, Test

\* Every manager has been tried when the menu comes.
LEMMA ManagerStep ==
  ASSUME TypeOK, AllTried, Next
  PROVE  AllTried'
<1> USE DEF TypeOK, AllTried
<1>1. CASE \E m \in Managers : CreateManager(m)
  BY <1>1 DEF CreateManager, test
<1>2. CASE Constructed
  BY <1>2 DEF Constructed, test
<1>3. CASE \E n \in 0..MaxIterations : RequestTest(n)
  BY <1>3, ManagersAssumption DEF RequestTest, StartTest, test
<1>4. CASE \E n \in 0..MaxIterations : JoinOld(n)
  BY <1>4, ManagersAssumption DEF JoinOld, StartTest
<1>5. CASE UserLaunch \/ UserTerminate
  BY <1>5 DEF UserLaunch, UserTerminate, test
<1>6. CASE Exit
  BY <1>6 DEF Exit, test
<1>7. CASE JoinLast
  BY <1>7 DEF JoinLast, test
<1>8. CASE \E m \in Managers : ReleaseManager(m)
  BY <1>8 DEF ReleaseManager, test
<1>9. CASE Destroyed
  BY <1>9 DEF Destroyed, test
<1>10. CASE Lookup
  BY <1>10 DEF Lookup, End, mainVars
<1>11. CASE Check
  BY <1>11, ManagersAssumption DEF Check, End, mainVars
<1>12. CASE Launch
  BY <1>12 DEF Launch, End, mainVars
<1>13. CASE GetAppState("sleepLaunched", "checkLaunched")
          \/ GetAppState("sleepTerminated", "checkTerminated")
  BY <1>13 DEF GetAppState, mainVars
<1>14. CASE CheckLaunched
  BY <1>14 DEF CheckLaunched, End, mainVars
<1>15. CASE Terminate
  BY <1>15 DEF Terminate, End, mainVars
<1>16. CASE CheckTerminated
  BY <1>16, ManagersAssumption DEF CheckTerminated, End, mainVars
<1>17. CASE AppMoves
  BY <1>17 DEF AppMoves, test
<1>18. QED
  BY <1>1, <1>2, <1>3, <1>4, <1>5, <1>6, <1>7, <1>8, <1>9, <1>10, <1>11, <1>12, <1>13,
     <1>14, <1>15, <1>16, <1>17
  DEF Next, Main, Joins, Destruction, Test

\* The test is joined before its interface is released, and its stop flag is reset
\* before the next test starts.
LEMMA StopStep ==
  ASSUME TypeOK, TestIsOwned, StopIsLate, StopIsForThisTest, NoUseAfterRelease, Next
  PROVE  TestIsOwned' /\ StopIsLate' /\ StopIsForThisTest' /\ NoUseAfterRelease'
<1> USE DEF TypeOK, TestIsOwned, StopIsLate, StopIsForThisTest, NoUseAfterRelease, InTest
<1>1. CASE \E m \in Managers : CreateManager(m)
  BY <1>1 DEF CreateManager, test
<1>2. CASE Constructed
  BY <1>2 DEF Constructed, test
<1>3. CASE \E n \in 0..MaxIterations : RequestTest(n)
  BY <1>3, ManagersAssumption DEF RequestTest, StartTest, test
<1>4. CASE \E n \in 0..MaxIterations : JoinOld(n)
  BY <1>4, ManagersAssumption DEF JoinOld, StartTest
<1>5. CASE UserLaunch \/ UserTerminate
  BY <1>5 DEF UserLaunch, UserTerminate, test
<1>6. CASE Exit
  BY <1>6 DEF Exit, test
<1>7. CASE JoinLast
  BY <1>7 DEF JoinLast, test
<1>8. CASE \E m \in Managers : ReleaseManager(m)
  BY <1>8 DEF ReleaseManager, test
<1>9. CASE Destroyed
  BY <1>9 DEF Destroyed, test
<1>10. CASE Lookup
  BY <1>10 DEF Lookup, End, mainVars
<1>11. CASE Check
  BY <1>11, ManagersAssumption DEF Check, End, mainVars
<1>12. CASE Launch
  BY <1>12 DEF Launch, End, mainVars
<1>13. CASE GetAppState("sleepLaunched", "checkLaunched")
          \/ GetAppState("sleepTerminated", "checkTerminated")
  BY <1>13 DEF GetAppState, mainVars
<1>14. CASE CheckLaunched
  BY <1>14 DEF CheckLaunched, End, mainVars
<1>15. CASE Terminate
  BY <1>15 DEF Terminate, End, mainVars
<1>16. CASE CheckTerminated
  BY <1>16, ManagersAssumption DEF CheckTerminated, End, mainVars
<1>17. CASE AppMoves
  BY <1>17 DEF AppMoves, test
<1>18. QED
  BY <1>1, <1>2, <1>3, <1>4, <1>5, <1>6, <1>7, <1>8, <1>9, <1>10, <1>11, <1>12, <1>13,
     <1>14, <1>15, <1>16, <1>17
  DEF Next, Main, Joins, Destruction, Test

\* A launch comes after a check of the flag and before a call to terminate.
LEMMA LaunchStep ==
  ASSUME TypeOK, LaunchInTime, OneLateLaunch, TestHistory, LaunchesPaired, Next
  PROVE  LaunchInTime' /\ OneLateLaunch' /\ TestHistory' /\ LaunchesPaired'
<1> USE DEF TypeOK, LaunchInTime, OneLateLaunch, TestHistory, LaunchesPaired, InTest
<1>1. CASE \E m \in Managers : CreateManager(m)
  BY <1>1 DEF CreateManager, test
<1>2. CASE Constructed
  BY <1>2 DEF Constructed, test
<1>3. CASE \E n \in 0..MaxIterations : RequestTest(n)
  BY <1>3, ManagersAssumption DEF RequestTest, StartTest, test
<1>4. CASE \E n \in 0..MaxIterations : JoinOld(n)
  BY <1>4, ManagersAssumption DEF JoinOld, StartTest
<1>5. CASE UserLaunch \/ UserTerminate
  BY <1>5 DEF UserLaunch, UserTerminate, test
<1>6. CASE Exit
  BY <1>6 DEF Exit, test
<1>7. CASE JoinLast
  BY <1>7 DEF JoinLast, test
<1>8. CASE \E m \in Managers : ReleaseManager(m)
  BY <1>8 DEF ReleaseManager, test
<1>9. CASE Destroyed
  BY <1>9 DEF Destroyed, test
<1>10. CASE Lookup
  BY <1>10 DEF Lookup, End, mainVars
<1>11. CASE Check
  BY <1>11, ManagersAssumption DEF Check, End, mainVars
<1>12. CASE Launch
  BY <1>12 DEF Launch, End, mainVars
<1>13. CASE GetAppState("sleepLaunched", "checkLaunched")
          \/ GetAppState("sleepTerminated", "checkTerminated")
  BY <1>13 DEF GetAppState, mainVars
<1>14. CASE CheckLaunched
  BY <1>14 DEF CheckLaunched, End, mainVars
<1>15. CASE Terminate
  BY <1>15 DEF Terminate, End, mainVars
<1>16. CASE CheckTerminated
  BY <1>16, ManagersAssumption DEF CheckTerminated, End, mainVars
<1>17. CASE AppMoves
  BY <1>17 DEF AppMoves, test
<1>18. QED
  BY <1>1, <1>2, <1>3, <1>4, <1>5, <1>6, <1>7, <1>8, <1>9, <1>10, <1>11, <1>12, <1>13,
     <1>14, <1>15, <1>16, <1>17
  DEF Next, Main, Joins, Destruction, Test

\* A step that changes nothing keeps everything.
LEMMA StutterStep == IInv /\ UNCHANGED vars => IInv'
<1> SUFFICES ASSUME IInv, UNCHANGED vars PROVE IInv'
  OBVIOUS
<1> USE DEF IInv, vars, test
<1>1. TypeOK' /\ WithinIterations' /\ AllTried'
  BY DEF TypeOK, WithinIterations, InTest, AllTried
<1>2. TestIsOwned' /\ StopIsLate' /\ StopIsForThisTest' /\ NoUseAfterRelease'
  BY DEF TestIsOwned, StopIsLate, StopIsForThisTest, NoUseAfterRelease, InTest
<1>3. LaunchInTime' /\ OneLateLaunch' /\ TestHistory' /\ LaunchesPaired'
  BY DEF LaunchInTime, OneLateLaunch, TestHistory, LaunchesPaired, InTest
<1>4. QED
  BY <1>1, <1>2, <1>3

\* The invariant of every reachable state.
THEOREM Invariance == Spec => []IInv
<1>1. IInv /\ [Next]_vars => IInv'
  <2>1. ASSUME IInv, Next PROVE IInv'
    BY <2>1, TypeStep, IterationStep, ManagerStep, StopStep, LaunchStep DEF IInv
  <2>2. QED
    BY <2>1, StutterStep
<1>2. QED
  BY InitIInv, <1>1, PTL DEF Spec

-----------------------------------------------------------------------------
\* Every variable keeps its type, and no test runs more iterations than asked for.
THEOREM TypeCorrect == Spec => []TypeOK
BY Invariance, PTL DEF IInv

\* A test that was told to stop launches the app at most once more.
THEOREM OneLateLaunchCorrect == Spec => []OneLateLaunch
BY Invariance, PTL DEF IInv

\* The test thread never uses a released app-manager interface.
THEOREM NoUseAfterReleaseCorrect == Spec => []NoUseAfterRelease
BY Invariance, PTL DEF IInv

\* The stop meant for one test never reaches the next.
THEOREM StopIsForThisTestCorrect == Spec => []StopIsForThisTest
BY Invariance, PTL DEF IInv

\* A stop reaches the running test in time, and no other test.
THEOREM StopReachesItsTestCorrect == Spec => []StopReachesItsTest
BY Invariance, PTL DEF IInv, StopReachesItsTest

\* Complete and stopped tests leave no launched app behind.
THEOREM LaunchesPairedCorrect == Spec => []LaunchesPaired
BY Invariance, PTL DEF IInv
=============================================================================
