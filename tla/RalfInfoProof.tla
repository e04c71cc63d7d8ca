--------------------------- MODULE RalfInfoProof ---------------------------
(***************************************************************************)
(* Proofs about RalfInfo, for any directory of certificates.  The          *)
(* invariant says, phase by phase, what the bundle holds: while the        *)
(* directory is read, the usable ones of the entries already visited.      *)
(***************************************************************************)
EXTENDS RalfInfo, TLAPS

Usable == {f \in Files : Counts(dir[f])}

BundleInv ==
    /\ phase \in {"options", "certificates"} => bundle = {}
    /\ phase = "certificates" => Verify
    /\ phase = "directory" => /\ Verify /\ ~Given(options.cert)
                              /\ bundle = Usable \ toRead
    /\ phase \in {"open", "opened", "report"} /\ Verify => bundle = Source /\ bundle # {}

OpenedInv ==
    /\ phase \in {"options", "certificates", "directory", "open"} => opened = "no"
    /\ phase \in {"opened", "report"} => opened # "no"
    /\ opened = "verified" => /\ Verify /\ bundle = Source /\ bundle # {}
                              /\ package.signer \in bundle
    /\ opened = "unverified" => ~Verify

ExitInv ==
    /\ phase # "done" <=> exit = "running"
    /\ mounted => phase = "opened" /\ ~options.raw

IInv == TypeOK /\ BundleInv /\ OpenedInv /\ ExitInv

-----------------------------------------------------------------------------
\* Before the options are parsed nothing was read, opened or printed.
LEMMA InitInvariant == Init => IInv
  <1> SUFFICES ASSUME Init PROVE IInv
    OBVIOUS
  <1>1. NotOpened \in Packages
    BY DEF NotOpened, Packages
  <1>2. TypeOK
    BY <1>1 DEF Init, TypeOK, Kinds
  <1>3. BundleInv /\ OpenedInv /\ ExitInv
    BY DEF Init, BundleInv, OpenedInv, ExitInv
  <1> QED
    BY <1>2, <1>3 DEF IInv

\* Every action keeps the types.
LEMMA NextType == TypeOK /\ [Next]_vars => TypeOK'
  <1> SUFFICES ASSUME TypeOK, [Next]_vars PROVE TypeOK'
    OBVIOUS
  <1> USE DEF TypeOK
  <1>1. CASE StopAtOptions \/ AcceptOptions \/ LoadFromFile \/ NoSource
    BY <1>1 DEF StopAtOptions, AcceptOptions, LoadFromFile, NoSource, Exit, Fail, Proceed
  <1>2. CASE OpenDirectory
    BY <1>2 DEF OpenDirectory, Exit, Fail, Proceed
  <1>3. CASE ReadEntry \/ DirectoryRead
    BY <1>3 DEF ReadEntry, DirectoryRead, Exit, Fail, Proceed
  <1>4. CASE OpenPackage
    BY <1>4 DEF OpenPackage, Fail, Exit, Proceed
  <1>5. CASE PrintRaw \/ Mount \/ AfterMount
    BY <1>5 DEF PrintRaw, Mount, AfterMount, Fail, Exit, Proceed
  <1>6. CASE Report
    <2>1. Sections \subseteq Optional \cup Always
      BY DEF Sections, Packages
    <2> QED
      BY <1>6, <2>1 DEF Report, Separate, Exit
  <1>7. CASE Done \/ UNCHANGED vars
    BY <1>7 DEF Done, vars
  <1> QED
    BY <1>1, <1>2, <1>3, <1>4, <1>5, <1>6, <1>7 DEF Next

\* What the bundle holds while it is filled and after.
LEMMA NextBundle == IInv /\ [Next]_vars => BundleInv'
  <1> SUFFICES ASSUME IInv, [Next]_vars PROVE BundleInv'
    OBVIOUS
  <1> USE DEF IInv, BundleInv, Verify, Given, Source, Usable, Counts
  <1>1. CASE StopAtOptions \/ NoSource
    BY <1>1 DEF StopAtOptions, NoSource, Exit, Fail
  <1>2. CASE AcceptOptions
    BY <1>2 DEF AcceptOptions, Proceed
  <1>3. CASE LoadFromFile
    BY <1>3 DEF LoadFromFile, Exit, Fail, Proceed
  <1>4. CASE OpenDirectory
    BY <1>4 DEF OpenDirectory, Exit, Fail, Proceed
  <1>5. CASE ReadEntry
    <2>1. CASE Exit("directory", "terminate")
      BY <2>1 DEF Exit
    <2>2. ASSUME NEW f \in toRead, Proceed("directory", "directory"),
                 toRead' = toRead \ {f},
                 bundle' = IF Counts(dir[f]) THEN bundle \cup {f} ELSE bundle,
                 dir' = dir
          PROVE BundleInv'
      <3>1. f \in Files
        BY DEF TypeOK
      <3>2. phase = "directory" /\ phase' = "directory" /\ options' = options
        BY <2>2 DEF Proceed
      <3>3. bundle' = Usable \ toRead'
        BY <2>2, <3>1, <3>2
      <3> QED
        BY <2>2, <3>2, <3>3
    <2> QED
      BY <1>5, <2>1, <2>2 DEF ReadEntry
  <1>6. CASE DirectoryRead
    BY <1>6 DEF DirectoryRead, Exit, Fail, Proceed
  <1>7. CASE OpenPackage \/ PrintRaw \/ Mount \/ AfterMount \/ Report
    BY <1>7 DEF OpenPackage, PrintRaw, Mount, AfterMount, Report, Exit, Fail, Proceed
  <1>8. CASE Done \/ UNCHANGED vars
    BY <1>8 DEF Done, vars
  <1> QED
    BY <1>1, <1>2, <1>3, <1>4, <1>5, <1>6, <1>7, <1>8 DEF Next

\* How the package was opened, and against what.
LEMMA NextOpened == IInv /\ [Next]_vars => OpenedInv'
  <1> SUFFICES ASSUME IInv, [Next]_vars PROVE OpenedInv'
    OBVIOUS
  <1> USE DEF IInv, OpenedInv, Verify, Given, Source
  <1>1. CASE OpenPackage
    BY <1>1 DEF OpenPackage, BundleInv, Exit, Fail, Proceed
  <1>2. CASE PrintRaw \/ Mount \/ AfterMount \/ Report
    BY <1>2 DEF PrintRaw, Mount, AfterMount, Report, Exit, Fail, Proceed
  <1>3. CASE \/ StopAtOptions \/ AcceptOptions \/ LoadFromFile \/ NoSource \/ OpenDirectory
             \/ ReadEntry \/ DirectoryRead
    <2>1. opened = "no" /\ opened' = "no" /\ phase' \notin {"opened", "report"}
      BY <1>3 DEF StopAtOptions, AcceptOptions, LoadFromFile, NoSource, OpenDirectory,
                  ReadEntry, DirectoryRead, Exit, Fail, Proceed
    <2> QED
      BY <2>1
  <1>4. CASE Done \/ UNCHANGED vars
    BY <1>4 DEF Done, vars
  <1> QED
    BY <1>1, <1>2, <1>3, <1>4 DEF Next

\* How the program ends.
LEMMA NextExit == IInv /\ [Next]_vars => ExitInv'
  <1> SUFFICES ASSUME IInv, [Next]_vars PROVE ExitInv'
    OBVIOUS
  <1> USE DEF IInv, ExitInv
  <1>1. CASE StopAtOptions \/ AcceptOptions \/ LoadFromFile \/ NoSource
    BY <1>1 DEF StopAtOptions, AcceptOptions, LoadFromFile, NoSource, Exit, Fail, Proceed
  <1>2. CASE OpenDirectory \/ ReadEntry \/ DirectoryRead \/ OpenPackage
    BY <1>2 DEF OpenDirectory, ReadEntry, DirectoryRead, OpenPackage, Exit, Fail, Proceed
  <1>3. CASE PrintRaw \/ Mount \/ AfterMount \/ Report
    BY <1>3 DEF PrintRaw, Mount, AfterMount, Report, OpenedInv, Exit, Fail, Proceed
  <1>4. CASE Done \/ UNCHANGED vars
    BY <1>4 DEF Done, vars
  <1> QED
    BY <1>1, <1>2, <1>3, <1>4 DEF Next

-----------------------------------------------------------------------------
\* The invariant of an inspection, whatever the directory holds.
THEOREM Invariant == Spec => []IInv
  <1>1. IInv /\ [Next]_vars => IInv'
    BY NextType, NextBundle, NextOpened, NextExit DEF IInv
  <1> QED
    BY InitInvariant, <1>1, PTL DEF Spec

\* Every variable of an inspection keeps to its type.
THEOREM TypeCorrect == Spec => []TypeOK
  BY Invariant, PTL DEF IInv

\* What was asked to be verified is, against the source named: the order in which
\* loadCertificatesFromDirectory meets the entries does not matter, the bundle is
\* the directory's usable certificates.
THEOREM VerifiesAgainstSource == Spec => []VerifiedAgainstSource
  <1>1. IInv => VerifiedAgainstSource
    BY DEF IInv, TypeOK, Options, Values, OpenedInv, VerifiedAgainstSource, Verify, Given
  <1> QED
    BY <1>1, Invariant, PTL

\* The mount ends before the program, and the raw mode never mounts.
THEOREM MountEnds == Spec => []MountContained
  <1>1. IInv => MountContained
    BY DEF IInv, ExitInv, MountContained
  <1> QED
    BY <1>1, Invariant, PTL
=============================================================================
