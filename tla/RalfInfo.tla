------------------------------ MODULE RalfInfo ------------------------------
(***************************************************************************)
(* ralfinfo: opens a package, verified or not as the options ask, and      *)
(* prints what is in it (ralfinfo.cpp).  The program is sequential; what   *)
(* varies is the command line, the directory of certificates, which its    *)
(* iterator visits in any order, the package, and which call fails.        *)
(*                                                                         *)
(* libralf is external: Package::open succeeds only for a package signed   *)
(* by a certificate of the bundle, and the object Package::mount returns   *)
(* unmounts when it goes out of scope.                                     *)
(***************************************************************************)
EXTENDS Naturals

CONSTANTS
    CertFile,   \* the certificate in the file --cert names
    Files,      \* the entries the directory of --cert-dir may have
    NoSigner    \* an unsigned package

ASSUME CertAssumption == CertFile \notin Files /\ NoSigner \notin Files \cup {CertFile}

\* How an option with a value is given: the code looks at the value alone, so an
\* empty one counts as none.
Values == {"absent", "empty", "given"}
Given(option) == option = "given"

\* What an entry of the directory is: a link, anything but a regular file, a
\* file whose extension (in lower case) is none of a certificate's, and files
\* with such an extension that parse as a certificate or do not.
Kinds == {"symlink", "not_regular", "other_extension", "unusable", "pem", "der"}

\* Slip: a link is followed to the certificate it points to.
CountsLinks(kind) == kind \in {"symlink", "pem", "der"}

\* The entries that add a certificate; all others are passed over.
Counts(kind) == kind \in {"pem", "der"}

\* The parts of the report: those the metadata may declare (dial is the
\* application's), those it always has, and those libralf is asked for apart.
Optional == {"application", "dial", "runtime"}
Always == {"metadata", "vendor"}
Separate == {"certificates", "aux"}

VARIABLES
    options,  \* the command line
    dir,      \* the kind of each entry of the certificate directory, once opened
    package,  \* its signer, whether it mounts, and what it declares, once opened
    phase,    \* where main is
    toRead,   \* the entries the directory iterator has still to visit
    bundle,   \* the certificates in verificationBundle
    opened,   \* how the package was opened
    mounted,  \* whether a mount result is alive
    report,   \* the parts printed
    exit      \* "running", the exit code, or "terminate" for an uncaught exception

vars == <<options, dir, package, phase, toRead, bundle, opened, mounted, report, exit>>

Options == [help : BOOLEAN, file : BOOLEAN, verify : BOOLEAN, raw : BOOLEAN,
            cert : Values, certDir : Values, mount : Values]
Packages == [signer : Files \cup {CertFile, NoSigner}, mountable : BOOLEAN,
             has : SUBSET Optional]
NotOpened == [signer |-> NoSigner, mountable |-> FALSE, has |-> {}]

TypeOK ==
    /\ options \in Options
    /\ dir \in [Files -> Kinds]
    /\ package \in Packages
    /\ phase \in {"options", "certificates", "directory", "open", "opened", "report", "done"}
    /\ toRead \subseteq Files
    /\ bundle \subseteq Files \cup {CertFile}
    /\ opened \in {"no", "verified", "unverified"}
    /\ mounted \in BOOLEAN
    /\ report \subseteq Optional \cup Always \cup Separate \cup {"raw"}
    /\ exit \in {"running", "0", "1", "terminate"}

Init ==
    /\ options \in Options
    /\ dir = [f \in Files |-> "other_extension"]
    /\ package = NotOpened
    /\ phase = "options"
    /\ toRead = {}
    /\ bundle = {}
    /\ opened = "no"
    /\ mounted = FALSE
    /\ report = {}
    /\ exit = "running"

-----------------------------------------------------------------------------
\* main returns the code, or an exception leaves it.
Exit(from, code) ==
    /\ phase = from
    /\ phase' = "done"
    /\ exit' = code
    /\ UNCHANGED <<options, dir, package, toRead, bundle, opened>>

Fail(from) == Exit(from, "1") /\ UNCHANGED <<mounted, report>>

Proceed(from, to) ==
    /\ phase = from
    /\ phase' = to
    /\ UNCHANGED <<options, exit>>

\* --verify, or a value of --cert or --cert-dir that is not empty.
Verify == options.verify \/ Given(options.cert) \/ Given(options.certDir)

\* An option boost does not know, --help, no package, or both sources.
StopAtOptions ==
    \/ Fail("options")
    \/ options.help /\ Exit("options", "0") /\ UNCHANGED <<mounted, report>>

AcceptOptions ==
    /\ Proceed("options", IF Verify THEN "certificates" ELSE "open")
    /\ ~options.help /\ options.file
    /\ ~(Given(options.cert) /\ Given(options.certDir))
    /\ UNCHANGED <<dir, package, toRead, bundle, opened, mounted, report>>

\* loadCertificateFromFile, for --cert: PEM is tried first, then DER.
LoadFromFile ==
    /\ Given(options.cert)
    /\ \/ /\ Proceed("certificates", "open")
          /\ bundle' = {CertFile}
          /\ UNCHANGED <<dir, package, toRead, opened, mounted, report>>
       \/ Fail("certificates")

NoSource == ~Given(options.cert) /\ ~Given(options.certDir) /\ Fail("certificates")

\* loadCertificatesFromDirectory: the path may not exist, not be a directory or
\* not be readable; asking the file system may throw.
OpenDirectory ==
    /\ ~Given(options.cert) /\ Given(options.certDir)
    /\ \/ /\ Proceed("certificates", "directory")
          /\ dir' \in [Files -> Kinds]
          /\ toRead' = Files
          /\ UNCHANGED <<package, bundle, opened, mounted, report>>
       \/ Fail("certificates")
       \/ Exit("certificates", "terminate") /\ UNCHANGED <<mounted, report>>

\* One entry, in the iterator's order: what is no usable certificate is ignored.
ReadEntry ==
    \/ \E f \in toRead :
          /\ Proceed("directory", "directory")
          /\ toRead' = toRead \ {f}
          /\ bundle' = IF Counts(dir[f]) THEN bundle \cup {f} ELSE bundle
          /\ UNCHANGED <<dir, package, opened, mounted, report>>
    \/ Exit("directory", "terminate") /\ UNCHANGED <<mounted, report>>

DirectoryRead ==
    /\ toRead = {}
    /\ \/ /\ Proceed("directory", "open")
          /\ bundle # {}
          /\ UNCHANGED <<dir, package, toRead, bundle, opened, mounted, report>>
       \/ bundle = {} /\ Fail("directory")

OpenPackage ==
    \/ /\ Proceed("open", "opened")
       /\ opened' = IF Verify THEN "verified" ELSE "unverified"
       /\ package' \in Packages
       /\ Verify => package'.signer \in bundle
       /\ UNCHANGED <<dir, toRead, bundle, mounted, report>>
    \/ Fail("open")

-----------------------------------------------------------------------------
\* printRawMetadata: the auxiliary file of the package's configuration.
PrintRaw ==
    /\ options.raw
    /\ \/ Exit("opened", "0") /\ report' = {"raw"} /\ UNCHANGED mounted
       \/ Fail("opened")

\* A package that mounts is mounted when a path was given.
Mount ==
    /\ ~options.raw /\ ~mounted
    /\ Given(options.mount) /\ package.mountable
    /\ \/ /\ Proceed("opened", "opened")
          /\ mounted' = TRUE
          /\ UNCHANGED <<dir, package, toRead, bundle, opened, report>>
       \/ Fail("opened")

\* The mount result lives in the block that made it; a path for a package that
\* does not mount only gets a warning.
AfterMount ==
    /\ ~options.raw
    /\ mounted \/ ~Given(options.mount) \/ ~package.mountable
    /\ Proceed("opened", "report")
    /\ mounted' = FALSE
    /\ UNCHANGED <<dir, package, toRead, bundle, opened, report>>

\* What there is to print: the dial information is the application's.
Sections == Always \cup (package.has \ (IF "application" \in package.has THEN {} ELSE {"dial"}))

\* printSigningCertificates, the metadata, and the rest.  When the metadata fails
\* main ends with 1; when the certificates or the auxiliary keys fail, an error
\* takes their place and main goes on to end with 0.
Report ==
    \/ /\ Exit("report", "0")
       /\ \E printed \in SUBSET Separate : report' = Sections \cup printed
       /\ UNCHANGED mounted
    \/ /\ Exit("report", "1")
       /\ report' \in {{}, {"certificates"}}
       /\ UNCHANGED mounted

Done == phase = "done" /\ UNCHANGED vars

Next == \/ StopAtOptions \/ AcceptOptions \/ LoadFromFile \/ NoSource \/ OpenDirectory
        \/ ReadEntry \/ DirectoryRead \/ OpenPackage \/ PrintRaw \/ Mount \/ AfterMount
        \/ Report \/ Done

Spec == Init /\ [][Next]_vars

-----------------------------------------------------------------------------
\* The certificates of the source the command line names.
Source == IF Given(options.cert) THEN {CertFile}
          ELSE {f \in Files : dir[f] \in {"pem", "der"}}

\* A package that any non-empty option or --verify asked to verify is opened only
\* against all the usable certificates of the source named and nothing else: in
\* whichever order loadCertificatesFromDirectory meets the entries, no link of the
\* directory counts, no certificate of it is missing, and none fails the others.
VerifiedAgainstSource ==
    opened # "no" =>
        /\ options.verify \/ "given" \in {options.cert, options.certDir} => opened = "verified"
        /\ opened = "verified" => /\ bundle = Source /\ bundle # {}
                                  /\ package.signer \in Source

\* ralfinfo.cpp:249 (the help of --verify): "Automatically enabled if --cert or
\* --cert-dir is provided".
VerifiedWhenProvided ==
    opened = "unverified" => options.cert = "absent" /\ options.certDir = "absent"

\* Nothing is mounted when the raw metadata is asked for, nor after the end.
MountContained == mounted => exit = "running" /\ ~options.raw
=============================================================================
