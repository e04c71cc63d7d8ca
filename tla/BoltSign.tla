------------------------------ MODULE BoltSign ------------------------------
(***************************************************************************)
(* sign_bolt_rdk.sh: fetch the default certificates, then for one package  *)
(* or each of a batch extract it, sign its content manifest, rewrite the   *)
(* index, build the archive and install it.  `set -e` and log_error end    *)
(* the run at the first command that fails; the next run may use the same  *)
(* TEMP_DIR, with whatever the last one left in it.                        *)
(*                                                                         *)
(* A blob is named by its digest, so a blob stands for its own digest.     *)
(* What BoltZip models, the bytes of the archive, is here one value that   *)
(* appears when the archive is finished.                                   *)
(***************************************************************************)
EXTENDS Naturals, Sequences, FiniteSets, Functions

CONSTANTS
  Packages,  \* the packages that may be signed, by name and by URL
  Calls,     \* the command lines and environments
  Blank,     \* an empty URL between two semicolons
  MaxRuns    \* bound on the runs in one TEMP_DIR

\* A package: its file name without the extension and that, its index, the media type and
\* the layout of the index, its blobs, and whether the file is an archive at all.
ASSUME PackagesAssumption ==
  /\ Blank \notin Packages
  /\ \A p \in Packages :
       /\ p = [stem |-> p.stem, ext |-> p.ext, index |-> p.index, type |-> p.type,
               compact |-> p.compact, blobs |-> p.blobs, readable |-> p.readable]
       /\ p.readable \in BOOLEAN

\* A batch has any URLs; without --batch there is at most one package, and it is named.
ASSUME CallsAssumption ==
  /\ MaxRuns \in Nat
  /\ \A c \in Calls : /\ c.packages \in Seq(Packages \cup {Blank})
                      /\ ~c.batch => Len(c.packages) <= 1 /\ Blank \notin Range(c.packages)
                      /\ c.tool \in {"wget", "curl", "none"}
                      /\ {c.batch, c.install, c.unzip} \subseteq BOOLEAN

VARIABLES
  runs,        \* how many times the script was started
  call,        \* the arguments of this run
  pc,
  key, cert,   \* PRIVATE_KEY, CERTIFICATE: "none", "given", "default", or an error "page"
  remaining,   \* _remaining
  package,     \* BOLT_PACKAGE, and what the file holds
  extracted,   \* EXTRACT_DIR
  content,     \* CONTENT_MANIFEST_HASH
  identity,    \* PACKAGE_IDENTITY
  blob,        \* SIGNED_BLOB_FILE
  signature,   \* SIGNATURE_B64
  sigManifest, \* SIG_MANIFEST_DIGEST
  output,      \* OUTPUT_DIR, by the names without extension
  installed,   \* INSTALL_PATH
  signed,      \* SIGNED_COUNT
  latest       \* the package last signed under each name in this run

files   == <<extracted, output, installed>>
working == <<package, content, identity, blob, signature, sigManifest>>
vars == <<runs, call, pc, key, cert, remaining, working, files, signed, latest>>

Nothing == [state |-> "none"]
Partial == [state |-> "partial"]
Whole(a) == a.state = "whole"
Stems == {p.stem : p \in Packages}

NoFiles == [index |-> <<>>, type |-> "absent", compact |-> FALSE, blobs |-> {}]

\* The documents that the script adds.
SignedBlob(id, manifest) == [kind |-> "signed", identity |-> id, image |-> manifest]
SigConfig(b) == [kind |-> "sigConfig", layer |-> b]
SigManifest(b, by, certificate) ==
  [kind |-> "sigManifest", config |-> SigConfig(b), layer |-> b,
   signature |-> by, certificate |-> certificate]

Start(c) ==
  /\ call' = c /\ pc' = "args" /\ key' = "none" /\ cert' = "none"
  /\ remaining' = <<>> /\ package' = Nothing /\ content' = Nothing /\ identity' = ""
  /\ blob' = Nothing /\ signature' = Nothing /\ sigManifest' = Nothing
  /\ signed' = 0 /\ latest' = [s \in Stems |-> Nothing]

Init ==
  /\ runs = 1 /\ call \in Calls /\ pc = "args" /\ key = "none" /\ cert = "none"
  /\ remaining = <<>> /\ package = Nothing /\ content = Nothing /\ identity = ""
  /\ blob = Nothing /\ signature = Nothing /\ sigManifest = Nothing
  /\ signed = 0 /\ latest = [s \in Stems |-> Nothing]
  /\ extracted = NoFiles
  /\ output = [s \in Stems |-> Nothing] /\ installed = [s \in Stems |-> Nothing]

Goto(from, to) == pc = from /\ pc' = to

-----------------------------------------------------------------------------
(* Arguments and certificates.                                             *)

\* parse_args; a single package is required without --batch.
ParseArgs ==
  /\ Goto("args", IF call.batch \/ call.packages # <<>> THEN "key" ELSE "failed")
  /\ key' = call.key /\ cert' = call.cert
  /\ UNCHANGED <<runs, call, remaining, working, files, signed, latest>>

\* What download_file leaves: curl without -f saves an error page and succeeds.
Downloads(what) == {what} \cup (IF call.tool = "curl" THEN {"page"} ELSE {})

\* fetch_default_certificates, its first half.
FetchKey ==
  /\ \/ key # "none" /\ Goto("key", "cert") /\ UNCHANGED key
     \/ key = "none" /\ call.tool = "none" /\ Goto("key", "failed") /\ UNCHANGED key
     \/ key = "none" /\ call.tool # "none" /\ Goto("key", "cert") /\ key' \in Downloads("default")
  /\ UNCHANGED <<runs, call, cert, remaining, working, files, signed, latest>>

\* fetch_default_certificates, its second half.
FetchCertificate ==
  /\ \/ cert # "none" /\ Goto("cert", "start") /\ UNCHANGED cert
     \/ cert = "none" /\ call.tool = "none" /\ Goto("cert", "failed") /\ UNCHANGED cert
     \/ cert = "none" /\ call.tool # "none" /\ Goto("cert", "start") /\ cert' \in Downloads("default")
  /\ UNCHANGED <<runs, call, key, remaining, working, files, signed, latest>>

\* main: one package, or the batch of the URLs.
StartSigning ==
  /\ \/ ~call.batch /\ Goto("start", "setup") /\ package' = Head(call.packages) /\ UNCHANGED remaining
     \/ /\ call.batch
        /\ Goto("start",
                IF call.tool = "none" \/ call.packages = <<>> THEN "failed" ELSE "next")
        /\ remaining' = call.packages /\ UNCHANGED package
  /\ UNCHANGED <<runs, call, key, cert, content, identity, blob, signature, sigManifest, files,
                 signed, latest>>

-----------------------------------------------------------------------------
(* The batch.                                                              *)

\* process_batch: cut the next URL off the list; an empty one is skipped.
NextUrl ==
  /\ \/ remaining = <<>> /\ Goto("next", "done") /\ UNCHANGED <<remaining, package>>
     \/ /\ remaining # <<>> /\ remaining' = Tail(remaining)
        /\ \/ Head(remaining) = Blank /\ Goto("next", "next") /\ UNCHANGED package
           \/ Head(remaining) # Blank /\ Goto("next", "download") /\ package' = Head(remaining)
  /\ UNCHANGED <<runs, call, key, cert, content, identity, blob, signature, sigManifest, files,
                 signed, latest>>

\* download_file: the package, or an error page under its name.
Download ==
  /\ Goto("download", "setup")
  /\ \E what \in Downloads("package") :
       package' = [package EXCEPT !.readable = @ /\ what = "package"]
  /\ UNCHANGED <<runs, call, key, cert, remaining, content, identity, blob, signature,
                 sigManifest, files, signed, latest>>

-----------------------------------------------------------------------------
(* sign_package.                                                           *)

\* Mutant: the extraction directory is not removed.
SetUp_KeepsFiles ==
  /\ Goto("setup", "extract")
  /\ identity' = ""
  /\ UNCHANGED <<runs, call, key, cert, remaining, package, content, blob, signature, sigManifest,
                 files, signed, latest>>

\* setup_directories, and the reset of the identity before it.
SetUp ==
  /\ Goto("setup", "extract")
  /\ identity' = "" /\ extracted' = NoFiles
  /\ UNCHANGED <<runs, call, key, cert, remaining, package, content, blob, signature, sigManifest,
                 output, installed, signed, latest>>

\* extract_package adds the package's files to the directory; anything but a tar
\* archive needs unzip, and an index.json has to be there.
ExtractPackage ==
  /\ pc = "extract"
  /\ IF package.readable /\ (call.unzip \/ package.ext = "tar")
     THEN /\ extracted' = [index |-> package.index, type |-> package.type, compact |-> package.compact,
                           blobs |-> extracted.blobs \cup package.blobs]
          /\ pc' = IF package.index = <<>> THEN "failed" ELSE "manifest"
     ELSE pc' = "failed" /\ UNCHANGED extracted
  /\ UNCHANGED <<runs, call, key, cert, remaining, working, output, installed, signed, latest>>

IsContent(m) == m \in extracted.blobs /\ m.kind = "manifest"

\* get_content_manifest_digest: the first digest of the index whose blob is a
\* package manifest.
FindManifest ==
  /\ pc = "manifest"
  /\ LET found == {k \in DOMAIN extracted.index : IsContent(extracted.index[k].digest)}
     IN  IF found = {} THEN pc' = "failed" /\ UNCHANGED content
         ELSE /\ pc' = "identity"
              /\ \E k \in found : /\ \A j \in found : k <= j
                                  /\ content' = extracted.index[k].digest
  /\ UNCHANGED <<runs, call, key, cert, remaining, package, identity, blob, signature,
                 sigManifest, files, signed, latest>>

\* get_package_identity: --identity, or the id in the configuration that the
\* manifest names; grep finds the name only where it is on the line of "config".
GetIdentity ==
  /\ Goto("identity", "sign")
  /\ identity' =
       IF call.identity # "" THEN call.identity
       ELSE LET known == IF content.inline /\ content.config \in extracted.blobs
                         THEN content.config.id ELSE identity
            IN  IF known = "" THEN "unknown" ELSE known
  /\ UNCHANGED <<runs, call, key, cert, remaining, package, content, blob, signature, sigManifest,
                 files, signed, latest>>

\* Mutant: what was signed before is signed again.
SignBlob_Stale ==
  /\ pc = "sign"
  /\ blob' = SignedBlob(identity, content)
  /\ IF key = "page" THEN pc' = "failed" /\ UNCHANGED signature
     ELSE /\ pc' = "sigManifest"
          /\ signature' = [key |-> key, over |-> IF blob = Nothing THEN blob' ELSE blob]
  /\ UNCHANGED <<runs, call, key, cert, remaining, package, content, identity, sigManifest, files,
                 signed, latest>>

\* create_signed_blob and sign_blob: openssl refuses what is not a key.
SignBlob ==
  /\ pc = "sign"
  /\ blob' = SignedBlob(identity, content)
  /\ IF key = "page" THEN pc' = "failed" /\ UNCHANGED signature
     ELSE pc' = "sigManifest" /\ signature' = [key |-> key, over |-> blob']
  /\ UNCHANGED <<runs, call, key, cert, remaining, package, content, identity, sigManifest, files,
                 signed, latest>>

\* prepare_certificates and create_signature_manifest.
CreateSignatureManifest ==
  /\ Goto("sigManifest", "index")
  /\ sigManifest' = SigManifest(blob, signature, cert)
  /\ extracted' = [extracted EXCEPT !.blobs = @ \cup {blob, SigConfig(blob), sigManifest'}]
  /\ UNCHANGED <<runs, call, key, cert, remaining, package, content, identity, blob, signature,
                 output, installed, signed, latest>>

\* The name kept for the content manifest: the first that is on a line without a
\* signature's name; an index on one line has no such line once it is signed.
RefName ==
  LET names == SelectSeq(extracted.index, LAMBDA e : e.ref \notin {"", "sig"})
      signedBefore == \E k \in DOMAIN extracted.index : extracted.index[k].ref = "sig"
  IN  IF names = <<>> \/ (extracted.compact /\ signedBefore) THEN identity ELSE Head(names).ref

\* update_index: the new index has two entries, and the first "mediaType" that the
\* old one contained.
UpdateIndex ==
  /\ Goto("index", "archive")
  /\ extracted' = [extracted EXCEPT
       !.index = <<[digest |-> content, ref |-> RefName], [digest |-> sigManifest, ref |-> "sig"]>>,
       !.type = IF @ = "absent" THEN "index" ELSE @]
  /\ UNCHANGED <<runs, call, key, cert, remaining, working, output, installed, signed, latest>>

\* repackage opens the archive under its final name ...
BeginArchive ==
  /\ Goto("archive", "archiving")
  /\ output' = [output EXCEPT ![package.stem] = Partial]
  /\ UNCHANGED <<runs, call, key, cert, remaining, working, extracted, installed, signed, latest>>

\* ... and fills it (BoltZip).
EndArchive ==
  /\ Goto("archiving", "cleanup")
  /\ output' = [output EXCEPT ![package.stem] =
       [state |-> "whole", index |-> extracted.index, type |-> extracted.type,
        blobs |-> extracted.blobs]]
  /\ latest' = [latest EXCEPT ![package.stem] = package]
  /\ UNCHANGED <<runs, call, key, cert, remaining, working, extracted, installed, signed>>

\* The extracted files are removed.
RemoveExtracted ==
  /\ Goto("cleanup", IF call.install THEN "install" ELSE "signed")
  /\ extracted' = NoFiles
  /\ UNCHANGED <<runs, call, key, cert, remaining, working, output, installed, signed, latest>>

\* cp to the install path truncates the old copy ...
BeginInstall ==
  /\ Goto("install", "installing")
  /\ installed' = [installed EXCEPT ![package.stem] = Partial]
  /\ UNCHANGED <<runs, call, key, cert, remaining, working, extracted, output, signed, latest>>

\* ... and ends with a new one.
EndInstall ==
  /\ Goto("installing", "signed")
  /\ installed' = [installed EXCEPT ![package.stem] = output[package.stem]]
  /\ UNCHANGED <<runs, call, key, cert, remaining, working, extracted, output, signed, latest>>

\* sign_package returns; a batch counts it.
PackageSigned ==
  /\ Goto("signed", IF call.batch THEN "next" ELSE "done")
  /\ signed' = IF call.batch THEN signed + 1 ELSE signed
  /\ UNCHANGED <<runs, call, key, cert, remaining, working, files, latest>>

-----------------------------------------------------------------------------
(* The ends of a run.                                                      *)

Ended == {"done", "failed"}

\* Mutant: without `set -e`, a batch goes on with the next package.
Fail_GoesOn ==
  /\ pc \notin Ended /\ pc' = IF call.batch /\ package # Nothing THEN "signed" ELSE "failed"
  /\ UNCHANGED <<runs, call, key, cert, remaining, working, files, signed, latest>>

\* Any command may fail, or the script be killed, between any two steps.
Fail ==
  /\ pc \notin Ended /\ pc' = "failed"
  /\ UNCHANGED <<runs, call, key, cert, remaining, working, files, signed, latest>>

\* The script is run again in the same TEMP_DIR.
RunAgain ==
  /\ pc \in Ended /\ runs < MaxRuns /\ runs' = runs + 1
  /\ \E c \in Calls : Start(c)
  /\ UNCHANGED files

Step ==
  \/ ParseArgs \/ FetchKey \/ FetchCertificate \/ StartSigning \/ NextUrl \/ Download
  \/ SetUp \/ ExtractPackage \/ FindManifest \/ GetIdentity \/ SignBlob
  \/ CreateSignatureManifest \/ UpdateIndex \/ BeginArchive \/ EndArchive \/ RemoveExtracted
  \/ BeginInstall \/ EndInstall \/ PackageSigned

Next == Step \/ Fail \/ RunAgain

Spec == Init /\ [][Next]_vars

-----------------------------------------------------------------------------
(* Properties.                                                             *)

Archives == {a \in Range(output) \cup Range(installed) : Whole(a)}

SignatureOf(a) == a.index[2].digest
Added(a) == {SignatureOf(a), SignatureOf(a).layer, SignatureOf(a).config}

\* A reader of any archive finds by its index a manifest, its signature, and all
\* that the signature names; the signature is that of the manifest beside it
\* (379-567, 569-809; a failed run and the next one in the same directory included).
SignatureResolves ==
  \A a \in Archives :
     /\ {a.index[1].digest} \cup Added(a) \subseteq a.blobs
     /\ SignatureOf(a).layer.image = a.index[1].digest
     /\ SignatureOf(a).signature.over = SignatureOf(a).layer

\* The identity in the package's own configuration.
OwnIdentity(m, p) ==
  IF m.inline /\ m.config \in p.blobs /\ m.config.id # "" THEN m.config.id ELSE "unknown"

\* An archive holds its own package and the signature's blobs: nothing of the
\* package before it, or of a run that failed, is packed with it.  The identity
\* signed is the one asked for or the package's own, never that of the package
\* before it (265-271, 349-377, 787, 818-819).
NothingFromBefore ==
  \A s \in Stems :
     /\ \A where \in {output, installed} :
          Whole(where[s]) =>
            \E p \in Packages : p.stem = s /\ where[s].blobs = p.blobs \cup Added(where[s])
     /\ latest[s] # Nothing /\ Whole(output[s]) =>
          SignatureOf(output[s]).layer.identity =
            IF call.identity # "" THEN call.identity
            ELSE OwnIdentity(output[s].index[1].digest, latest[s])

\* The places of this call's packages in its list.
Given == {k \in DOMAIN call.packages : call.packages[k] # Blank}

\* In this run p was signed into a whole archive of its own, and that was installed.
Delivered(p) ==
  /\ latest[p.stem] = p /\ Whole(output[p.stem])
  /\ output[p.stem].blobs = p.blobs \cup Added(output[p.stem])
  /\ call.install => installed[p.stem] = output[p.stem]

\* A run that says it succeeded has delivered every package it was given; of packages with
\* one name, which write the same output, a later one stays.  A batch has counted them all
\* (573-597, 791-809, 877-888).
SuccessIsComplete ==
  pc = "done" =>
    /\ \A k \in Given : \E j \in Given :
         /\ k <= j /\ call.packages[j].stem = call.packages[k].stem
         /\ Delivered(call.packages[j])
    /\ call.batch => signed = Cardinality(Given)

-----------------------------------------------------------------------------
(* What the script says and does not hold.                                 *)

\* sign_bolt_rdk.sh:124-126, "Failed to download": an error page is never taken for
\* the certificate.
CertificateIsFetched == \A a \in Archives : SignatureOf(a).certificate # "page"

=============================================================================
