----------------------------- MODULE MCBoltSign -----------------------------
(* Six packages: plain, signed before, one with other entries ahead of its   *)
(* manifest, two that cannot be signed, and one that shares a name.          *)
EXTENDS BoltSign

MCBlank == [stem |-> "", kind |-> "blank"]

Config(id) == [kind |-> "config", id |-> id]
Manifest(name, c, inline) == [kind |-> "manifest", name |-> name, config |-> c, inline |-> inline]
Other == [kind |-> "other"]
Entry(d, ref) == [digest |-> d, ref |-> ref]
Pkg(stem, ext, index, type, compact, blobs, readable) ==
  [stem |-> stem, ext |-> ext, index |-> index, type |-> type, compact |-> compact,
   blobs |-> blobs, readable |-> readable]

App == LET c == Config("app") m == Manifest("app", c, TRUE)
       IN  Pkg("app", "zip", <<Entry(m, "app")>>, "index", FALSE, {m, c}, TRUE)
\* Its configuration is missing, and so is the media type of its index.
App2 == LET m == Manifest("app2", Config("app2"), TRUE)
        IN  Pkg("app", "tar", <<Entry(m, "")>>, "manifest", FALSE, {m}, TRUE)
\* Signed before; its index is on one line.
Lib == LET c == Config("lib") m == Manifest("lib", c, TRUE)
           b == SignedBlob("lib", m)
           old == SigManifest(b, [key |-> "old", over |-> b], "given")
       IN  Pkg("lib", "zip", <<Entry(m, "library"), Entry(old, "sig")>>, "index", TRUE,
               {m, c, b, SigConfig(b), old}, TRUE)
\* Its first entries are a blob that is missing and one of another kind.
Ext == LET c == Config("ext") m == Manifest("ext", c, FALSE)
       IN  Pkg("ext", "tar", <<Entry(Manifest("gone", c, TRUE), "gone"), Entry(Other, "other"),
                             Entry(m, "ext")>>, "absent", FALSE, {m, c, Other}, TRUE)
Bare == Pkg("bare", "zip", <<Entry(Other, "other")>>, "index", FALSE, {Other}, TRUE)
Torn == Pkg("torn", "zip", <<>>, "absent", FALSE, {}, FALSE)

MCPackages == {App, App2, Lib, Ext, Bare, Torn}

Call(batch, packages, k, c, tool, install, id, unzip) ==
  [batch |-> batch, packages |-> packages, key |-> k, cert |-> c, tool |-> tool,
   install |-> install, identity |-> id, unzip |-> unzip]

Single == {Call(FALSE, <<p>>, k, "given", "none", TRUE, "", u) :
             p \in MCPackages, k \in {"given", "none"}, u \in BOOLEAN}
Default == {Call(FALSE, <<p>>, "none", "none", tool, install, "cli", TRUE) :
              p \in {App, Lib}, tool \in {"wget", "curl", "none"}, install \in BOOLEAN}
Lists == {<<App, Lib>>, <<App, MCBlank, App2>>, <<Lib, App2, Ext>>, <<Ext, Torn, App>>,
          <<MCBlank>>, <<>>}
Batch == {Call(TRUE, l, "given", "given", "curl", install, "", TRUE) :
            l \in Lists, install \in BOOLEAN}

MCCalls == Single \cup Default \cup Batch
           \cup {Call(FALSE, <<>>, "given", "given", "wget", FALSE, "", TRUE),
                 Call(TRUE, <<App>>, "given", "given", "none", FALSE, "", TRUE)}
=============================================================================
