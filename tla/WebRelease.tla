------------------------------ MODULE WebRelease ------------------------------
(***************************************************************************)
(* From an integration to a published package: the source tree is prepared *)
(* (PrepareSource, one step here), compiled, stamped with the identity of  *)
(* what it was made from, verified and packed (web-build-identity.mjs,     *)
(* catalog-history.mjs, build-catalog.sh).  The steps are separate scripts *)
(* that maintainers run in any order, and the declaration, the integration,*)
(* the tree and the compiled files change between any two of them.         *)
(*                                                                         *)
(* A fingerprint is what it is of: hashes do not collide.  Stamping,       *)
(* verifying and copying are one step each, which nothing changes under;   *)
(* between any two steps anything may change.  What a script writes it     *)
(* writes in place: cut short, it leaves a part.                           *)
(***************************************************************************)
EXTENDS Integers, Sequences

CONSTANTS
    Releases,           \* releases of Jellyfin Web: a version and its commit
    Texts,              \* what the integration's modules and its patch may be
    Versions,           \* the plugin's, as numbers
    Histories,          \* what web/catalog-history.json may hold
    MaxChanges          \* bound: what the maintainers change by hand

\* Numbers, also where a history is not in order; the module that gives the
\* constants their values states it as its assumption.
NumberAssumption == Versions \subseteq Nat /\ Histories \subseteq Seq(Int)

VARIABLES
    declared,           \* the release web/compatibility.json is about
    integration,        \* the overlay directory
    checkout,           \* the source tree of Jellyfin Web
    dist,               \* what was compiled from it
    identity,           \* live-tv-categories-build.json in dist
    version,            \* Directory.Build.props
    history,            \* web/catalog-history.json
    script,             \* how far build-catalog.sh has come, for which version
    package,            \* the packages in the catalogue's directory
    manifest,           \* the catalogue
    changes,            \* counts the changes by hand
    \* history, read by the properties only
    disturbed,          \* a change while build-catalog.sh ran
    interrupted,        \* packages the script was killed over
    torn                \* the script was killed over the catalogue

inputs == <<declared, integration, version, history>>
built == <<checkout, dist, identity>>
published == <<package, manifest, interrupted, torn>>
outputs == <<script, published>>
vars == <<inputs, built, outputs, changes, disturbed>>

None == [kind |-> "none"]

\* The tree as it is cloned or where it is prepared in part only, and hand-made
\* edits the tool does not know.
Unprepared == "unprepared"
Edited == "edited"

Clean(release) == [release |-> release, owned |-> Unprepared, hooks |-> Unprepared]
Idle == [at |-> "idle"]
Half == [kind |-> "half"]
Unverified == [kind |-> "unverified"]

\* An entry of the history that is not a valid one.
Malformed == -1

Init ==
    /\ declared \in Releases
    /\ integration \in [owned : Texts, patch : Texts]
    /\ checkout = Clean(declared)
    /\ dist = None
    /\ identity = None
    /\ version \in Versions
    /\ history \in Histories
    /\ script = Idle
    /\ package = [v \in Versions |-> None]
    /\ manifest = None
    /\ changes = 0
    /\ disturbed = FALSE
    /\ interrupted = {}
    /\ torn = FALSE

-----------------------------------------------------------------------------
(* The maintainers. *)

Verified == script # Idle /\ script.at = "verified"

\* History: what build-catalog.sh has verified and not copied yet may change.
Unsettle ==
    script' = IF Verified THEN [script EXCEPT !.settled = FALSE] ELSE script

Change ==
    /\ changes < MaxChanges
    /\ changes' = changes + 1
    /\ disturbed' = (disturbed \/ script # Idle)
    /\ Unsettle
    /\ UNCHANGED published

ChangeInputs ==
    /\ Change
    /\ \/ /\ declared' \in Releases
          /\ UNCHANGED <<integration, version, history>>
       \/ /\ integration' \in [owned : Texts, patch : Texts]
          /\ UNCHANGED <<declared, version, history>>
       \/ /\ version' \in Versions
          /\ history' \in Histories
          /\ UNCHANGED <<declared, integration>>
    /\ UNCHANGED built

\* A tree is cloned again, or a preparation killed; or files are edited.
ChangeBuilt ==
    /\ Change
    /\ \/ /\ \E release \in Releases : checkout' = Clean(release)
          /\ UNCHANGED dist
       \/ /\ \/ checkout' = [checkout EXCEPT !.owned = Edited]
             \/ checkout' = [checkout EXCEPT !.hooks = Edited]
          /\ UNCHANGED dist
       \/ /\ dist # None
          /\ dist' = [dist EXCEPT !.edited = ~ @]
          /\ UNCHANGED checkout
    /\ UNCHANGED <<inputs, identity>>

-----------------------------------------------------------------------------
(* The scripts. *)

\* prepareSource when it replaces every file; when it refuses, the tree stays as
\* it is, and what it leaves when it is killed is among the changes by hand.
Prepare ==
    /\ checkout.release = declared
    /\ Edited \notin {checkout.owned, checkout.hooks}
    /\ checkout' = [checkout EXCEPT !.owned = integration.owned, !.hooks = integration.patch]
    /\ UNCHANGED <<inputs, dist, identity, outputs, changes, disturbed>>

\* An identity in dist may or may not survive.
Compile ==
    /\ dist' = [kind |-> "assets", from |-> checkout, edited |-> FALSE]
    /\ identity' \in {identity, None}
    /\ Unsettle
    /\ UNCHANGED <<inputs, checkout, published, changes, disturbed>>

\* Defect: the owned modules are not compared.
SourceIsPinned == checkout.release = declared

SourceIsCurrent == checkout.release = declared /\ checkout.owned = integration.owned

\* fresh is history: dist is what a compiler would make of the tree now.  A part
\* of an identity is not read as one.
StampWebBuild ==
    /\ SourceIsCurrent
    /\ dist # None
    /\ \/ identity' = [kind |-> "identity", release |-> declared, fingerprint |-> integration,
                       assets |-> dist, fresh |-> dist.from = checkout /\ ~ dist.edited]
       \/ identity' = None
    /\ Unsettle
    /\ UNCHANGED <<inputs, checkout, dist, published, changes, disturbed>>

VerifyWebBuild ==
    /\ identity # None
    /\ identity.release = declared
    /\ identity.fingerprint = integration
    /\ dist # None
    /\ identity.assets = dist

\* Defect: every entry is compared with the version to be released.
OlderHistory(entries, current) ==
    /\ entries # <<>>
    /\ \A i \in DOMAIN entries : entries[i] # Malformed /\ entries[i] < current

ValidateCatalogHistory(entries, current) ==
    /\ entries # <<>>
    /\ \A i \in DOMAIN entries :
          /\ entries[i] # Malformed
          /\ entries[i] < IF i = 1 THEN current ELSE entries[i - 1]

\* The checks, by two programs.
VerifyPackage ==
    /\ script = Idle
    /\ VerifyWebBuild
    /\ ValidateCatalogHistory(history, version)
    /\ script' = [at |-> "verified", settled |-> TRUE]
    /\ UNCHANGED <<inputs, built, published, changes, disturbed>>

\* The version is read, and everything is copied to a directory of the script's
\* own.  What was changed since the verification is not followed further.
StagePackage ==
    /\ Verified
    /\ script' = [at |-> "staged", version |-> version,
                  zip |-> IF script.settled
                          THEN [kind |-> "zip", dist |-> dist, identity |-> identity,
                                release |-> declared, integration |-> integration]
                          ELSE Unverified]
    /\ UNCHANGED <<inputs, built, published, changes, disturbed>>

\* The archive is written under its final name.
WritePackage ==
    /\ script # Idle /\ script.at = "staged"
    /\ script' = [script EXCEPT !.at = "packed"]
    /\ package' = [package EXCEPT ![script.version] = script.zip]
    /\ UNCHANGED <<inputs, built, manifest, changes, disturbed, interrupted, torn>>

\* The history is read again, and the catalogue opened to be overwritten, which
\* empties it.
OpenManifest ==
    /\ script # Idle /\ script.at = "packed"
    /\ script' = [at |-> "listing", version |-> script.version,
                  catalogue |-> [kind |-> "manifest",
                                 versions |-> <<script.version>> \o history,
                                 checksum |-> package[script.version],
                                 settled |-> ~ disturbed]]
    /\ manifest' = Half
    /\ UNCHANGED <<inputs, built, package, changes, disturbed, interrupted, torn>>

WriteManifest ==
    /\ script # Idle /\ script.at = "listing"
    /\ script' = Idle
    /\ manifest' = script.catalogue
    /\ interrupted' = interrupted \ {script.version}
    /\ torn' = FALSE
    /\ disturbed' = FALSE
    /\ UNCHANGED <<inputs, built, package, changes>>

\* The script ends before its time, by a signal or a full disk: between two
\* steps, within the archive, or within the catalogue.
Kill ==
    /\ script # Idle
    /\ script' = Idle
    /\ disturbed' = FALSE
    /\ \/ /\ script.at \in {"verified", "staged"}
          /\ UNCHANGED <<package, interrupted, torn>>
       \/ /\ script.at = "staged"
          /\ package' = [package EXCEPT ![script.version] = Half]
          /\ interrupted' = interrupted \cup {script.version}
          /\ UNCHANGED torn
       \/ /\ script.at = "packed"
          /\ interrupted' = interrupted \cup {script.version}
          /\ UNCHANGED <<package, torn>>
       \/ /\ script.at = "listing"
          /\ torn' = TRUE
          /\ UNCHANGED <<package, interrupted>>
    /\ UNCHANGED <<inputs, built, manifest, changes>>

Next ==
    \/ ChangeInputs \/ ChangeBuilt
    \/ Prepare \/ Compile \/ StampWebBuild
    \/ VerifyPackage \/ StagePackage \/ WritePackage
    \/ OpenManifest \/ WriteManifest \/ Kill

Spec == Init /\ [][Next]_vars

-----------------------------------------------------------------------------
(* Properties. *)

\* What is packed was compiled, and not touched since, from the release and
\* the owned modules that are declared when it is packed, whatever was done
\* between the scripts; except if the distribution was out of date when it was
\* stamped, or was changed between the verification and the copy, which nothing
\* checks (stampWebBuild, verifyWebBuild, build-catalog.sh).
PackageIsCurrent ==
    \A v \in Versions : package[v].kind = "zip" =>
        LET zip == package[v]
        IN  zip.identity.fresh =>
                /\ ~ zip.dist.edited
                /\ zip.dist.from.release = zip.release
                /\ zip.dist.from.owned = zip.integration.owned

\* The catalogue is whole, unless it is being written or the last run that came
\* to writing it was killed over it.  It names every version once, the newest
\* first, unless its history changed while it was written, and the checksum of
\* the package beside it, unless a later run was killed over that package
\* (build-catalog.sh).
CatalogIsSound ==
    /\ manifest = Half => torn \/ (script # Idle /\ script.at = "listing")
    /\ manifest.kind = "manifest" =>
        LET versions == manifest.versions
        IN  /\ manifest.settled =>
                  \A i, j \in DOMAIN versions : i < j => versions[i] > versions[j]
            /\ script = Idle /\ Head(versions) \notin interrupted =>
                  package[Head(versions)] = manifest.checksum

=============================================================================
