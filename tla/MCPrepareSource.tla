-------------------------- MODULE MCPrepareSource --------------------------
(***************************************************************************)
(* The scripts of a release for TLC: the preparation, file by file, of two *)
(* upstream and two owned files, or the whole way to the catalogue, in     *)
(* which a preparation is one step.                                        *)
(***************************************************************************)
EXTENDS PrepareSource, TLC

CONSTANTS Releases, Texts, Versions, Histories, MaxChanges

VARIABLES
    scale,
    declared, integration, checkout, dist, identity, version, history, script,
    package, manifest, changes, disturbed, interrupted, torn

releaseVars == <<declared, integration, checkout, dist, identity, version, history,
                 script, package, manifest, changes, disturbed, interrupted, torn>>

Release == INSTANCE WebRelease

ASSUME ReleaseAssumption == Release!NumberAssumption

\* Texts of modules and patch are only compared with their own kind, so both
\* start with the same one; and version 2 is there to be released, with any
\* history.  What is not followed has one value.
MCInit ==
    /\ scale \in {"files", "release"}
    /\ Init
    /\ Release!Init
    /\ integration.owned = integration.patch
    /\ scale = "release" => \A f \in Files : files[f] = Target(f)
    /\ version = 2
    /\ scale = "files" => history = <<1, 0>>

MCNext ==
    \/ scale = "files" /\ Next /\ UNCHANGED <<scale, releaseVars>>
    \/ scale = "release" /\ Release!Next /\ UNCHANGED <<scale, vars>>

MCSpec == MCInit /\ [][MCNext]_<<scale, vars, releaseVars>>

MCManaged == <<"upstream.js", "template.html", "category.js", "icons.js">>

\* Good, doubled and malformed histories.
MCHistories == {<<0>>, <<1, 0>>, <<0, 0>>, <<0, -1>>}

Symmetry == Permutations(Releases) \cup Permutations(Texts)

-----------------------------------------------------------------------------
\* What is packed was made from what is declared (stampWebBuild, verifyWebBuild).
PackageIsCurrent == Release!PackageIsCurrent

\* The catalogue is in order and fits its package (build-catalog.sh).
CatalogIsSound == Release!CatalogIsSound

=============================================================================
