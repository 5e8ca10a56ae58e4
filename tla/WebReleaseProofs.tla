-------------------------- MODULE WebReleaseProofs --------------------------
(***************************************************************************)
(* Proofs about WebRelease, for any releases, texts, versions and          *)
(* histories and any number of changes by hand.                            *)
(*                                                                         *)
(* A package is sound because it was verified, which compares what was     *)
(* stamped with what is there, and because what was stamped was compared   *)
(* with the declaration; the inductive invariant carries that from the     *)
(* identity over the script's copy to the package.                         *)
(***************************************************************************)
EXTENDS MCPrepareSource, WellFoundedInduction, TLAPS

\* What was compiled from the tree it was stamped with, was compiled from the
\* release and the modules the identity names.
IdentitySound ==
    identity # Release!None /\ identity.fresh =>
        /\ ~ identity.assets.edited
        /\ identity.assets.from.release = identity.release
        /\ identity.assets.from.owned = identity.fingerprint.owned

ZipSound(zip) ==
    zip.kind = "zip" /\ zip.identity.fresh =>
        /\ ~ zip.dist.edited
        /\ zip.dist.from.release = zip.release
        /\ zip.dist.from.owned = zip.integration.owned

Descending(versions) ==
    \A i, j \in DOMAIN versions : i < j => versions[i] > versions[j]

Now(at) == script # Release!Idle /\ script.at = at

\* What was verified is as it was, and the version may be released after the
\* history, unless something was changed meanwhile.
VerifiedInv ==
    Now("verified") =>
        /\ script \in [at : {"verified"}, settled : BOOLEAN]
        /\ script.settled => Release!VerifyWebBuild
        /\ ~ disturbed => Release!ValidateCatalogHistory(history, version)

\* So it is with the version a copy was made for.
CopiedInv ==
    Now("staged") \/ Now("packed") =>
        /\ script.version \in Versions
        /\ ZipSound(script.zip)
        /\ ~ disturbed => Release!ValidateCatalogHistory(history, script.version)

\* The catalogue that is about to be written fits the package.
ListedInv ==
    Now("listing") =>
        /\ script.version \in Versions
        /\ script.catalogue.kind = "manifest"
        /\ Head(script.catalogue.versions) = script.version
        /\ script.catalogue.settled => Descending(script.catalogue.versions)
        /\ script.catalogue.checksum = package[script.version]
        /\ manifest = Release!Half

\* The package the script has just replaced, or was killed over.
InDoubt(v) == v \in interrupted \/ (Now("packed") /\ script.version = v)

Published ==
    manifest.kind = "manifest" =>
        /\ Head(manifest.versions) \in Versions
        /\ manifest.settled => Descending(manifest.versions)
        /\ ~ InDoubt(Head(manifest.versions)) =>
              package[Head(manifest.versions)] = manifest.checksum

Whole == manifest = Release!Half => torn \/ Now("listing")

IndInv ==
    /\ version \in Versions /\ history \in Histories
    /\ DOMAIN package = Versions
    /\ IdentitySound /\ VerifiedInv /\ CopiedInv /\ ListedInv
    /\ Published /\ Whole /\ Release!PackageIsCurrent

-----------------------------------------------------------------------------
(* Order.  A history is compared entry by entry; that it descends as a     *)
(* whole is an induction, over its smallest counterexample.                *)

LEMMA NatIsWellFounded ==
  \E R : IsWellFoundedOn(R, Nat) /\ \A x, y \in Nat : x < y => <<x, y>> \in R
<1>1. \A x, y \in Nat : x < y => <<x, y>> \in OpToRel(<, Nat)
  BY Zenon DEF OpToRel
<1> QED
  BY <1>1, NatLessThanWellFounded, Zenon

LEMMA LeastNumber ==
  ASSUME NEW T \in SUBSET Nat, T # {}
  PROVE  \E n \in T : \A m \in T : n =< m
<1>1. PICK R : IsWellFoundedOn(R, Nat) /\ \A x, y \in Nat : x < y => <<x, y>> \in R
  BY NatIsWellFounded
<1>2. T \subseteq Nat
  OBVIOUS
<1>3. \E x \in T : \A y \in T : ~ (<<y, x>> \in R)
  <2>1. IsWellFoundedOn(R, Nat)
    BY <1>1
  <2> QED
    BY <2>1, <1>2, WFMin
<1>4. PICK x \in T : \A y \in T : ~ (<<y, x>> \in R)
  BY <1>3
<1>5. \A y \in T : ~ (y < x)
  BY <1>1, <1>2, <1>4
<1>6. \A y \in T : x =< y
  BY <1>2, <1>5
<1> QED
  BY <1>6

LEMMA StepwiseDescending ==
  ASSUME NEW versions \in Seq(Int),
         \A i \in DOMAIN versions : i > 1 => versions[i - 1] > versions[i]
  PROVE  Descending(versions)
<1> DEFINE Wrong == {j \in DOMAIN versions : \E i \in DOMAIN versions :
                        i < j /\ ~ (versions[i] > versions[j])}
<1>1. DOMAIN versions = 1..Len(versions) /\ Len(versions) \in Nat
  OBVIOUS
<1>2. Wrong = {}
  <2>1. SUFFICES ASSUME Wrong # {} PROVE FALSE
    OBVIOUS
  <2>2. Wrong \in SUBSET Nat
    BY <1>1
  <2>3. PICK j \in Wrong : \A k \in Wrong : j =< k
    <3> HIDE DEF Wrong
    <3> QED
      BY <2>1, <2>2, LeastNumber
  <2>4. PICK i \in DOMAIN versions : i < j /\ ~ (versions[i] > versions[j])
    BY <2>3
  <2>5. j \in DOMAIN versions /\ j > 1 /\ j - 1 \in DOMAIN versions /\ j - 1 \notin Wrong
    BY <1>1, <2>3, <2>4
  <2>6. versions[j - 1] > versions[j]
    BY <2>5
  <2>7. i # j - 1
    BY <2>4, <2>6
  <2>8. i < j - 1
    BY <1>1, <2>4, <2>5, <2>7
  <2>9. versions[i] > versions[j - 1]
    BY <2>5, <2>8
  <2>10. versions[i] \in Int /\ versions[j - 1] \in Int /\ versions[j] \in Int
    BY <2>4, <2>5
  <2> QED
    BY <2>4, <2>6, <2>9, <2>10
<1> QED
  BY <1>2 DEF Descending

LEMMA ReleasedDescends ==
  ASSUME NEW entries \in Seq(Int), NEW v \in Int,
         Release!ValidateCatalogHistory(entries, v)
  PROVE  Descending(<<v>> \o entries)
<1> DEFINE versions == <<v>> \o entries
<1>1. /\ versions \in Seq(Int)
      /\ DOMAIN versions = 1..(Len(entries) + 1) /\ Len(entries) \in Nat
      /\ versions[1] = v
      /\ \A i \in 1..Len(entries) : versions[i + 1] = entries[i]
  OBVIOUS
<1>2. ASSUME NEW i \in DOMAIN versions, i > 1
      PROVE  versions[i - 1] > versions[i]
  <2>1. i - 1 \in 1..Len(entries) /\ versions[i] = entries[i - 1]
    BY <1>1, <1>2
  <2>2. entries[i - 1] < IF i - 1 = 1 THEN v ELSE entries[i - 1 - 1]
    BY <2>1 DEF Release!ValidateCatalogHistory
  <2>3. CASE i = 2
    BY <1>1, <2>1, <2>2, <2>3
  <2>4. CASE i # 2
    <3>1. i - 1 - 1 \in 1..Len(entries) /\ versions[i - 1] = entries[i - 1 - 1]
      BY <1>1, <2>1, <2>4
    <3> QED
      BY <2>1, <2>2, <2>4, <3>1
  <2> QED
    BY <2>3, <2>4
<1> QED
  <2> HIDE DEF versions
  <2>1. Descending(versions)
    BY <1>1, <1>2, StepwiseDescending
  <2> QED
    BY <2>1 DEF versions

-----------------------------------------------------------------------------
(* The steps.                                                              *)

LEMMA InitInd == Release!Init => IndInv
<1> SUFFICES ASSUME Release!Init PROVE IndInv
  OBVIOUS
<1>1. /\ identity = Release!None /\ script = Release!Idle /\ manifest = Release!None
      /\ version \in Versions /\ history \in Histories
      /\ package = [v \in Versions |-> Release!None]
  BY DEF Release!Init
<1>2. Release!PackageIsCurrent
  BY <1>1 DEF Release!PackageIsCurrent, Release!None
<1>3. Published /\ Whole
  BY <1>1 DEF Published, Whole, Release!None, Release!Half
<1> QED
  BY <1>1, <1>2, <1>3 DEF IndInv, IdentitySound, VerifiedInv, CopiedInv, ListedInv, Now

\* Whatever may change what was verified leaves what is published alone.
LEMMA UnsettledInd ==
  ASSUME IndInv, Release!Unsettle, UNCHANGED Release!published, IdentitySound',
         version' \in Versions, history' \in Histories,
         \/ script = Release!Idle
         \/ disturbed'
         \/ UNCHANGED <<disturbed, history, version>>
  PROVE  IndInv'
<1>1. UNCHANGED <<package, manifest, interrupted, torn>>
  BY DEF Release!published
<1>2. Release!PackageIsCurrent'
  BY <1>1 DEF IndInv, Release!PackageIsCurrent
<1>3. CASE Now("verified")
  <2>1. script' \in [at : {"verified"}, settled : BOOLEAN] /\ ~ script'.settled
    BY <1>3 DEF IndInv, VerifiedInv, Release!Unsettle, Release!Verified, Now
  <2>2. script'.at = "verified" /\ script' # Release!Idle /\ script.at = "verified"
    BY <1>3, <2>1 DEF Release!Idle, Now
  <2>3. VerifiedInv'
    BY <1>3, <2>1 DEF IndInv, VerifiedInv, Now
  <2>4. CopiedInv' /\ ListedInv'
    BY <2>2 DEF CopiedInv, ListedInv, Now
  <2>5. Published' /\ Whole'
    BY <1>1, <2>2 DEF IndInv, Published, Whole, InDoubt, Now
  <2> QED
    BY <1>1, <1>2, <2>3, <2>4, <2>5 DEF IndInv
<1>4. CASE ~ Now("verified")
  <2>1. script' = script
    BY <1>4 DEF Release!Unsettle, Release!Verified, Now
  <2>2. VerifiedInv'
    BY <1>4, <2>1 DEF VerifiedInv, Now
  <2>3. CopiedInv'
    BY <2>1 DEF IndInv, CopiedInv, Now
  <2>4. ListedInv' /\ Published' /\ Whole'
    BY <1>1, <2>1 DEF IndInv, ListedInv, Published, Whole, InDoubt, Now
  <2> QED
    BY <1>1, <1>2, <2>2, <2>3, <2>4 DEF IndInv
<1> QED
  BY <1>3, <1>4

\* A change by hand leaves the identity, and the script may no longer count on
\* what it has verified.
LEMMA ChangeInd == IndInv /\ (Release!ChangeInputs \/ Release!ChangeBuilt) => IndInv'
<1> SUFFICES ASSUME IndInv, Release!ChangeInputs \/ Release!ChangeBuilt PROVE IndInv'
  OBVIOUS
<1>1. /\ UNCHANGED <<Release!published, identity>>
      /\ disturbed' = (disturbed \/ script # Release!Idle)
      /\ Release!Unsettle
  BY DEF Release!ChangeInputs, Release!ChangeBuilt, Release!Change, Release!built
<1>2. version' \in Versions /\ history' \in Histories
  BY DEF IndInv, Release!ChangeInputs, Release!ChangeBuilt, Release!inputs
<1>3. IdentitySound'
  BY <1>1 DEF IndInv, IdentitySound
<1> QED
  BY <1>1, <1>2, <1>3, UnsettledInd

LEMMA PrepareInd == IndInv /\ Release!Prepare => IndInv'
  BY DEF Release!Prepare, Release!inputs, Release!outputs, Release!published, IndInv,
      IdentitySound, VerifiedInv, Release!VerifyWebBuild, CopiedInv, ListedInv, Published,
      Whole, InDoubt, Now, Release!PackageIsCurrent

\* Only a stamp makes an identity, and what it is stamped with was compared.
LEMMA BuildInd == IndInv /\ (Release!Compile \/ Release!StampWebBuild) => IndInv'
<1> SUFFICES ASSUME IndInv, Release!Compile \/ Release!StampWebBuild PROVE IndInv'
  OBVIOUS
<1>1. /\ UNCHANGED <<version, history, Release!published, disturbed>>
      /\ Release!Unsettle
  BY DEF Release!Compile, Release!StampWebBuild, Release!inputs
<1>2. IdentitySound'
  <2>1. CASE Release!Compile
    BY <2>1 DEF IndInv, IdentitySound, Release!Compile
  <2>2. CASE identity' = Release!None
    BY <2>2 DEF IdentitySound
  <2>3. CASE Release!StampWebBuild /\ identity' # Release!None
    <3>1. /\ identity'.release = declared
          /\ identity'.fingerprint = integration
          /\ identity'.assets = dist
          /\ identity'.fresh = (dist.from = checkout /\ ~ dist.edited)
      BY <2>3 DEF Release!StampWebBuild
    <3>2. checkout.release = declared /\ checkout.owned = integration.owned
      BY <2>3 DEF Release!StampWebBuild, Release!SourceIsCurrent
    <3> QED
      BY <3>1, <3>2 DEF IdentitySound
  <2> QED
    BY <2>1, <2>2, <2>3
<1>3. version' \in Versions /\ history' \in Histories
  BY <1>1 DEF IndInv
<1> QED
  BY <1>1, <1>2, <1>3, UnsettledInd

-----------------------------------------------------------------------------
(* The packaging. *)

LEMMA VerifyPackageInd == IndInv /\ Release!VerifyPackage => IndInv'
<1> SUFFICES ASSUME IndInv, Release!VerifyPackage PROVE IndInv'
  OBVIOUS
<1>1. /\ script = Release!Idle
      /\ Release!VerifyWebBuild /\ Release!ValidateCatalogHistory(history, version)
      /\ UNCHANGED <<declared, integration, version, history, checkout, dist, identity>>
      /\ UNCHANGED <<package, manifest, interrupted, torn, disturbed>>
  BY DEF Release!VerifyPackage, Release!inputs, Release!built, Release!published
<1>2. /\ script' \in [at : {"verified"}, settled : BOOLEAN]
      /\ script'.at = "verified" /\ script' # Release!Idle
  BY DEF Release!VerifyPackage, Release!Idle
<1>3. Release!VerifyWebBuild'
  BY <1>1 DEF Release!VerifyWebBuild
<1>4. VerifiedInv' /\ CopiedInv' /\ ListedInv'
  BY <1>1, <1>2, <1>3 DEF VerifiedInv, CopiedInv, ListedInv, Now
<1>5. Published' /\ Whole'
  BY <1>1, <1>2 DEF IndInv, Published, Whole, InDoubt, Now
<1>6. IdentitySound' /\ Release!PackageIsCurrent'
  BY <1>1 DEF IndInv, IdentitySound, Release!PackageIsCurrent
<1> QED
  BY <1>1, <1>4, <1>5, <1>6 DEF IndInv

\* What is copied is what was stamped, unless it was changed meanwhile.
LEMMA StageInd == IndInv /\ Release!StagePackage => IndInv'
<1> SUFFICES ASSUME IndInv, Release!StagePackage PROVE IndInv'
  OBVIOUS
<1>1. /\ Now("verified")
      /\ UNCHANGED <<declared, integration, version, history, checkout, dist, identity>>
      /\ UNCHANGED <<package, manifest, interrupted, torn, disturbed>>
  BY DEF Release!StagePackage, Release!Verified, Now, Release!inputs, Release!built,
     Release!published
<1>2. /\ script'.at = "staged" /\ script'.version = version
      /\ script' # Release!Idle
      /\ script'.zip =
            IF script.settled
            THEN [kind |-> "zip", dist |-> dist, identity |-> identity,
                  release |-> declared, integration |-> integration]
            ELSE Release!Unverified
  BY DEF Release!StagePackage, Release!Idle
<1>3. ZipSound(script'.zip)
  <2>1. CASE script.settled
    BY <1>1, <1>2, <2>1 DEF IndInv, VerifiedInv, Release!VerifyWebBuild, IdentitySound,
       ZipSound
  <2>2. CASE ~ script.settled
    BY <1>2, <2>2 DEF ZipSound, Release!Unverified
  <2> QED
    BY <2>1, <2>2
<1>4. ~ disturbed' => Release!ValidateCatalogHistory(history', version')
  BY <1>1 DEF IndInv, VerifiedInv
<1>5. VerifiedInv' /\ CopiedInv' /\ ListedInv'
  BY <1>1, <1>2, <1>3, <1>4 DEF IndInv, VerifiedInv, CopiedInv, ListedInv, Now
<1>6. Published' /\ Whole'
  BY <1>1, <1>2 DEF IndInv, Published, Whole, InDoubt, Now
<1>7. IdentitySound' /\ Release!PackageIsCurrent'
  BY <1>1 DEF IndInv, IdentitySound, Release!PackageIsCurrent
<1> QED
  BY <1>1, <1>5, <1>6, <1>7 DEF IndInv

LEMMA WritePackageInd == IndInv /\ Release!WritePackage => IndInv'
<1> SUFFICES ASSUME IndInv, Release!WritePackage PROVE IndInv'
  OBVIOUS
<1>1. /\ Now("staged") /\ script.version \in Versions /\ ZipSound(script.zip)
      /\ ~ disturbed => Release!ValidateCatalogHistory(history, script.version)
      /\ DOMAIN package = Versions
  BY DEF IndInv, CopiedInv, Release!WritePackage, Now
<1>2. /\ script'.at = "packed" /\ script'.version = script.version
      /\ script'.zip = script.zip /\ script' # Release!Idle
  BY DEF Release!WritePackage, Release!Idle
<1>3. /\ UNCHANGED <<version, history, identity, manifest, disturbed, interrupted, torn>>
      /\ DOMAIN package' = Versions
      /\ package'[script.version] = script.zip
      /\ \A v \in Versions \ {script.version} : package'[v] = package[v]
  BY <1>1 DEF Release!WritePackage, Release!inputs, Release!built
<1>4. VerifiedInv' /\ CopiedInv' /\ ListedInv'
  BY <1>1, <1>2, <1>3 DEF VerifiedInv, CopiedInv, ListedInv, Now
<1>5. Release!PackageIsCurrent'
  BY <1>1, <1>3 DEF IndInv, Release!PackageIsCurrent, ZipSound
<1>6. Published' /\ Whole'
  BY <1>1, <1>2, <1>3 DEF IndInv, Published, Whole, InDoubt, Now
<1> QED
  BY <1>3, <1>4, <1>5, <1>6 DEF IndInv, IdentitySound

LEMMA OpenManifestInd ==
  ASSUME Release!NumberAssumption, IndInv, Release!OpenManifest
  PROVE  IndInv'
<1>1. /\ Now("packed") /\ script.version \in Versions
      /\ ~ disturbed => Release!ValidateCatalogHistory(history, script.version)
  BY DEF IndInv, CopiedInv, Release!OpenManifest, Now
<1>2. history \in Seq(Int) /\ script.version \in Int
  <2>1. history \in Histories /\ Histories \subseteq Seq(Int)
    BY DEF IndInv, Release!NumberAssumption
  <2>2. history \in Seq(Int)
    BY <2>1, Zenon
  <2>3. script.version \in Int
    <3>1. Versions \subseteq Nat
      BY Zenon DEF Release!NumberAssumption
    <3>2. script.version \in Nat
      BY <1>1, <3>1, Zenon
    <3> QED
      BY <3>2
  <2> QED
    BY <2>2, <2>3
<1>3. /\ script'.at = "listing" /\ script'.version = script.version
      /\ script' # Release!Idle
      /\ script'.catalogue.kind = "manifest"
      /\ script'.catalogue.versions = <<script.version>> \o history
      /\ script'.catalogue.checksum = package[script.version]
      /\ script'.catalogue.settled = ~ disturbed
  BY DEF Release!OpenManifest, Release!Idle
<1>4. /\ UNCHANGED <<version, history, identity, package, disturbed, interrupted, torn>>
      /\ manifest' = Release!Half
  BY DEF Release!OpenManifest, Release!inputs, Release!built
<1>5. Head(script'.catalogue.versions) = script.version
  BY <1>2, <1>3
<1>6. script'.catalogue.settled => Descending(script'.catalogue.versions)
  BY <1>1, <1>2, <1>3, ReleasedDescends
<1>7. ListedInv'
  BY <1>1, <1>3, <1>4, <1>5, <1>6 DEF ListedInv, Descending, Now
<1>8. VerifiedInv' /\ CopiedInv' /\ Published' /\ Whole'
  BY <1>3, <1>4 DEF VerifiedInv, CopiedInv, Published, Whole, Now, Release!Half
<1> QED
  BY <1>4, <1>7, <1>8 DEF IndInv, IdentitySound, Release!PackageIsCurrent

LEMMA WriteManifestInd == IndInv /\ Release!WriteManifest => IndInv'
<1> SUFFICES ASSUME IndInv, Release!WriteManifest PROVE IndInv'
  OBVIOUS
<1>1. /\ Now("listing") /\ script' = Release!Idle
      /\ UNCHANGED <<version, history, identity, package>>
      /\ manifest' = script.catalogue
  BY DEF Release!WriteManifest, Release!inputs, Release!built, Now
<1>2. VerifiedInv' /\ CopiedInv' /\ ListedInv'
  BY <1>1 DEF VerifiedInv, CopiedInv, ListedInv, Now
<1>3. Published'
  BY <1>1 DEF IndInv, ListedInv, Published, Descending
<1>4. Whole'
  BY <1>1 DEF IndInv, ListedInv, Whole, Release!Half
<1> QED
  BY <1>1, <1>2, <1>3, <1>4 DEF IndInv, IdentitySound, Release!PackageIsCurrent

\* A script that is killed may leave half a package or half a catalogue, which
\* no longer counts.
LEMMA KillInd == IndInv /\ Release!Kill => IndInv'
<1> SUFFICES ASSUME IndInv, Release!Kill PROVE IndInv'
  OBVIOUS
<1>1. /\ script # Release!Idle /\ script' = Release!Idle
      /\ UNCHANGED <<version, history, identity, manifest>>
  BY DEF Release!Kill, Release!inputs, Release!built
<1>2. VerifiedInv' /\ CopiedInv' /\ ListedInv'
  BY <1>1 DEF VerifiedInv, CopiedInv, ListedInv, Now
<1>3. CASE script.at \in {"verified", "staged"} /\ UNCHANGED <<package, interrupted, torn>>
  BY <1>1, <1>2, <1>3 DEF IndInv, IdentitySound, Release!PackageIsCurrent, Published,
     Whole, InDoubt, Now
<1>4. CASE /\ script.at = "staged"
           /\ package' = [package EXCEPT ![script.version] = Release!Half]
           /\ interrupted' = interrupted \cup {script.version}
           /\ UNCHANGED torn
  <2>1. /\ script.version \in Versions
        /\ DOMAIN package' = Versions
        /\ package'[script.version] = Release!Half
        /\ \A v \in Versions \ {script.version} : package'[v] = package[v]
    BY <1>1, <1>4 DEF IndInv, CopiedInv, Now
  <2>2. Release!PackageIsCurrent'
    BY <1>1, <2>1 DEF IndInv, Release!PackageIsCurrent, Release!Half
  <2>3. Published' /\ Whole'
    BY <1>1, <1>4, <2>1 DEF IndInv, Published, Whole, InDoubt, Now
  <2> QED
    BY <1>1, <1>2, <2>1, <2>2, <2>3 DEF IndInv, IdentitySound
<1>5. CASE /\ script.at = "packed"
           /\ interrupted' = interrupted \cup {script.version}
           /\ UNCHANGED <<package, torn>>
  BY <1>1, <1>2, <1>5 DEF IndInv, IdentitySound, Release!PackageIsCurrent, Published,
     Whole, InDoubt, Now
<1>6. CASE /\ script.at = "listing"
           /\ torn' = TRUE
           /\ UNCHANGED <<package, interrupted>>
  <2>1. manifest' = Release!Half /\ torn'
    BY <1>1, <1>6 DEF IndInv, ListedInv, Now
  <2> QED
    BY <1>1, <1>2, <1>6, <2>1 DEF IndInv, IdentitySound, Release!PackageIsCurrent,
       Published, Whole, Release!Half
<1> QED
  BY <1>3, <1>4, <1>5, <1>6 DEF Release!Kill

LEMMA Step == Release!NumberAssumption /\ IndInv /\ [Release!Next]_(Release!vars) => IndInv'
<1> SUFFICES ASSUME Release!NumberAssumption, IndInv, [Release!Next]_(Release!vars)
             PROVE  IndInv'
  OBVIOUS
<1>1. CASE Release!Next
  BY <1>1, ChangeInd, PrepareInd, BuildInd, VerifyPackageInd, StageInd,
     WritePackageInd, OpenManifestInd, WriteManifestInd, KillInd DEF Release!Next
<1>2. CASE UNCHANGED Release!vars
  BY <1>2 DEF Release!vars, Release!inputs, Release!built, Release!outputs,
     Release!published, IndInv, IdentitySound, VerifiedInv, Release!VerifyWebBuild,
     CopiedInv, ListedInv, Published, Whole, InDoubt, Now, Release!PackageIsCurrent
<1> QED
  BY <1>1, <1>2

LEMMA Inductive == ASSUME Release!NumberAssumption PROVE Release!Spec => []IndInv
<1>1. Release!Init => IndInv
  BY InitInd
<1>2. IndInv /\ [Release!Next]_(Release!vars) => IndInv'
  BY Step
<1> QED
  BY <1>1, <1>2, PTL DEF Release!Spec

-----------------------------------------------------------------------------
(* The theorems.                                                           *)

\* What is packed was compiled, and not touched since, from the release and the
\* owned modules declared when it was packed, but for a distribution that was
\* out of date when it was stamped or changed before it was copied
\* (stampWebBuild, verifyWebBuild, build-catalog.sh).
THEOREM PackageSafe == Release!Spec => []PackageIsCurrent
<1>1. IndInv => PackageIsCurrent
  BY DEF IndInv, PackageIsCurrent
<1> QED
  BY <1>1, Inductive, ReleaseAssumption, PTL

\* The catalogue is whole unless it is being written or a run was killed over
\* it, names every version once, the newest first, and fits the package beside
\* it, whatever is changed or killed meanwhile (validateCatalogHistory,
\* build-catalog.sh).
THEOREM CatalogSafe == Release!Spec => []CatalogIsSound
<1>1. IndInv => CatalogIsSound
  BY DEF IndInv, Published, Whole, InDoubt, Now, Descending, CatalogIsSound,
      Release!CatalogIsSound
<1> QED
  BY <1>1, Inductive, ReleaseAssumption, PTL

=============================================================================
