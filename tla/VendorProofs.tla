------------------------------ MODULE VendorProofs ------------------------------
(***************************************************************************)
(* The build pipeline for any set of platforms and any number of runs and  *)
(* of changes upstream: whatever is in staging or in vendor/ is a part of  *)
(* one reviewed bundle, and what verify_manifest! accepts is all of it.    *)
(***************************************************************************)
EXTENDS Vendor, TLAPS

--------------------------------------------------------------------------------
(* The inductive invariant.                                                *)

\* The tree that vendor! stages for a platform, and its manifest.
Bundle(p) == Unpacked(p, TRUE)
Signed(p) == [platform |-> p, files |-> Bundle(p)]
Whole(p) == [files |-> Bundle(p), manifest |-> Signed(p)]

\* What a killed run or an unfinished rm_rf leaves of such a tree.
PartOf(tree, p) ==
    /\ \A n \in Names : tree.files[n] \in {NoFile, Bundle(p)[n]}
    /\ tree.manifest \in {NoFile, Signed(p)}

\* The steps of a task are taken by a run of that task.
Places == {"idle", "checksums", "bundle", "extract", "manifest", "verify", "clear",
           "check", "package", "clean", "failed"}
TaskInv ==
    /\ pc \in {"checksums", "bundle", "extract", "manifest", "verify", "clear"} => task = "vendor"
    /\ pc = "clean" => task = "clean"

\* The staging tree, from the download on, is of the run's own platform, and it is
\* whole before anything is removed from vendor/.
StagingInv ==
    /\ pc = "extract" => data /\ PartOf(staging, platform) /\ staging.manifest = NoFile
    /\ pc \in {"extract", "manifest"} => staging \in Tree
    /\ pc = "manifest" => staging.files = Bundle(platform)
    /\ pc \in {"verify", "clear"} => staging = Whole(platform)
    /\ pc = "clear" => verified

\* vendor/ never mixes bundles.
VendorInv ==
    /\ vendor # NoTree => \E p \in Platforms : PartOf(vendor, p)
    /\ pc = "package" => vendor.files = Bundle(platform)

\* Until its staging tree is verified, a run leaves vendor/ alone.
UntouchedInv ==
    /\ pc \in {"checksums", "bundle", "extract", "manifest", "verify", "check", "package"}
          => vendor = before
    /\ TouchedOnlyWhenVerified

IInv == TypeOK /\ TaskInv /\ StagingInv /\ VendorInv /\ UntouchedInv /\ PackagedReviewed

--------------------------------------------------------------------------------
(* Trees.                                                                  *)

LEMMA BundleType ==
    ASSUME NEW p \in Platforms
    PROVE  Bundle(p) \in Files /\ Signed(p) \in Manifest /\ Whole(p) \in Tree
  <1>1. Bundle(p) \in Files
    BY DEF Bundle, Unpacked, Files, Content
  <1>2. QED
    BY <1>1 DEF Signed, Whole, Manifest, Tree

\* Type correctness, in the parts that steps change.
RunType ==
    /\ published \in [Platforms -> [asset: BOOLEAN, checksum: BOOLEAN]]
    /\ pc \in Places
    /\ task \in {"vendor", "build", "clean"} /\ platform \in Platforms
    /\ data \in BOOLEAN /\ verified \in BOOLEAN
    /\ runs \in 0..MaxRuns /\ changes \in 0..MaxChanges
TreeType == {staging, vendor, before} \subseteq Tree \cup {NoTree}
GemType == packaged \subseteq [platform: Platforms, files: Files]

LEMMA TypeParts == TypeOK <=> RunType /\ TreeType /\ GemType
  BY DEF TypeOK, RunType, TreeType, GemType, Places

LEMMA TypePartsNext == TypeOK' <=> RunType' /\ TreeType' /\ GemType'
  BY DEF TypeOK, RunType, TreeType, GemType, Places

LEMMA EmptyTreeType == EmptyTree \in Tree
  BY DEF EmptyTree, Tree, Files

\* What verify_manifest! accepts of a part is the whole.
LEMMA PartVerified ==
    ASSUME NEW tree \in Tree, NEW p \in Platforms, NEW q \in Platforms,
           PartOf(tree, p), Verifies(tree, q)
    PROVE  p = q /\ tree = Whole(p)
  <1>1. tree.manifest = Signed(p)
    BY DEF PartOf, Verifies
  <1>2. p = q /\ tree.files = Bundle(p)
    BY <1>1 DEF Verifies, Listed, Signed
  <1>3. tree = [files |-> tree.files, manifest |-> tree.manifest]
    BY DEF Tree
  <1>4. QED
    BY <1>1, <1>2, <1>3 DEF Whole

\* A step of rm_rf leaves a part of the same bundle, and so does one of extraction.
LEMMA FilePut ==
    ASSUME NEW tree \in Tree, NEW p \in Platforms, PartOf(tree, p), NEW n \in Names,
           NEW f \in {NoFile, Bundle(p)[n]}
    PROVE  /\ [tree EXCEPT !.files[n] = f] \in Tree
           /\ PartOf([tree EXCEPT !.files[n] = f], p)
  <1> DEFINE files == [tree.files EXCEPT ![n] = f]
  <1>1. Bundle(p)[n] \in Content
    BY DEF Bundle, Unpacked, Content
  <1>2. files \in Files
    BY <1>1 DEF Tree, Files
  <1>3. [tree EXCEPT !.files[n] = f] = [files |-> files, manifest |-> tree.manifest]
    BY DEF Tree
  <1>4. \A m \in Names : files[m] \in {NoFile, Bundle(p)[m]}
    BY DEF PartOf, Tree, Files
  <1> HIDE DEF files
  <1>5. QED
    BY <1>2, <1>3, <1>4 DEF Tree, PartOf

LEMMA ManifestPut ==
    ASSUME NEW tree \in Tree, NEW p \in Platforms, PartOf(tree, p), NEW m \in {NoFile, Signed(p)}
    PROVE  /\ [tree EXCEPT !.manifest = m] \in Tree
           /\ PartOf([tree EXCEPT !.manifest = m], p)
  <1>1. [tree EXCEPT !.manifest = m] = [files |-> tree.files, manifest |-> m]
    BY DEF Tree
  <1>2. QED
    BY <1>1, BundleType DEF Tree, PartOf

LEMMA WholeIsPart ==
    ASSUME NEW p \in Platforms
    PROVE  PartOf(Whole(p), p)
  BY DEF Whole, PartOf

--------------------------------------------------------------------------------
(* The steps, one at a time.                                               *)

LEMMA StartRunInv ==
    ASSUME IInv, NEW t \in {"vendor", "build", "clean"}, NEW r \in Platforms, StartRun(t, r)
    PROVE  IInv'
  <1> USE VendorAssumption DEF IInv, TaskInv, StagingInv, VendorInv, UntouchedInv,
          StartRun, Goto, world
  <1>1. /\ pc' \in {"checksums", "check", "clean"}
        /\ pc' = "checksums" => task' = "vendor"
        /\ pc' = "clean" => task' = "clean"
    OBVIOUS
  <1>2. TypeOK'
    <2>1. RunType /\ TreeType /\ GemType
      BY TypeParts
    <2>2. RunType'
      <3>1. pc' \in Places /\ verified' \in BOOLEAN
        BY <1>1, Zenon DEF Places
      <3>2. runs' \in 0..MaxRuns
        BY <2>1 DEF RunType
      <3>3. QED
        BY <2>1, <3>1, <3>2 DEF RunType
    <2>3. TreeType'
      BY <2>1 DEF TreeType, Places
    <2>4. GemType'
      BY <2>1 DEF GemType, Places
    <2>5. QED
      BY <2>2, <2>3, <2>4, TypePartsNext
  <1>3. TaskInv'
    OBVIOUS
  <1>4. StagingInv'
    OBVIOUS
  <1>5. VendorInv'
    BY DEF TypeOK
  <1>6. UntouchedInv'
    BY DEF TouchedOnlyWhenVerified
  <1>7. PackagedReviewed'
    BY DEF PackagedReviewed
  <1>8. QED
    BY <1>2, <1>3, <1>4, <1>5, <1>6, <1>7

LEMMA FetchChecksumsInv ==
    ASSUME IInv, FetchChecksums
    PROVE  IInv'
  <1> USE VendorAssumption DEF IInv, TaskInv, StagingInv, VendorInv, UntouchedInv,
          FetchChecksums, Goto, world
  <1>1. TypeOK'
    BY DEF TypeOK
  <1>2. TaskInv'
    OBVIOUS
  <1>3. StagingInv'
    OBVIOUS
  <1>4. VendorInv'
    BY DEF TypeOK
  <1>5. UntouchedInv'
    BY DEF TouchedOnlyWhenVerified
  <1>6. PackagedReviewed'
    BY DEF PackagedReviewed
  <1>7. QED
    BY <1>1, <1>2, <1>3, <1>4, <1>5, <1>6

LEMMA FetchBundleInv ==
    ASSUME IInv, FetchBundle
    PROVE  IInv'
  <1> USE VendorAssumption DEF IInv, TaskInv, StagingInv, VendorInv, UntouchedInv,
          FetchBundle, Goto, world
  <1>1. pc' = "extract" => data' = TRUE /\ staging' = EmptyTree
    BY DEF Accepted, TypeOK
  <1>2. PartOf(EmptyTree, platform) /\ EmptyTree.manifest = NoFile
    BY DEF PartOf, EmptyTree
  <1>3. TypeOK'
    BY <1>1, EmptyTreeType DEF TypeOK
  <1>4. TaskInv'
    OBVIOUS
  <1>5. StagingInv'
    BY <1>1, <1>2, EmptyTreeType
  <1>6. VendorInv'
    BY DEF TypeOK
  <1>7. UntouchedInv'
    BY DEF TouchedOnlyWhenVerified
  <1>8. PackagedReviewed'
    BY DEF PackagedReviewed
  <1>9. QED
    BY <1>3, <1>4, <1>5, <1>6, <1>7, <1>8

LEMMA ExtractInv ==
    ASSUME IInv, Extract
    PROVE  IInv'
  <1> USE VendorAssumption DEF IInv, TaskInv, StagingInv, VendorInv, UntouchedInv,
          Extract, Goto, world
  <1>1. staging \in Tree /\ PartOf(staging, platform) /\ data = TRUE /\ platform \in Platforms
    BY DEF TypeOK
  <1>2. PICK n \in Names : /\ staging.files[n] = NoFile
                          /\ staging' = [staging EXCEPT !.files[n] = Bundle(platform)[n]]
    BY <1>1 DEF Bundle
  <1>3. staging' \in Tree /\ PartOf(staging', platform) /\ staging'.manifest = NoFile
    <2>1. staging'.manifest = staging.manifest
      BY <1>1, <1>2 DEF Tree
    <2>2. QED
      BY <1>1, <1>2, <2>1, FilePut
  <1>4. pc' = "manifest" => staging'.files = Bundle(platform)
    <2>1. ASSUME pc' = "manifest"
          PROVE  \A m \in Names : staging'.files[m] = Bundle(platform)[m]
      BY <1>3, <2>1 DEF PartOf
    <2>2. QED
      BY <1>3, <2>1 DEF Tree, Files, Bundle, Unpacked
  <1>5. TypeOK'
    <2>1. RunType /\ TreeType /\ GemType
      BY TypeParts
    <2>2. RunType'
      BY <2>1 DEF RunType, Places
    <2>3. TreeType'
      BY <2>1, <1>3 DEF TreeType, Places
    <2>4. GemType'
      BY <2>1 DEF GemType, Places
    <2>5. QED
      BY <2>2, <2>3, <2>4, TypePartsNext
  <1>6. TaskInv'
    OBVIOUS
  <1>7. StagingInv'
    BY <1>1, <1>3, <1>4
  <1>8. VendorInv'
    BY DEF TypeOK
  <1>9. UntouchedInv'
    BY DEF TouchedOnlyWhenVerified
  <1>10. PackagedReviewed'
    BY DEF PackagedReviewed
  <1>11. QED
    BY <1>5, <1>6, <1>7, <1>8, <1>9, <1>10

LEMMA WriteManifestInv ==
    ASSUME IInv, WriteManifest
    PROVE  IInv'
  <1> USE VendorAssumption DEF IInv, TaskInv, StagingInv, VendorInv, UntouchedInv,
          WriteManifest, Goto, world
  <1>1. /\ staging' = Whole(platform)
        /\ Whole(platform) \in Tree
        /\ pc' = "verify"
    BY BundleType DEF TypeOK, Whole, Signed, Recorded, Tree, AfterStaging
  <1>2. TypeOK'
    <2>1. RunType /\ TreeType /\ GemType
      BY TypeParts
    <2>2. RunType'
      BY <2>1, <1>1 DEF RunType, Places
    <2>3. TreeType'
      BY <2>1, <1>1 DEF TreeType, Places
    <2>4. GemType'
      BY <2>1 DEF GemType, Places
    <2>5. QED
      BY <2>2, <2>3, <2>4, TypePartsNext
  <1>3. TaskInv'
    BY <1>1
  <1>4. StagingInv'
    BY <1>1
  <1>5. VendorInv'
    BY <1>1 DEF TypeOK
  <1>6. UntouchedInv'
    BY DEF TouchedOnlyWhenVerified
  <1>7. PackagedReviewed'
    BY DEF PackagedReviewed
  <1>8. QED
    BY <1>2, <1>3, <1>4, <1>5, <1>6, <1>7

LEMMA VerifyStagingInv ==
    ASSUME IInv, VerifyStaging
    PROVE  IInv'
  <1> USE VendorAssumption DEF IInv, TaskInv, StagingInv, VendorInv, UntouchedInv,
          VerifyStaging, Goto, world
  <1>1. verified' \in BOOLEAN
    BY Zenon DEF VerifyStaging, Verifies
  <1>2. TypeOK'
    <2>1. RunType /\ TreeType /\ GemType
      BY TypeParts
    <2>2. RunType'
      BY <2>1, <1>1 DEF RunType, Places
    <2>3. TreeType'
      BY <2>1 DEF TreeType, Places
    <2>4. GemType'
      BY <2>1 DEF GemType, Places
    <2>5. QED
      BY <2>2, <2>3, <2>4, TypePartsNext
  <1>3. TaskInv'
    OBVIOUS
  <1>4. StagingInv'
    OBVIOUS
  <1>5. VendorInv'
    BY DEF TypeOK
  <1>6. UntouchedInv'
    BY DEF TouchedOnlyWhenVerified
  <1>7. PackagedReviewed'
    BY DEF PackagedReviewed
  <1>8. QED
    BY <1>2, <1>3, <1>4, <1>5, <1>6, <1>7

LEMMA ClearVendorInv ==
    ASSUME IInv, ClearVendor
    PROVE  IInv'
  <1>1. \/ \E n \in Names : vendor' = [vendor EXCEPT !.files[n] = NoFile]
        \/ vendor' = [vendor EXCEPT !.manifest = NoFile]
        \/ vendor' = NoTree
    BY Zenon DEF ClearVendor
  <1>2. vendor \in Tree
    BY DEF TypeOK, IInv, ClearVendor
  <1>3. PICK p \in Platforms : PartOf(vendor, p)
    BY DEF IInv, VendorInv, ClearVendor
  <1>4. vendor' # NoTree => vendor' \in Tree /\ PartOf(vendor', p)
    <2>1. CASE \E n \in Names : vendor' = [vendor EXCEPT !.files[n] = NoFile]
      BY <1>2, <1>3, <2>1, FilePut
    <2>2. CASE vendor' = [vendor EXCEPT !.manifest = NoFile]
      BY <1>2, <1>3, <2>2, ManifestPut
    <2>3. QED
      BY <1>1, <2>1, <2>2
  <1> USE VendorAssumption DEF IInv, TaskInv, StagingInv, VendorInv, UntouchedInv,
          ClearVendor, Goto, world
  <1>5. TypeOK'
    <2>1. RunType /\ TreeType /\ GemType
      BY TypeParts
    <2>2. RunType'
      BY <2>1 DEF RunType, Places
    <2>3. TreeType'
      BY <2>1, <1>4 DEF TreeType, Places
    <2>4. GemType'
      BY <2>1 DEF GemType, Places
    <2>5. QED
      BY <2>2, <2>3, <2>4, TypePartsNext
  <1>6. TaskInv'
    OBVIOUS
  <1>7. StagingInv'
    OBVIOUS
  <1>8. VendorInv'
    BY <1>3, <1>4
  <1>9. UntouchedInv'
    BY DEF TouchedOnlyWhenVerified
  <1>10. PackagedReviewed'
    BY DEF PackagedReviewed
  <1>11. QED
    BY <1>5, <1>6, <1>7, <1>8, <1>9, <1>10

LEMMA RenameInv ==
    ASSUME IInv, Rename
    PROVE  IInv'
  <1> USE VendorAssumption DEF IInv, TaskInv, StagingInv, VendorInv, UntouchedInv, Rename,
          Goto, world
  <1>1. TypeOK'
    BY DEF TypeOK
  <1>2. TaskInv'
    OBVIOUS
  <1>3. StagingInv'
    OBVIOUS
  <1>4. VendorInv'
    BY WholeIsPart DEF TypeOK
  <1>5. UntouchedInv'
    BY DEF TouchedOnlyWhenVerified
  <1>6. PackagedReviewed'
    BY DEF PackagedReviewed
  <1>7. QED
    BY <1>1, <1>2, <1>3, <1>4, <1>5, <1>6

LEMMA CheckVendorInv ==
    ASSUME IInv, CheckVendor
    PROVE  IInv'
  <1> USE VendorAssumption DEF IInv, TaskInv, StagingInv, VendorInv, UntouchedInv,
          CheckVendor, Goto, world
  <1>1. TypeOK'
    BY DEF TypeOK
  <1>2. TaskInv'
    OBVIOUS
  <1>3. StagingInv'
    OBVIOUS
  <1>4. VendorInv'
    <2>1. ASSUME pc' = "package"
          PROVE  vendor.files = Bundle(platform)
      <3>1. Verifies(vendor, platform)
        BY <2>1
      <3>2. vendor \in Tree /\ vendor # NoTree /\ platform \in Platforms
        BY <3>1 DEF TypeOK, Verifies
      <3>3. PICK p \in Platforms : PartOf(vendor, p)
        BY <3>2
      <3>4. QED
        BY <3>1, <3>2, <3>3, PartVerified DEF Whole
    <2>2. QED
      BY <2>1
  <1>5. UntouchedInv'
    BY DEF TouchedOnlyWhenVerified
  <1>6. PackagedReviewed'
    BY DEF PackagedReviewed
  <1>7. QED
    BY <1>1, <1>2, <1>3, <1>4, <1>5, <1>6

LEMMA PackageInv ==
    ASSUME IInv, Package
    PROVE  IInv'
  <1> USE VendorAssumption DEF IInv, TaskInv, StagingInv, VendorInv, UntouchedInv,
          Package, Goto, world
  <1>1. vendor.files = Bundle(platform) /\ platform \in Platforms
    BY DEF TypeOK
  <1>2. TypeOK'
    <2>1. RunType /\ TreeType /\ GemType
      BY TypeParts
    <2>2. RunType'
      BY <2>1 DEF RunType, Places
    <2>3. TreeType'
      BY <2>1 DEF TreeType, Places
    <2>4. GemType'
      BY <2>1, <1>1, BundleType DEF GemType, Places
    <2>5. QED
      BY <2>2, <2>3, <2>4, TypePartsNext
  <1>3. TaskInv'
    OBVIOUS
  <1>4. StagingInv'
    OBVIOUS
  <1>5. VendorInv'
    BY DEF TypeOK
  <1>6. UntouchedInv'
    BY DEF TouchedOnlyWhenVerified
  <1>7. PackagedReviewed'
    <2>1. ASSUME NEW g \in packaged'
          PROVE  g.files = Unpacked(g.platform, TRUE)
      <3>1. CASE g \in packaged
        BY <3>1 DEF PackagedReviewed
      <3>2. CASE g = [platform |-> platform, files |-> Bundle(platform)]
        BY <3>2 DEF Bundle
      <3>3. QED
        BY <1>1, <3>1, <3>2
    <2>2. QED
      BY <2>1 DEF PackagedReviewed
  <1>8. QED
    BY <1>2, <1>3, <1>4, <1>5, <1>6, <1>7

LEMMA CleanInv ==
    ASSUME IInv, Clean
    PROVE  IInv'
  <1> USE VendorAssumption DEF IInv, TaskInv, StagingInv, VendorInv, UntouchedInv, Clean,
          Goto, world
  <1>1. TypeOK'
    BY DEF TypeOK
  <1>2. TaskInv'
    OBVIOUS
  <1>3. StagingInv'
    OBVIOUS
  <1>4. VendorInv'
    BY DEF TypeOK
  <1>5. UntouchedInv'
    BY DEF TouchedOnlyWhenVerified
  <1>6. PackagedReviewed'
    BY DEF PackagedReviewed
  <1>7. QED
    BY <1>1, <1>2, <1>3, <1>4, <1>5, <1>6

LEMMA StepFailsInv ==
    ASSUME IInv, StepFails
    PROVE  IInv'
  <1> USE VendorAssumption DEF IInv, TaskInv, StagingInv, VendorInv, UntouchedInv,
          StepFails, Goto, world
  <1>1. TypeOK'
    BY DEF TypeOK
  <1>2. TaskInv'
    OBVIOUS
  <1>3. StagingInv'
    OBVIOUS
  <1>4. VendorInv'
    BY DEF TypeOK
  <1>5. UntouchedInv'
    BY DEF TouchedOnlyWhenVerified
  <1>6. PackagedReviewed'
    BY DEF PackagedReviewed
  <1>7. QED
    BY <1>1, <1>2, <1>3, <1>4, <1>5, <1>6

LEMMA CleanUpInv ==
    ASSUME IInv, CleanUp
    PROVE  IInv'
  <1> USE VendorAssumption DEF IInv, TaskInv, StagingInv, VendorInv, UntouchedInv,
          CleanUp, Goto, world
  <1>1. TypeOK'
    BY DEF TypeOK
  <1>2. TaskInv'
    OBVIOUS
  <1>3. StagingInv'
    OBVIOUS
  <1>4. VendorInv'
    BY DEF TypeOK
  <1>5. UntouchedInv'
    BY DEF TouchedOnlyWhenVerified
  <1>6. PackagedReviewed'
    BY DEF PackagedReviewed
  <1>7. QED
    BY <1>1, <1>2, <1>3, <1>4, <1>5, <1>6

LEMMA CrashInv ==
    ASSUME IInv, Crash
    PROVE  IInv'
  <1> USE VendorAssumption DEF IInv, TaskInv, StagingInv, VendorInv, UntouchedInv, Crash,
          Goto, world
  <1>1. TypeOK'
    BY DEF TypeOK
  <1>2. TaskInv'
    OBVIOUS
  <1>3. StagingInv'
    OBVIOUS
  <1>4. VendorInv'
    BY DEF TypeOK
  <1>5. UntouchedInv'
    BY DEF TouchedOnlyWhenVerified
  <1>6. PackagedReviewed'
    BY DEF PackagedReviewed
  <1>7. QED
    BY <1>1, <1>2, <1>3, <1>4, <1>5, <1>6

LEMMA ChangeReleaseInv ==
    ASSUME IInv, ChangeRelease
    PROVE  IInv'
  <1> USE VendorAssumption DEF IInv, TaskInv, StagingInv, VendorInv, UntouchedInv,
          ChangeRelease, Goto, world
  <1>1. TypeOK'
    BY DEF TypeOK
  <1>2. TaskInv'
    OBVIOUS
  <1>3. StagingInv'
    OBVIOUS
  <1>4. VendorInv'
    BY DEF TypeOK
  <1>5. UntouchedInv'
    BY DEF TouchedOnlyWhenVerified
  <1>6. PackagedReviewed'
    BY DEF PackagedReviewed
  <1>7. QED
    BY <1>1, <1>2, <1>3, <1>4, <1>5, <1>6

LEMMA InitInv ==
    ASSUME Init
    PROVE  IInv
  <1>1. TypeOK
    <2>1. RunType
      <3>1. 0 \in 0..MaxRuns /\ 0 \in 0..MaxChanges
        BY VendorAssumption
      <3>2. published \in [Platforms -> [asset: BOOLEAN, checksum: BOOLEAN]]
        BY DEF Init
      <3>3. pc \in Places /\ task \in {"vendor", "build", "clean"} /\ platform \in Platforms
        BY DEF Init, Places
      <3>4. data \in BOOLEAN /\ verified \in BOOLEAN /\ runs = 0 /\ changes = 0
        BY Zenon DEF Init
      <3>5. QED
        BY <3>1, <3>2, <3>3, <3>4 DEF RunType
    <2>2. TreeType /\ GemType
      BY DEF Init, TreeType, GemType
    <2>3. QED
      BY <2>1, <2>2, TypeParts
  <1>2. TaskInv /\ StagingInv /\ VendorInv
    BY DEF Init, TaskInv, StagingInv, VendorInv
  <1>3. UntouchedInv /\ PackagedReviewed
    BY DEF Init, UntouchedInv, TouchedOnlyWhenVerified, PackagedReviewed
  <1>4. QED
    BY <1>1, <1>2, <1>3 DEF IInv

LEMMA NextInv ==
    ASSUME IInv, [Next]_vars
    PROVE  IInv'
  <1>1. CASE UNCHANGED vars
    <2>1. TypeOK' /\ TaskInv' /\ StagingInv'
      BY <1>1 DEF IInv, TypeOK, TaskInv, StagingInv, vars, world
    <2>2. VendorInv' /\ UntouchedInv' /\ PackagedReviewed'
      BY <1>1 DEF IInv, VendorInv, UntouchedInv, TouchedOnlyWhenVerified,
         PackagedReviewed, vars
    <2>3. QED
      BY <2>1, <2>2 DEF IInv
  <1>2. CASE Next
    BY <1>2, StartRunInv, FetchChecksumsInv, FetchBundleInv, ExtractInv, WriteManifestInv,
       VerifyStagingInv, ClearVendorInv, RenameInv, CheckVendorInv, PackageInv, CleanInv,
       StepFailsInv, CleanUpInv, CrashInv, ChangeReleaseInv DEF Next
  <1>3. QED
    BY <1>1, <1>2

--------------------------------------------------------------------------------
(* The theorems.                                                           *)

\* The invariant holds in every state.
THEOREM Invariant == Spec => []IInv
  <1>1. Init => IInv
    BY InitInv
  <1>2. IInv /\ [Next]_vars => IInv'
    BY NextInv
  <1>3. QED
    BY <1>1, <1>2, PTL DEF Spec

\* Type correctness: trees, manifests and gems are well-formed after any crash.
THEOREM TypeCorrect == Spec => []TypeOK
  <1>1. IInv => TypeOK
    BY DEF IInv
  <1>2. QED
    BY <1>1, Invariant, PTL

\* Nothing unverified is ever packaged (vendor!, rake build).
THEOREM PackagedReviewedSound == Spec => []PackagedReviewed
  <1>1. IInv => PackagedReviewed
    BY DEF IInv
  <1>2. QED
    BY <1>1, Invariant, PTL

\* A run that fails before its tree is verified leaves vendor/ as it was (vendor!).
THEOREM TouchedSound == Spec => []TouchedOnlyWhenVerified
  <1>1. IInv => TouchedOnlyWhenVerified
    BY DEF IInv, UntouchedInv
  <1>2. QED
    BY <1>1, Invariant, PTL

\* No partial tree passes for a whole one (verify_manifest!).
THEOREM AcceptsSound == Spec => []AcceptsOnlyWhole
  <1>1. ASSUME IInv
        PROVE  AcceptsOnlyWhole
    <2>1. SUFFICES ASSUME NEW p \in Platforms, Verifies(vendor, p)
                   PROVE  vendor.files = Bundle(p)
      BY DEF AcceptsOnlyWhole, Bundle
    <2>2. vendor \in Tree /\ vendor # NoTree
      BY <1>1, <2>1 DEF IInv, TypeOK, Verifies
    <2>3. PICK q \in Platforms : PartOf(vendor, q)
      BY <1>1, <2>2 DEF IInv, VendorInv
    <2>4. q = p /\ vendor = Whole(q)
      BY <2>1, <2>2, <2>3, PartVerified
    <2>5. QED
      BY <2>4 DEF Whole
  <1>2. QED
    BY <1>1, Invariant, PTL

================================================================================
