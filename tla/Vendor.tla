-------------------------------- MODULE Vendor --------------------------------
(***************************************************************************)
(* The build pipeline of the companion gem (binaries/tasks/vendor.rb and   *)
(* binaries/Rakefile): vendor! downloads one platform's runtime bundle,    *)
(* checks it against the digests reviewed into the repository, unpacks it  *)
(* beside vendor/, and puts it in the place of vendor/; rake build checks  *)
(* vendor/ against its manifest and packages it.                           *)
(*                                                                         *)
(* The upstream release may change under the pipeline, a run may fail, be  *)
(* interrupted or be killed between any two steps, and the next one starts *)
(* from whatever that left in the file system.                             *)
(***************************************************************************)
EXTENDS Naturals

CONSTANTS
    Platforms,     \* PLATFORMS
    MaxRuns,       \* bound: runs of rake vendor and rake build
    MaxChanges,    \* bound: times the release is changed upstream
    NoTree, NoFile

ASSUME VendorAssumption == MaxRuns \in Nat /\ MaxChanges \in Nat

\* A bundle holds the runtime binary and the firmware; the reviewed bundle of a
\* platform is told from whatever else has been published under its name.
Names == {"msb", "libkrunfw"}
Content == [platform: Platforms, reviewed: BOOLEAN]
Files == [Names -> Content \cup {NoFile}]
\* The manifest says for which platform and with which files the tree was staged.
Manifest == [platform: Platforms, files: Files]
Tree == [files: Files, manifest: Manifest \cup {NoFile}]

VARIABLES
    published,   \* for each platform: is the asset, is its checksum entry, the reviewed one?
    pc,          \* where the running task is; "idle" between runs
    task,        \* "vendor", "build" or "clean"
    platform,    \* its argument
    data,        \* the bundle downloaded: the reviewed one?
    staging,     \* vendor.staging-<pid>
    vendor,      \* vendor/
    before,      \* history: vendor/ when the run started
    verified,    \* history: this run has verified its staging tree
    packaged,    \* the gems built: platform and tree
    runs, changes

world == <<published, changes>>
vars == <<world, pc, task, platform, data, staging, vendor, before, verified, packaged, runs>>

--------------------------------------------------------------------------------
(* Trees.                                                                  *)

EmptyTree == [files |-> [n \in Names |-> NoFile], manifest |-> NoFile]
Unpacked(p, ok) == [n \in Names |-> [platform |-> p, reviewed |-> ok]]

\* MUTANT of Listed: a file that is missing is not noticed.
ListedIfPresent(tree) ==
    \A n \in Names : tree.files[n] # NoFile => tree.files[n] = tree.manifest.files[n]
\* Every file of the manifest is there, with the digest recorded - and no other.
Listed(tree) == tree.files = tree.manifest.files

\* verify_manifest!
Verifies(tree, p) ==
    /\ tree # NoTree
    /\ tree.manifest # NoFile
    /\ tree.manifest.platform = p
    /\ \A n \in Names : tree.manifest.files[n] # NoFile
    /\ Listed(tree)

Goto(place) == pc' = place

--------------------------------------------------------------------------------
(* rake vendor.                                                            *)

StartRun(t, p) ==
    /\ pc = "idle"
    /\ runs < MaxRuns
    /\ runs' = runs + 1
    /\ task' = t
    /\ platform' = p
    /\ Goto([vendor |-> "checksums", build |-> "check", clean |-> "clean"][t])
    /\ before' = vendor
    /\ verified' = FALSE
    /\ UNCHANGED <<world, data, staging, vendor, packaged>>

\* The live checksum file has to agree with the reviewed one.
FetchChecksums ==
    /\ pc = "checksums"
    /\ Goto(IF published[platform].checksum THEN "bundle" ELSE "failed")
    /\ UNCHANGED <<world, task, platform, data, staging, vendor, before, verified, packaged, runs>>

\* MUTANT of Accepted: the digest is checked against the live checksum file.
AcceptedLive(p) == published[p].asset = published[p].checksum
\* The asset downloaded has the reviewed digest.
Accepted(p) == published[p].asset

\* The bundle is downloaded and verified; a leftover staging directory is removed.
FetchBundle ==
    /\ pc = "bundle"
    /\ data' = published[platform].asset
    /\ IF Accepted(platform)
       THEN Goto("extract") /\ staging' = EmptyTree
       ELSE Goto("failed") /\ UNCHANGED staging
    /\ UNCHANGED <<world, task, platform, vendor, before, verified, packaged, runs>>

\* extract_bundle!, an entry at a time.
Extract ==
    /\ pc = "extract"
    /\ \E n \in Names :
         /\ staging.files[n] = NoFile
         /\ staging' = [staging EXCEPT !.files[n] = Unpacked(platform, data)[n]]
    /\ Goto(IF \E n \in Names : staging'.files[n] = NoFile THEN "extract" ELSE "manifest")
    /\ UNCHANGED <<world, task, platform, data, vendor, before, verified, packaged, runs>>

\* MUTANT of AfterStaging: vendor/ is cleared before the manifest check.
ClearFirst == "clear"
AfterStaging == "verify"

\* MUTANT of Recorded: the manifest does not say what platform the tree is for.
RecordedBare == [files |-> staging.files]
Recorded == [platform |-> platform, files |-> staging.files]

\* write_manifest!
WriteManifest ==
    /\ pc = "manifest"
    /\ staging' = [staging EXCEPT !.manifest = Recorded]
    /\ Goto(AfterStaging)
    /\ UNCHANGED <<world, task, platform, data, vendor, before, verified, packaged, runs>>

VerifyStaging ==
    /\ pc = "verify"
    /\ verified' = Verifies(staging, platform)
    /\ Goto(IF verified' THEN "clear" ELSE "failed")
    /\ UNCHANGED <<world, task, platform, data, staging, vendor, before, packaged, runs>>

\* rm_rf(vendor_dir), an entry at a time in whatever order the directory has.
ClearVendor ==
    /\ pc \in {"clear", "clean"}
    /\ vendor # NoTree
    /\ \/ \E n \in Names :
            /\ vendor.files[n] # NoFile
            /\ vendor' = [vendor EXCEPT !.files[n] = NoFile]
       \/ vendor.manifest # NoFile /\ vendor' = [vendor EXCEPT !.manifest = NoFile]
       \/ vendor = EmptyTree /\ vendor' = NoTree
    /\ UNCHANGED <<world, pc, task, platform, data, staging, before, verified, packaged, runs>>

\* File.rename(staging, vendor_dir).
Rename ==
    /\ pc = "clear"
    /\ vendor = NoTree
    /\ vendor' = staging
    /\ staging' = NoTree
    /\ Goto("idle")
    /\ UNCHANGED <<world, task, platform, data, before, verified, packaged, runs>>

--------------------------------------------------------------------------------
(* rake build.                                                             *)

CheckVendor ==
    /\ pc = "check"
    /\ Goto(IF Verifies(vendor, platform) THEN "package" ELSE "failed")
    /\ UNCHANGED <<world, task, platform, data, staging, vendor, before, verified, packaged, runs>>

Package ==
    /\ pc = "package"
    /\ packaged' = packaged \cup {[platform |-> platform, files |-> vendor.files]}
    /\ Goto("idle")
    /\ UNCHANGED <<world, task, platform, data, staging, vendor, before, verified, runs>>

--------------------------------------------------------------------------------
(* rake clean: ClearVendor, and done. The gems it removes stay in packaged: *)
(* they may have been published.                                           *)

Clean ==
    /\ pc = "clean"
    /\ vendor = NoTree
    /\ Goto("idle")
    /\ UNCHANGED <<world, task, platform, data, staging, vendor, before, verified, packaged, runs>>

--------------------------------------------------------------------------------
(* What goes wrong.                                                        *)

\* A step raises: the network, the disk, a malformed bundle, Ctrl-C.
StepFails ==
    /\ pc \notin {"idle", "failed"}
    /\ Goto("failed")
    /\ UNCHANGED <<world, task, platform, data, staging, vendor, before, verified, packaged, runs>>

\* The ensure of vendor! removes the staging directory, and the exception ends the run.
CleanUp ==
    /\ pc = "failed"
    /\ staging' = IF task = "vendor" THEN NoTree ELSE staging
    /\ Goto("idle")
    /\ UNCHANGED <<world, task, platform, data, vendor, before, verified, packaged, runs>>

\* The run is killed: nothing is cleaned up.
Crash ==
    /\ pc # "idle"
    /\ Goto("idle")
    /\ UNCHANGED <<world, task, platform, data, staging, vendor, before, verified, packaged, runs>>

\* "A GitHub release is mutable": the asset, its checksum entry, or both at once.
ChangeRelease ==
    /\ changes < MaxChanges
    /\ changes' = changes + 1
    /\ \E p \in Platforms, asset, checksum \in BOOLEAN :
         published' = [published EXCEPT ![p] = [asset |-> asset, checksum |-> checksum]]
    /\ UNCHANGED <<pc, task, platform, data, staging, vendor, before, verified, packaged, runs>>

Init ==
    /\ published = [p \in Platforms |-> [asset |-> TRUE, checksum |-> TRUE]]
    /\ pc = "idle" /\ task = "vendor" /\ platform \in Platforms
    /\ data = FALSE /\ staging = NoTree /\ vendor = NoTree /\ before = NoTree
    /\ verified = FALSE /\ packaged = {} /\ runs = 0 /\ changes = 0

Next ==
    \/ \E t \in {"vendor", "build", "clean"}, p \in Platforms : StartRun(t, p)
    \/ FetchChecksums \/ FetchBundle \/ Extract \/ WriteManifest \/ VerifyStaging
    \/ ClearVendor \/ Rename \/ CheckVendor \/ Package \/ Clean
    \/ StepFails \/ CleanUp \/ Crash \/ ChangeRelease

Spec == Init /\ [][Next]_vars

--------------------------------------------------------------------------------
TypeOK ==
    /\ published \in [Platforms -> [asset: BOOLEAN, checksum: BOOLEAN]]
    /\ pc \in {"idle", "checksums", "bundle", "extract", "manifest", "verify", "clear",
               "check", "package", "clean", "failed"}
    /\ task \in {"vendor", "build", "clean"} /\ platform \in Platforms /\ data \in BOOLEAN
    /\ staging \in Tree \cup {NoTree} /\ vendor \in Tree \cup {NoTree}
    /\ before \in Tree \cup {NoTree}
    /\ verified \in BOOLEAN
    /\ packaged \subseteq [platform: Platforms, files: Files]
    /\ runs \in 0..MaxRuns /\ changes \in 0..MaxChanges

\* "Nothing unverified is ever packaged": a gem carries the complete, reviewed
\* runtime of its own platform, whatever happened upstream and to earlier runs.
PackagedReviewed == \A g \in packaged : g.files = Unpacked(g.platform, TRUE)

\* Unless it is asked to remove it, a run touches vendor/ only when it has a verified
\* tree to put there: one that fails earlier leaves the previous runtime as it was.
TouchedOnlyWhenVerified == vendor # before => verified \/ task = "clean"

\* What verify_manifest! accepts is a complete runtime, although vendor/ may be left
\* half deleted: no partial tree passes for a whole one.
AcceptsOnlyWhole ==
    \A p \in Platforms : Verifies(vendor, p) => vendor.files = Unpacked(p, TRUE)

================================================================================
