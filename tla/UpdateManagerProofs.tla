------------------------ MODULE UpdateManagerProofs ------------------------
(***************************************************************************)
(* UpdateInv is an inductive invariant of UpdateManager, for any releases, *)
(* manifests, files and directories: the update that is offered, launched  *)
(* and installed is one the release key signed for a newer version.        *)
(***************************************************************************)
EXTENDS UpdateManager, TLAPS

\* What a DownloadUpdate() that finds a free updater does, and that one that
\* finds a download under way does nothing but report a missing asset.
LEMMA DownloadSteps ==
  ASSUME NEW st \in States, NEW a, NEW m, NEW s, NEW keep,
         DownloadEffect(st, a, m, s, keep)
  PROVE  \/ /\ state' \in {"Error", "Available"}
            /\ loader' = keep
            /\ UNCHANGED verification
            /\ st \notin {"Downloading", "Verifying", "Installing"} \/ a = NoVersion
         \/ /\ st \in {"Downloading", "Verifying", "Installing"}
            /\ state' = st
            /\ loader' = keep
            /\ UNCHANGED verification
         \/ /\ HasKey /\ a # NoVersion
            /\ st \notin {"Downloading", "Verifying", "Installing"}
            /\ state' = "Downloading"
            /\ loader' = "manifest"
            /\ ResetVerification
  BY DEF DownloadEffect

\* The types of what a call to DownloadUpdate() changes.
LEMMA DownloadTypes ==
  ASSUME TypeOK, NEW st \in States, NEW a, NEW m, NEW s,
         NEW keep \in {"none", "check", "fallback", "manifest", "signature", "installer"},
         DownloadEffect(st, a, m, s, keep)
  PROVE  /\ state' \in States
         /\ loader' \in {"none", "check", "fallback", "manifest", "signature", "installer"}
         /\ manifest_body' \in SUBSET Manifests
         /\ expected' \in Files \cup {NoFile}
         /\ verified' \in BOOLEAN
         /\ downloaded' \in Dirs \cup {NoDir}
<1>1. CASE UNCHANGED verification
  BY <1>1, DownloadSteps DEF verification, TypeOK, States
<1>2. CASE ResetVerification
  BY <1>2, DownloadSteps DEF ResetVerification, TypeOK, States
<1> QED
  BY <1>1, <1>2, DownloadSteps

LEMMA AnnounceTypes ==
  ASSUME TypeOK, NEW tag, NEW a, NEW m, NEW s, Announce(tag, a, m, s)
  PROVE  /\ state' \in States
         /\ loader' \in {"none", "check", "fallback", "manifest", "signature", "installer"}
         /\ manifest_body' \in SUBSET Manifests
         /\ expected' \in Files \cup {NoFile}
         /\ verified' \in BOOLEAN
         /\ downloaded' \in Dirs \cup {NoDir}
<1>1. CASE DownloadEffect("Available", a, m, s, "none")
  BY <1>1, DownloadTypes, "Available" \in States DEF States
<1>2. CASE state' \in {"UpToDate", "Available"} /\ loader' = "none" /\ UNCHANGED verification
  BY <1>2 DEF verification, TypeOK, States
<1> QED
  BY <1>1, <1>2 DEF Announce

\* One step keeps the types.
LEMMA TypeStep ==
  ASSUME UpdateInv, [Next]_vars
  PROVE  TypeOK'
<1> USE VersionAssumption
<1>0. TypeOK /\ Outstanding /\ ReadyIsSignedRelease
  BY DEF UpdateInv
<1> USE <1>0
<1>1. CASE UNCHANGED vars
  BY <1>1 DEF TypeOK, vars, release, verification
<1>2. CASE Initialize \/ CheckForUpdates \/ OnCheckFailed \/ OnTransferFailed \/ Exit
  <2>1. CASE Initialize \/ Exit
    BY ZenonT(60), <2>1 DEF TypeOK, Initialize, Exit, States, release, verification
  <2>2. CASE CheckForUpdates
    BY <2>2 DEF TypeOK, CheckForUpdates, States, release, verification
  <2>3. CASE OnCheckFailed \/ OnTransferFailed
    BY <2>3 DEF TypeOK, OnCheckFailed, OnTransferFailed, States, release, verification
  <2> QED
    BY <1>2, <2>1, <2>2, <2>3
<1>3. CASE DownloadUpdate
  <2>1. state \in States
    BY DEF TypeOK
  <2>2. loader \in {"none", "check", "fallback", "manifest", "signature", "installer"}
    BY DEF TypeOK
  <2>3. DownloadEffect(state, asset, manifest_url, signature_url, loader)
    BY <1>3 DEF DownloadUpdate
  <2> QED
    BY <1>3, <2>1, <2>2, <2>3, DownloadTypes DEF TypeOK, DownloadUpdate, release
<1>4. ASSUME NEW enabled \in BOOLEAN, SetAutoUpdate(enabled) PROVE TypeOK'
  <2>1. state \in States
    BY DEF TypeOK
  <2>2. loader \in {"none", "check", "fallback", "manifest", "signature", "installer"}
    BY DEF TypeOK
  <2>3. CASE DownloadEffect(state, asset, manifest_url, signature_url, loader)
    BY <1>4, <2>1, <2>2, <2>3, DownloadTypes DEF TypeOK, SetAutoUpdate, release
  <2>4. CASE UNCHANGED <<state, loader, verification>>
    BY <1>4, <2>4 DEF TypeOK, SetAutoUpdate, release, verification
  <2> QED
    BY <1>4, <2>3, <2>4 DEF SetAutoUpdate
<1>5. ASSUME NEW tag \in Versions, NEW a \in OfficialUrls(tag), NEW m \in OfficialUrls(tag),
             NEW s \in OfficialUrls(tag), OnCheckResponse(tag, a, m, s)
      PROVE  TypeOK'
  BY <1>5, AnnounceTypes DEF TypeOK, OnCheckResponse, OfficialUrls
<1>6. ASSUME NEW tag \in Versions, OnFallbackHeaders(tag) PROVE TypeOK'
  BY <1>6, AnnounceTypes DEF TypeOK, OnFallbackHeaders, NoVersion
<1>7. CASE ResolveCheckFailure
  BY <1>7 DEF TypeOK, ResolveCheckFailure, States, release, verification
<1>8. ASSUME NEW m \in Manifests, OnManifestFetched(m) PROVE TypeOK'
  BY <1>8 DEF TypeOK, OnManifestFetched, States, release
<1>9. ASSUME NEW valid \in BOOLEAN, OnSignatureFetched(valid) PROVE TypeOK'
  <2>1. CASE ResetVerification /\ UNCHANGED <<dir, disk>> /\ state' = "Error" /\ loader' = "none"
    BY ZenonT(60), <1>9, <2>1 DEF TypeOK, OnSignatureFetched, ResetVerification, States, release
  <2>2. CASE /\ \E m \in manifest_body : PolicyAccepts(m) /\ expected' = m.file
             /\ disk' = DiskWithoutDir
             /\ UNCHANGED <<manifest_body, verified, downloaded>>
             /\ dir' \in FreshDirs \/ dir' = NoDir
             /\ state' \in {state, "Error"}
             /\ loader' \in {"installer", "none"}
    <3>1. expected' \in Files \cup {NoFile}
      BY <2>2 DEF TypeOK, Manifests
    <3>2. disk' \in [Dirs -> Files \cup {NoFile}]
      BY <2>2 DEF TypeOK, DiskWithoutDir
    <3> QED
      BY <1>9, <2>2, <3>1, <3>2 DEF TypeOK, OnSignatureFetched, FreshDirs, States, release
  <2> QED
    BY <1>9, <2>1, <2>2 DEF OnSignatureFetched
<1>10. ASSUME NEW f \in Files, OnDownloadComplete(f) PROVE TypeOK'
  <2>1. dir \in Dirs
    BY <1>10 DEF TypeOK, Outstanding, OnDownloadComplete
  <2>2. disk' \in [Dirs -> Files \cup {NoFile}]
    BY <1>10 DEF TypeOK, OnDownloadComplete
  <2>3. hashes' \in SUBSET [path : Dirs, sha : SUBSET (Files \cup {NoFile})]
    BY <1>10, <2>1 DEF TypeOK, OnDownloadComplete
  <2> QED
    BY <1>10, <2>2, <2>3 DEF TypeOK, OnDownloadComplete, States, release, verification
<1>11. ASSUME NEW h \in hashes, NEW sha \in Files \cup {NoFile}, HashFile(h, sha) PROVE TypeOK'
  <2>1. [h EXCEPT !.sha = {sha}] \in [path : Dirs, sha : SUBSET (Files \cup {NoFile})]
    BY DEF TypeOK
  <2> QED
    BY <1>11, <2>1 DEF TypeOK, HashFile, release, verification
<1>12. ASSUME NEW h \in hashes, NEW sizeOk \in BOOLEAN, OnInstallerHashed(h, sizeOk)
       PROVE  TypeOK'
  <2>1. h.path \in Dirs
    BY DEF TypeOK
  <2>2. hashes' \in SUBSET [path : Dirs, sha : SUBSET (Files \cup {NoFile})]
    BY <1>12 DEF TypeOK, OnInstallerHashed
  <2>3. CASE UNCHANGED <<state, verification, disk>>
    BY <1>12, <2>2, <2>3 DEF TypeOK, OnInstallerHashed, release, verification
  <2>4. CASE /\ downloaded' = h.path /\ verified' = TRUE /\ state' = "Downloaded"
             /\ UNCHANGED <<manifest_body, expected, disk>>
    BY <1>12, <2>1, <2>2, <2>4 DEF TypeOK, OnInstallerHashed, States, release
  <2>5. CASE /\ disk' = [disk EXCEPT ![h.path] = NoFile]
             /\ ResetVerification
             /\ state' = "Error"
    <3>1. disk' \in [Dirs -> Files \cup {NoFile}]
      BY <2>5 DEF TypeOK
    <3> QED
      BY ZenonT(60), <1>12, <2>2, <2>5, <3>1 DEF TypeOK, OnInstallerHashed, ResetVerification, States, release
  <2> QED
    BY <1>12, <2>3, <2>4, <2>5 DEF OnInstallerHashed
<1>13. ASSUME NEW launched \in BOOLEAN, InstallUpdate(launched) PROVE TypeOK'
  <2>1. downloaded \in Dirs
    BY <1>13 DEF TypeOK, InstallUpdate
  <2>2. expected \in Files
    BY <1>13 DEF TypeOK, InstallUpdate, ReadyIsSignedRelease, ExpectedFromSigned
  <2> QED
    BY <1>13, <2>1, <2>2 DEF TypeOK, InstallUpdate, States, release, verification
<1>14. ASSUME NEW d \in Dirs, NEW f \in Files, FileDamaged(d, f) PROVE TypeOK'
  BY <1>14 DEF TypeOK, FileDamaged, release, verification
<1>15. ASSUME NEW h \in helper, HelperChecks(h) \/ HelperInstalls(h) PROVE TypeOK'
  <2>1. CASE HelperChecks(h)
    BY <1>15, <2>1 DEF TypeOK, HelperChecks, release, verification
  <2>2. CASE HelperInstalls(h)
    <3>1. disk[h.path] \in Files
      BY <2>2 DEF UpdateInv, RecheckHolds, HelperInstalls, TypeOK
    <3> QED
      BY <2>2, <3>1 DEF TypeOK, HelperInstalls, release, verification
  <2> QED
    BY <1>15, <2>1, <2>2
<1> QED
  BY <1>1, <1>2, <1>3, <1>4, <1>5, <1>6, <1>7, <1>8, <1>9, <1>10, <1>11, <1>12, <1>13, <1>14,
     <1>15 DEF Next

\* The parts of UpdateInv that are neither types nor about one helper's update.
Safe ==
  /\ BusyIsServed
  /\ Outstanding
  /\ ExpectedIsSigned
  /\ ReadyIsSignedRelease
  /\ HelperIsSigned

\* A step that begins or ends outside verification and installation, into a
\* state that offers nothing or into a download whose manifest is yet to come.
LEMMA FreeStep ==
  ASSUME Safe, state \notin {"Verifying", "Installing"},
         UNCHANGED <<hashes, helper, installed>>,
         \/ /\ state' \in {"Error", "Available", "UpToDate", "CheckFailed"}
            /\ loader' \in {"none", "check", "fallback"}
         \/ /\ state' = "Checking"
            /\ loader' \in {"check", "fallback"}
         \/ /\ state' = "Downloading"
            /\ loader' \in {"manifest", "signature"}
            /\ HasKey
            /\ asset' # NoVersion
  PROVE  Safe'
<1>1. hashes' = {} /\ helper' = {}
  BY DEF Safe, BusyIsServed, Outstanding
<1>2. BusyIsServed' /\ Outstanding'
  BY <1>1 DEF BusyIsServed, Outstanding
<1>3. ExpectedIsSigned' /\ ReadyIsSignedRelease'
  BY DEF ExpectedIsSigned, ReadyIsSignedRelease
<1>4. HelperIsSigned'
  BY <1>1 DEF HelperIsSigned, SignedFile, Safe, Newer
<1> QED
  BY <1>2, <1>3, <1>4 DEF Safe

\* A step that leaves alone all that Safe speaks of.
LEMMA SafeFrame ==
  ASSUME Safe, UNCHANGED <<state, loader, asset, latest_tag, verification, hashes, helper,
                           installed, dir>>
  PROVE  Safe'
  BY DEF Safe, BusyIsServed, Outstanding, ExpectedIsSigned, ReadyIsSignedRelease, HelperIsSigned, SignedFile, ExpectedFromSigned, Newer, verification

\* A call to DownloadUpdate() from the page or from SetAutoUpdate().
LEMMA DownloadKeepsSafe ==
  ASSUME UpdateInv, DownloadEffect(state, asset, manifest_url, signature_url, loader),
         UNCHANGED <<asset, latest_tag, hashes, helper, installed, dir>>
  PROVE  Safe'
<1>1. Safe /\ state \in States
  BY DEF UpdateInv, Safe, TypeOK
<1>2. state \in {"Downloading", "Verifying", "Installing"} => asset # NoVersion
  BY <1>1 DEF Safe, Outstanding
<1>3. CASE state \in {"Downloading", "Verifying", "Installing"}
  <2>1. UNCHANGED <<state, loader, verification>>
    BY <1>1, <1>2, <1>3, DownloadSteps
  <2> QED
    BY <1>1, <2>1, SafeFrame DEF verification
<1>4. CASE state \notin {"Downloading", "Verifying", "Installing"}
  <2>1. loader \in {"none", "check", "fallback"}
    BY <1>1, <1>4 DEF UpdateInv, TypeOK, Safe, Outstanding
  <2>2. \/ state' \in {"Error", "Available"} /\ loader' = loader
        \/ HasKey /\ asset # NoVersion /\ state' = "Downloading" /\ loader' = "manifest"
    BY <1>1, <1>4, DownloadSteps
  <2> QED
    BY <1>1, <1>4, <2>1, <2>2, FreeStep
<1> QED
  BY <1>3, <1>4

\* The end of a check.
LEMMA AnnounceKeepsSafe ==
  ASSUME UpdateInv, loader \in {"check", "fallback"}, NEW tag, NEW a, NEW m, NEW s,
         Announce(tag, a, m, s), Newer(tag) => asset' = a,
         UNCHANGED <<hashes, helper, installed, dir>>
  PROVE  Safe'
<1>1. Safe /\ state \notin {"Verifying", "Installing"}
  BY DEF UpdateInv, Safe, Outstanding
<1>2. CASE Newer(tag) /\ DownloadEffect("Available", a, m, s, "none")
  <2>1. \/ state' \in {"Error", "Available"} /\ loader' = "none"
        \/ HasKey /\ a # NoVersion /\ state' = "Downloading" /\ loader' = "manifest"
    BY <1>2, DownloadSteps, "Available" \in States DEF States
  <2> QED
    BY <1>1, <1>2, <2>1, FreeStep
<1>3. CASE state' \in {"UpToDate", "Available"} /\ loader' = "none"
  BY <1>1, <1>3, FreeStep
<1> QED
  BY <1>2, <1>3 DEF Announce

\* One step keeps the rest of the invariant.
LEMMA SafeStep ==
  ASSUME UpdateInv, [Next]_vars
  PROVE  Safe'
<1> USE VersionAssumption
<1>0. Safe /\ TypeOK
  BY DEF UpdateInv, Safe
<1>1. CASE UNCHANGED vars \/ Initialize \/ Exit \/ \E d \in Dirs, f \in Files : FileDamaged(d, f)
  <2>1. UNCHANGED <<state, loader, asset, latest_tag, verification, hashes, helper, installed, dir>>
    BY <1>1 DEF vars, release, verification, Initialize, Exit, FileDamaged
  <2> QED
    BY <1>0, <2>1, SafeFrame
<1>2. CASE DownloadUpdate
  BY <1>2, DownloadKeepsSafe DEF DownloadUpdate, release
<1>3. ASSUME NEW enabled \in BOOLEAN, SetAutoUpdate(enabled) PROVE Safe'
  <2>1. UNCHANGED <<asset, latest_tag, hashes, helper, installed, dir>>
    BY <1>3 DEF SetAutoUpdate, release
  <2>2. CASE DownloadEffect(state, asset, manifest_url, signature_url, loader)
    BY <2>1, <2>2, DownloadKeepsSafe
  <2>3. CASE UNCHANGED <<state, loader, verification>>
    BY <1>0, <2>1, <2>3, SafeFrame DEF verification
  <2> QED
    BY <1>3, <2>2, <2>3 DEF SetAutoUpdate
<1>4. CASE CheckForUpdates
  <2>1. state \notin {"Verifying", "Installing", "Downloading", "Checking"}
    BY <1>4 DEF CheckForUpdates, Busy
  <2>2. loader \in {"none", "check", "fallback"}
    BY <1>0, <2>1 DEF Safe, Outstanding, TypeOK
  <2> QED
    BY <1>0, <1>4, <2>1, <2>2, FreeStep DEF CheckForUpdates
<1>5. ASSUME NEW tag \in Versions, NEW a, NEW m, NEW s, OnCheckResponse(tag, a, m, s)
      PROVE  Safe'
  BY <1>5, AnnounceKeepsSafe DEF OnCheckResponse
<1>6. CASE OnCheckFailed
  <2>1. state \in {"Error", "Available", "UpToDate", "CheckFailed", "Checking", "Idle"}
    BY <1>0, <1>6 DEF Safe, Outstanding, OnCheckFailed, TypeOK, States
  <2>2. Outstanding' /\ BusyIsServed' /\ HelperIsSigned'
    BY <1>0, <1>6, <2>1 DEF Safe, Outstanding, BusyIsServed, OnCheckFailed, release, verification,
                    HelperIsSigned, SignedFile, Newer
  <2>3. ExpectedIsSigned' /\ ReadyIsSignedRelease'
    BY <1>6, <2>1 DEF ExpectedIsSigned, ReadyIsSignedRelease, OnCheckFailed
  <2> QED
    BY <2>2, <2>3 DEF Safe
<1>7. ASSUME NEW tag \in Versions, OnFallbackHeaders(tag) PROVE Safe'
  BY <1>7, AnnounceKeepsSafe DEF OnFallbackHeaders
<1>8. CASE ResolveCheckFailure
  <2>1. state \notin {"Verifying", "Installing"}
    BY <1>0, <1>8 DEF Safe, Outstanding, ResolveCheckFailure
  <2> QED
    BY <1>0, <1>8, <2>1, FreeStep DEF ResolveCheckFailure
<1>9. CASE OnTransferFailed
  <2>1. state = "Downloading"
    BY <1>0, <1>9 DEF Safe, Outstanding, OnTransferFailed
  <2> QED
    BY <1>0, <1>9, <2>1, FreeStep DEF OnTransferFailed
<1>10. ASSUME NEW m \in Manifests, OnManifestFetched(m) PROVE Safe'
  <2>1. state = "Downloading" /\ HasKey /\ asset # NoVersion
    BY <1>0, <1>10 DEF Safe, Outstanding, OnManifestFetched
  <2> QED
    BY <1>0, <1>10, <2>1, FreeStep DEF OnManifestFetched, release
<1>11. ASSUME NEW valid \in BOOLEAN, OnSignatureFetched(valid) PROVE Safe'
  <2>1. state = "Downloading" /\ HasKey /\ asset # NoVersion /\ hashes = {} /\ helper = {}
    BY <1>0, <1>11 DEF Safe, Outstanding, BusyIsServed, OnSignatureFetched
  <2>2. CASE state' = "Error" /\ loader' = "none"
    BY <1>0, <1>11, <2>1, <2>2, FreeStep DEF OnSignatureFetched
  <2>3. CASE /\ valid
             /\ \E m \in manifest_body : PolicyAccepts(m) /\ expected' = m.file
             /\ dir' \in FreshDirs
             /\ loader' = "installer"
             /\ UNCHANGED <<state, manifest_body>>
    <3>1. ExpectedIsSigned'
      BY <1>11, <2>3 DEF OnSignatureFetched, ExpectedIsSigned, PolicyAccepts, ExpectedFromSigned, Newer, release
    <3>2. BusyIsServed' /\ Outstanding'
      BY <1>11, <2>1, <2>3 DEF OnSignatureFetched, BusyIsServed, Outstanding, FreshDirs, release
    <3>3. ReadyIsSignedRelease' /\ HelperIsSigned'
      BY <1>0, <1>11, <2>1, <2>3 DEF Safe, OnSignatureFetched, ReadyIsSignedRelease, HelperIsSigned, SignedFile, Newer
    <3> QED
      BY <3>1, <3>2, <3>3 DEF Safe
  <2> QED
    BY <1>11, <2>2, <2>3 DEF OnSignatureFetched
<1>12. ASSUME NEW f \in Files, OnDownloadComplete(f) PROVE Safe'
  <2>1. state = "Downloading" /\ HasKey /\ asset # NoVersion /\ hashes = {} /\ helper = {}
    BY <1>0, <1>12 DEF Safe, Outstanding, BusyIsServed, OnDownloadComplete
  <2>2. BusyIsServed' /\ Outstanding'
    BY <1>12, <2>1 DEF OnDownloadComplete, BusyIsServed, Outstanding, release
  <2>3. ExpectedIsSigned'
    BY <1>0, <1>12 DEF Safe, OnDownloadComplete, ExpectedIsSigned, ExpectedFromSigned, Newer, release,
                       verification
  <2>4. ReadyIsSignedRelease' /\ HelperIsSigned'
    BY <1>0, <1>12, <2>1 DEF Safe, OnDownloadComplete, ReadyIsSignedRelease, HelperIsSigned, SignedFile, Newer
  <2> QED
    BY <2>2, <2>3, <2>4 DEF Safe
<1>13. ASSUME NEW h \in hashes, NEW sha \in Files \cup {NoFile}, HashFile(h, sha) PROVE Safe'
  <2>1. state = "Verifying" /\ hashes = {h}
    BY <1>0 DEF Safe, BusyIsServed
  <2>2. hashes' = {[h EXCEPT !.sha = {sha}]}
    BY <1>13, <2>1 DEF HashFile
  <2>3. BusyIsServed'
    BY <1>13, <2>1, <2>2 DEF BusyIsServed, HashFile
  <2>4. Outstanding' /\ ExpectedIsSigned' /\ ReadyIsSignedRelease' /\ HelperIsSigned'
         
    BY <1>0, <1>13 DEF HashFile, Safe, Outstanding, ExpectedIsSigned, ReadyIsSignedRelease,
           HelperIsSigned, SignedFile, ExpectedFromSigned, Newer, release, verification
  <2> QED
    BY <2>3, <2>4 DEF Safe
<1>14. ASSUME NEW h \in hashes, NEW sizeOk \in BOOLEAN, OnInstallerHashed(h, sizeOk) PROVE Safe'
  <2>1. /\ state = "Verifying" /\ hashes = {h} /\ helper = {} /\ HasKey /\ asset # NoVersion
        /\ loader = "none"
    BY <1>0 DEF Safe, BusyIsServed, Outstanding, TypeOK
  <2>2. hashes' = {}
    BY <1>14, <2>1 DEF OnInstallerHashed
  <2>3. state' \in {"Downloaded", "Error"}
    BY <1>14, <2>1 DEF OnInstallerHashed
  <2>4. BusyIsServed' /\ Outstanding' /\ HelperIsSigned'
    BY <1>0, <1>14, <2>1, <2>2, <2>3 DEF OnInstallerHashed, Safe, BusyIsServed, Outstanding,
          HelperIsSigned, SignedFile, Newer, release
  <2>5. CASE state' = "Error"
    BY <1>14, <2>1, <2>4, <2>5 DEF Safe, ExpectedIsSigned, ReadyIsSignedRelease, OnInstallerHashed
  <2>6. CASE state' = "Downloaded"
    <3>1. /\ verified' = TRUE
          /\ UNCHANGED <<manifest_body, expected, latest_tag>>
      BY <1>14, <2>1, <2>6 DEF OnInstallerHashed, release
    <3>2. ExpectedFromSigned
      BY <1>0, <2>1 DEF Safe, ExpectedIsSigned
    <3>3. ExpectedIsSigned' /\ ReadyIsSignedRelease'
      BY <2>1, <3>1, <3>2 DEF ExpectedIsSigned, ReadyIsSignedRelease, ExpectedFromSigned, Newer
    <3> QED
      BY <2>4, <3>3 DEF Safe
  <2> QED
    BY <2>3, <2>5, <2>6
<1>15. ASSUME NEW launched \in BOOLEAN, InstallUpdate(launched) PROVE Safe'
  <2>1. state = "Downloaded" /\ hashes = {} /\ helper = {} /\ HasKey /\ asset # NoVersion
        /\ loader = "none"
    BY <1>0, <1>15 DEF Safe, BusyIsServed, Outstanding, TypeOK, InstallUpdate
  <2>2. ExpectedFromSigned
    BY <1>0, <2>1 DEF Safe, ExpectedIsSigned
  <2>3. CASE ~launched
    BY <1>0, <1>15, <2>1, <2>3, FreeStep DEF InstallUpdate
  <2>4. CASE launched
    <3>1. HelperIsSigned'
      BY <1>15, <2>2, <2>4 DEF InstallUpdate, HelperIsSigned, SignedFile, ExpectedFromSigned, Newer
    <3>2. BusyIsServed' /\ Outstanding'
      BY <1>0, <1>15, <2>1, <2>4 DEF Safe, InstallUpdate, BusyIsServed, Outstanding, Newer, release
    <3>3. ExpectedIsSigned' /\ ReadyIsSignedRelease'
      BY <1>15, <2>1, <2>2 DEF InstallUpdate, ExpectedIsSigned, ReadyIsSignedRelease, ExpectedFromSigned,
                             Newer, release, verification
    <3> QED
      BY <3>1, <3>2, <3>3 DEF Safe
  <2> QED
    BY <2>3, <2>4
<1>16. ASSUME NEW h \in helper, HelperChecks(h) \/ HelperInstalls(h) PROVE Safe'
  <2>1. HelperIsSigned'
    BY <1>0, <1>16 DEF Safe, HelperChecks, HelperInstalls, HelperIsSigned, SignedFile, Newer
  <2>2. BusyIsServed' /\ Outstanding' /\ ExpectedIsSigned' /\ ReadyIsSignedRelease'
    BY <1>0, <1>16 DEF Safe, HelperChecks, HelperInstalls, BusyIsServed, Outstanding, ExpectedIsSigned,
          ReadyIsSignedRelease, ExpectedFromSigned, Newer, release, verification
  <2> QED
    BY <2>1, <2>2 DEF Safe
<1> QED
  BY <1>1, <1>2, <1>3, <1>4, <1>5, <1>6, <1>7, <1>8, <1>9, <1>10, <1>11, <1>12, <1>13, <1>14,
     <1>15, <1>16 DEF Next

\* What the helper found good stays so or is spoiled, and only that replaces the
\* app: the browser, which is gone by then, has no part in it.
LEMMA InstallStep ==
  ASSUME UpdateInv, [Next]_vars
  PROVE  RecheckHolds' /\ InstalledIsSigned'
<1> USE VersionAssumption
<1>0. TypeOK /\ RecheckHolds /\ InstalledIsSigned /\ HelperIsSigned
  BY DEF UpdateInv
<1>1. ASSUME NEW h \in helper, HelperChecks(h) PROVE RecheckHolds' /\ InstalledIsSigned'
  <2>1. h.want \in Files /\ helper' \subseteq helper /\ UNCHANGED <<running, disk, installed>>
    BY <1>0, <1>1 DEF TypeOK, HelperChecks
  <2>2. recheck' # "none" => \A k \in helper : k = h
    BY DEF UpdateInv, HelperHasOffer
  <2> QED
    BY <1>0, <1>1, <2>1, <2>2 DEF HelperChecks, RecheckHolds, InstalledIsSigned, SignedFile, Newer
<1>2. ASSUME NEW h \in helper, HelperInstalls(h) PROVE RecheckHolds' /\ InstalledIsSigned'
  <2>1. recheck # "none" /\ helper' \subseteq helper /\ UNCHANGED <<running, disk, recheck>>
    BY <1>2 DEF HelperInstalls
  <2>2. recheck = "passed" => SignedFile(disk[h.path])
    BY <1>0 DEF RecheckHolds, HelperIsSigned
  <2> QED
    BY <1>0, <1>2, <2>1, <2>2 DEF TypeOK, HelperInstalls, RecheckHolds, InstalledIsSigned, SignedFile,
                                  Newer
<1>3. ASSUME NEW d \in Dirs, NEW f \in Files, FileDamaged(d, f) PROVE RecheckHolds' /\ InstalledIsSigned'
  <2>1. /\ UNCHANGED <<running, helper, installed>>
        /\ disk' = [disk EXCEPT ![d] = f] /\ disk \in [Dirs -> Files \cup {NoFile}]
        /\ recheck' = "none" <=> recheck = "none"
        /\ recheck = "spoiled" => recheck' = "spoiled"
        /\ recheck' = "passed" => recheck = "passed" /\ \A h \in helper : h.path # d
    BY <1>0, <1>3 DEF FileDamaged, TypeOK
  <2>2. \A h \in helper : h.path \in Dirs
    BY <1>0 DEF TypeOK
  <2> QED
    BY <1>0, <2>1, <2>2 DEF RecheckHolds, InstalledIsSigned, SignedFile, Newer
<1>4. CASE UNCHANGED vars
  BY <1>0, <1>4 DEF vars, RecheckHolds, InstalledIsSigned, SignedFile, Newer
<1>5. CASE running /\ UNCHANGED <<recheck, installed>>
  BY <1>0, <1>5 DEF RecheckHolds, InstalledIsSigned, SignedFile, Newer
<1>6. CASE \/ Initialize \/ DownloadUpdate \/ CheckForUpdates \/ OnCheckFailed
           \/ ResolveCheckFailure \/ OnTransferFailed \/ Exit
           \/ \E enabled \in BOOLEAN : SetAutoUpdate(enabled)
           \/ \E tag \in Versions : OnFallbackHeaders(tag)
           \/ \E tag \in Versions : \E a, m, s \in OfficialUrls(tag) : OnCheckResponse(tag, a, m, s)
  BY <1>5, <1>6 DEF Initialize, DownloadUpdate, CheckForUpdates, OnCheckFailed, ResolveCheckFailure,
       OnTransferFailed, Exit, SetAutoUpdate, OnFallbackHeaders, OnCheckResponse
<1>7. CASE \/ \E m \in Manifests : OnManifestFetched(m)
           \/ \E valid \in BOOLEAN : OnSignatureFetched(valid)
           \/ \E f \in Files : OnDownloadComplete(f)
           \/ \E h \in hashes : \E sha \in Files \cup {NoFile} : HashFile(h, sha)
           \/ \E h \in hashes : \E sizeOk \in BOOLEAN : OnInstallerHashed(h, sizeOk)
           \/ \E launched \in BOOLEAN : InstallUpdate(launched)
  BY <1>5, <1>7 DEF OnManifestFetched, OnSignatureFetched, OnDownloadComplete, HashFile,
       OnInstallerHashed, InstallUpdate
<1> QED
  BY <1>1, <1>2, <1>3, <1>4, <1>6, <1>7 DEF Next

\* Once the helper has been launched, only it and the exit of the browser change
\* anything that concerns the update.
LEMMA HandedStep ==
  ASSUME UpdateInv, [Next]_vars, helper # {}
  PROVE  /\ UNCHANGED <<state, loader, latest_tag, verification>>
         /\ \/ UNCHANGED <<running, helper, recheck, installed>>
            \/ Exit
            \/ \E d \in Dirs, f \in Files : FileDamaged(d, f)
            \/ \E h \in helper : HelperChecks(h) \/ HelperInstalls(h)
<1>1. /\ state = "Installing" /\ asset # NoVersion /\ loader = "none" /\ hashes = {}
      /\ state \in States
  BY DEF UpdateInv, Outstanding, BusyIsServed, TypeOK
<1>2. CASE UNCHANGED vars \/ Initialize \/ \E d \in Dirs, f \in Files : FileDamaged(d, f)
  BY <1>2 DEF vars, release, Initialize, FileDamaged
<1>3. CASE DownloadUpdate
  BY <1>1, <1>3, DownloadSteps DEF DownloadUpdate, release
<1>4. CASE \E enabled \in BOOLEAN : SetAutoUpdate(enabled)
  BY <1>1, <1>4 DEF SetAutoUpdate, release
<1>5. CASE Exit
  BY <1>5 DEF Exit, release
<1>6. CASE \E h \in helper : HelperChecks(h) \/ HelperInstalls(h)
  BY <1>6 DEF HelperChecks, HelperInstalls, release
<1>7. CASE CheckForUpdates \/ OnCheckFailed \/ ResolveCheckFailure \/ OnTransferFailed
  BY <1>1, <1>7 DEF CheckForUpdates, Busy, OnCheckFailed, ResolveCheckFailure, OnTransferFailed
<1>8. CASE \/ \E tag \in Versions : \E a, m, s \in OfficialUrls(tag) : OnCheckResponse(tag, a, m, s)
           \/ \E tag \in Versions : OnFallbackHeaders(tag)
           \/ \E m \in Manifests : OnManifestFetched(m)
           \/ \E valid \in BOOLEAN : OnSignatureFetched(valid)
           \/ \E f \in Files : OnDownloadComplete(f)
  BY <1>1, <1>8 DEF OnCheckResponse, OnFallbackHeaders, OnManifestFetched, OnSignatureFetched,
                    OnDownloadComplete
<1>9. CASE \/ \E h \in hashes : \E sha \in Files \cup {NoFile} : HashFile(h, sha)
           \/ \E h \in hashes : \E sizeOk \in BOOLEAN : OnInstallerHashed(h, sizeOk)
           \/ \E launched \in BOOLEAN : InstallUpdate(launched)
  BY <1>1, <1>9 DEF InstallUpdate
<1> QED
  BY <1>2, <1>3, <1>4, <1>5, <1>6, <1>7, <1>8, <1>9 DEF Next

\* Only InstallUpdate() launches a helper.
LEMMA UnhandedStep ==
  ASSUME [Next]_vars, helper = {}
  PROVE  \/ helper' = {}
         \/ \E launched \in BOOLEAN : InstallUpdate(launched)
  BY DEF Next, vars, Initialize, DownloadUpdate, SetAutoUpdate, CheckForUpdates, OnCheckResponse,
         OnCheckFailed, OnFallbackHeaders, ResolveCheckFailure, OnTransferFailed, OnManifestFetched,
         OnSignatureFetched, OnDownloadComplete, HashFile, OnInstallerHashed, Exit, FileDamaged

\* One step keeps what the helper was told.
LEMMA HelperStep ==
  ASSUME UpdateInv, [Next]_vars
  PROVE  HelperHasOffer'
<1>1. CASE helper # {}
  <2>1. expected' = expected /\ downloaded' = downloaded
    BY <1>1, HandedStep DEF verification
  <2>2. helper' \subseteq helper
    BY <1>1, HandedStep DEF Exit, FileDamaged, HelperChecks, HelperInstalls
  <2> QED
    BY <2>1, <2>2 DEF HelperHasOffer, UpdateInv
<1>2. CASE helper = {}
  BY <1>2, UnhandedStep DEF HelperHasOffer, InstallUpdate, verification
<1> QED
  BY <1>1, <1>2

\* UpdateInv holds in every reachable state.
THEOREM UpdateInvariant == Spec => []UpdateInv
<1>1. Init => UpdateInv
  BY VersionAssumption DEF Init, UpdateInv, TypeOK, States, NoVersion, BusyIsServed, Outstanding,
        ExpectedIsSigned, ReadyIsSignedRelease, HelperIsSigned, HelperHasOffer, RecheckHolds,
        InstalledIsSigned
<1>2. UpdateInv /\ [Next]_vars => UpdateInv'
  BY TypeStep, SafeStep, HelperStep, InstallStep DEF UpdateInv, Safe
<1> QED
  BY <1>1, <1>2, PTL DEF Spec

\* Type correctness: every variable keeps its type in every reachable state.
THEOREM TypeCorrect == Spec => []TypeOK
  BY UpdateInvariant, PTL DEF UpdateInv

\* A busy updater always has the call that will free it on its way.
THEOREM BusyServed == Spec => []BusyIsServed
  BY UpdateInvariant, PTL DEF UpdateInv

\* The installer offered or launched is listed by the signed manifest of the
\* release shown, which is newer than the running one.
THEOREM ReadySigned == Spec => []ReadyIsSignedRelease
  BY UpdateInvariant, PTL DEF UpdateInv

\* Only what the release key signed for a newer version is installed, but for a
\* file that goes bad after the helper's own check of it.
THEOREM InstalledSigned == Spec => []InstalledIsSigned
  BY UpdateInvariant, PTL DEF UpdateInv

------------------------------------------------------------------------------
(* The refinement.                                                         *)

\* A failure, or a new check: the update at hand, if any, is withdrawn.
LEMMA Withdrawn ==
  ASSUME running, Stage \in {"none", "accepted", "ready"}, Stage' = "none",
         UNCHANGED <<running, recheck, installed>>
  PROVE  Update!Withdraw \/ UNCHANGED Update!updateVars
  BY DEF Update!Withdraw, Update!updateVars, Offer

\* A call to DownloadUpdate() withdraws an update that was ready.
LEMMA DownloadWithdraws ==
  ASSUME UpdateInv, running, helper = {},
         DownloadEffect(state, asset, manifest_url, signature_url, loader),
         UNCHANGED <<running, latest_tag, helper, recheck, installed>>
  PROVE  Update!Withdraw \/ UNCHANGED Update!updateVars
<1>1. state \in States /\ (state \in {"Downloading", "Verifying", "Installing"} => asset # NoVersion)
  BY DEF UpdateInv, TypeOK, Outstanding
<1>2. CASE state \in {"Downloading", "Verifying", "Installing"}
  <2>1. UNCHANGED <<state, loader, expected>>
    BY <1>1, <1>2, DownloadSteps DEF verification
  <2> QED
    BY <2>1 DEF Update!updateVars, Stage, Offer
<1>3. CASE state \notin {"Downloading", "Verifying", "Installing"}
  <2>1. Stage \in {"none", "ready"}
    BY <1>3 DEF Stage, UpdateInv, Outstanding
  <2>2. Stage' = "none"
    BY <1>1, <1>3, DownloadSteps DEF Stage, UpdateInv, Outstanding
  <2> QED
    BY <2>1, <2>2, Withdrawn
<1> QED
  BY <1>2, <1>3

\* The end of a check finds no update at hand and leaves none.
LEMMA AnnounceStutters ==
  ASSUME UpdateInv, loader \in {"check", "fallback"}, NEW tag, NEW a, NEW m, NEW s,
         Announce(tag, a, m, s), UNCHANGED <<running, helper, recheck, installed>>
  PROVE  UNCHANGED Update!updateVars
<1>1. Stage = "none" /\ helper = {}
  BY DEF Stage, UpdateInv, Outstanding
<1>2. state' \notin {"Downloaded", "Verifying"} /\ loader' # "installer"
  BY DownloadSteps, "Available" \in States DEF Announce, States
<1>3. Stage' = "none"
  BY <1>1, <1>2 DEF Stage
<1> QED
  BY <1>1, <1>3 DEF Offer, Update!updateVars

\* A signature and a policy that accept begin an update; all else ends it.
LEMMA SignatureAccepts ==
  ASSUME UpdateInv, NEW valid \in BOOLEAN, OnSignatureFetched(valid)
  PROVE  Update!Accept \/ UNCHANGED Update!updateVars
<1>1. state = "Downloading" /\ helper = {} /\ Stage = "none"
  BY DEF OnSignatureFetched, UpdateInv, Outstanding, Stage
<1>2. UNCHANGED <<running, recheck, installed, helper, latest_tag>> /\ running
  BY DEF OnSignatureFetched, release
<1>3. CASE loader' = "installer"
  <2>1. PICK m \in manifest_body : m \in Signed /\ PolicyAccepts(m) /\ expected' = m.file
    BY <1>3 DEF OnSignatureFetched
  <2>2. m = [tag |-> latest_tag, file |-> expected']
    BY <2>1 DEF UpdateInv, TypeOK, Manifests, PolicyAccepts
  <2>3. Stage' = "accepted" /\ Offer' = {m}
    BY <1>1, <1>2, <1>3, <2>2 DEF Stage, Offer, OnSignatureFetched
  <2> QED
    BY <1>1, <1>2, <2>1, <2>3 DEF Update!Accept, PolicyAccepts
<1>4. CASE loader' # "installer"
  <2>1. state' = "Error"
    BY <1>4 DEF OnSignatureFetched
  <2>2. Stage' = "none"
    BY <1>1, <1>2, <1>4, <2>1 DEF Stage
  <2> QED
    BY <1>1, <1>2, <2>2 DEF Offer, Update!updateVars
<1> QED
  BY <1>3, <1>4

\* UpdateManager implements SignedUpdate, whatever the servers answer: the file
\* that replaces the app is that of the manifest once accepted, and neither a
\* check nor a download replaces an update the helper has.
THEOREM SignedUpdateImplemented == Spec => ImplementsSignedUpdate
<1>1. Init => Update!Init
  BY DEF Init, Update!Init, Stage, Offer
<1>2. UpdateInv /\ [Next]_vars => [Update!Next]_Update!updateVars
  <2> SUFFICES ASSUME UpdateInv, [Next]_vars
               PROVE  Update!Next \/ UNCHANGED Update!updateVars
    OBVIOUS
  <2>1. CASE helper # {}
    <3>1. UNCHANGED <<state, loader, latest_tag, expected>>
      BY <2>1, HandedStep DEF verification
    <3>2. /\ Stage = IF recheck = "none" THEN "handed" ELSE "checked"
          /\ Offer = {[tag |-> latest_tag, file |-> expected]}
      BY <2>1 DEF Stage, Offer
    <3>3. CASE UNCHANGED <<running, helper, recheck, installed>>
      BY <3>1, <3>3 DEF Stage, Offer, Update!updateVars
    <3>4. CASE Exit
      BY <3>1, <3>4 DEF Exit, Stage, Offer, Update!Quit, Update!Next
    <3>5. ASSUME NEW d \in Dirs, NEW f \in Files, FileDamaged(d, f)
          PROVE  Update!Spoil \/ UNCHANGED Update!updateVars
      <4>1. UNCHANGED <<running, helper, installed>> /\ recheck' \in {recheck, "spoiled"}
        BY <3>5 DEF FileDamaged
      <4>2. CASE recheck' = recheck
        BY <3>1, <4>1, <4>2 DEF Stage, Offer, Update!updateVars
      <4>3. CASE recheck = "passed" /\ recheck' = "spoiled"
        <5>1. Stage = "checked" /\ Stage' = "checked" /\ Offer' = Offer /\ ~running
          BY <2>1, <3>1, <4>1, <4>3 DEF Stage, Offer, UpdateInv, RecheckHolds
        <5> QED
          BY <4>1, <4>3, <5>1 DEF Update!Spoil
      <4> QED
        BY <3>5, <4>2, <4>3 DEF FileDamaged
    <3>6. ASSUME NEW h \in helper PROVE h.want = expected /\ helper = {h} /\ state = "Installing" /\ loader = "none"
      BY <2>1 DEF UpdateInv, HelperHasOffer, Outstanding, TypeOK
    <3>7. ASSUME NEW h \in helper, HelperChecks(h) PROVE Update!Check
      <4>1. ~running /\ recheck = "none" /\ UNCHANGED <<running, installed>>
        BY <3>7 DEF HelperChecks
      <4>2. CASE recheck' = "passed" /\ UNCHANGED helper
        <5>1. Stage' = "checked" /\ Offer' = Offer
          BY <2>1, <3>1, <3>2, <4>2 DEF Stage, Offer
        <5> QED
          BY <3>2, <4>1, <4>2, <5>1 DEF Update!Check
      <4>3. CASE helper' = {} /\ UNCHANGED recheck
        <5>1. Stage' = "none" /\ Offer' = {}
          BY <3>1, <3>6, <4>3 DEF Stage, Offer
        <5> QED
          BY <3>2, <4>1, <4>3, <5>1 DEF Update!Check
      <4> QED
        BY <3>6, <3>7, <4>2, <4>3 DEF HelperChecks
    <3>8. ASSUME NEW h \in helper, HelperInstalls(h) PROVE Update!Install
      <4>1. /\ ~running /\ recheck # "none" /\ UNCHANGED <<running, recheck>> /\ helper' = {}
            /\ installed' \in {installed, installed \cup {disk[h.path]}}
        BY <3>6, <3>8 DEF HelperInstalls
      <4>2. Stage' = "none" /\ Offer' = {}
        BY <3>1, <3>6, <4>1 DEF Stage, Offer
      <4>3. disk[h.path] \in Files /\ (recheck = "passed" => disk[h.path] = expected)
        BY <3>6, <4>1 DEF UpdateInv, RecheckHolds, TypeOK
      <4>4. {o.file : o \in Offer} = {expected}
        BY <3>2
      <4>5. recheck \in {"passed", "spoiled"}
        BY <4>1 DEF UpdateInv, TypeOK
      <4> QED
        BY <3>2, <4>1, <4>2, <4>3, <4>4, <4>5 DEF Update!Install
    <3> QED
      BY <2>1, <3>3, <3>4, <3>5, <3>7, <3>8, HandedStep DEF Update!Next
  <2>2. CASE helper = {}
    <3>0. state # "Verifying" => hashes = {}
      BY DEF UpdateInv, BusyIsServed
    <3>1. CASE UNCHANGED vars \/ Initialize \/ \E d \in Dirs, f \in Files : FileDamaged(d, f)
      BY <2>2, <3>1 DEF vars, release, verification, Initialize, FileDamaged, Update!updateVars, Stage, Offer
    <3>2. CASE Exit
      BY <3>2 DEF Exit, release, verification, Update!Next, Update!Quit, Stage, Offer
    <3>3. CASE DownloadUpdate
      BY <2>2, <3>3, DownloadWithdraws DEF DownloadUpdate, release, Update!Next
    <3>4. ASSUME NEW enabled \in BOOLEAN, SetAutoUpdate(enabled)
          PROVE  Update!Next \/ UNCHANGED Update!updateVars
      <4>1. running /\ UNCHANGED <<running, latest_tag, helper, recheck, installed>>
        BY <3>4 DEF SetAutoUpdate, release
      <4>2. CASE DownloadEffect(state, asset, manifest_url, signature_url, loader)
        BY <2>2, <4>1, <4>2, DownloadWithdraws DEF Update!Next
      <4>3. CASE UNCHANGED <<state, loader, verification>>
        BY <4>1, <4>3 DEF Update!updateVars, Stage, Offer, verification
      <4> QED
        BY <3>4, <4>2, <4>3 DEF SetAutoUpdate
    <3>5. CASE CheckForUpdates
      <4>1. /\ running /\ UNCHANGED <<running, recheck, installed, helper>>
            /\ state \notin {"Checking", "Downloading", "Verifying", "Installing"}
            /\ state' \in {"CheckFailed", "Checking"} /\ loader' \in {loader, "check"}
        BY <3>5 DEF CheckForUpdates, Busy
      <4>2. loader # "installer"
        BY <4>1 DEF UpdateInv, Outstanding
      <4>3. Stage \in {"none", "ready"} /\ Stage' = "none"
        BY <2>2, <4>1, <4>2 DEF Stage
      <4> QED
        BY <4>1, <4>3, Withdrawn DEF Update!Next
    <3>6. ASSUME NEW tag \in Versions, NEW a, NEW m, NEW s, OnCheckResponse(tag, a, m, s)
          PROVE  UNCHANGED Update!updateVars
      BY <3>6, AnnounceStutters DEF OnCheckResponse
    <3>7. ASSUME NEW tag \in Versions, OnFallbackHeaders(tag)
          PROVE  UNCHANGED Update!updateVars
      BY <3>7, AnnounceStutters DEF OnFallbackHeaders
    <3>8. CASE OnCheckFailed \/ ResolveCheckFailure
      <4>1. /\ loader \in {"check", "fallback"} /\ loader' \in {"fallback", "none"}
            /\ state' \in {state, "CheckFailed", "Available", "UpToDate"}
            /\ UNCHANGED <<running, recheck, installed, helper>>
        BY <3>8 DEF OnCheckFailed, ResolveCheckFailure
      <4>2. state \notin {"Downloaded", "Verifying"}
        BY <4>1 DEF UpdateInv, Outstanding
      <4>3. Stage = "none" /\ Stage' = "none"
        BY <2>2, <4>1, <4>2 DEF Stage
      <4> QED
        BY <4>1, <4>3 DEF Offer, Update!updateVars
    <3>9. CASE OnTransferFailed
      <4>1. state = "Downloading"
        BY <3>9 DEF OnTransferFailed, UpdateInv, Outstanding
      <4>2. Stage \in {"none", "accepted"} /\ Stage' = "none"
        BY <2>2, <3>9, <4>1 DEF OnTransferFailed, Stage
      <4> QED
        BY <3>9, <4>2, Withdrawn DEF OnTransferFailed, Update!Next
    <3>10. ASSUME NEW m \in Manifests, OnManifestFetched(m)
           PROVE  UNCHANGED Update!updateVars
      BY <3>10 DEF OnManifestFetched, release, Stage, Offer, Update!updateVars
    <3>11. ASSUME NEW valid \in BOOLEAN, OnSignatureFetched(valid)
           PROVE  Update!Next \/ UNCHANGED Update!updateVars
      BY <3>11, SignatureAccepts DEF Update!Next
    <3>12. ASSUME NEW f \in Files, OnDownloadComplete(f)
           PROVE  UNCHANGED Update!updateVars
      <4>1. state # "Downloaded"
        BY <3>12 DEF OnDownloadComplete, UpdateInv, Outstanding
      <4> QED
        BY <2>2, <3>12, <4>1 DEF OnDownloadComplete, release, verification, Stage, Offer, Update!updateVars
    <3>13. ASSUME NEW h \in hashes, NEW sha \in Files \cup {NoFile}, HashFile(h, sha)
           PROVE  UNCHANGED Update!updateVars
      BY <3>13 DEF HashFile, release, verification, Stage, Offer, Update!updateVars
    <3>14. ASSUME NEW h \in hashes, NEW sizeOk \in BOOLEAN, OnInstallerHashed(h, sizeOk)
           PROVE  Update!Next \/ UNCHANGED Update!updateVars
      <4>1. state = "Verifying" /\ loader # "installer" /\ Stage = "accepted"
        BY <2>2, <3>0 DEF UpdateInv, Outstanding, Stage
      <4>2. running /\ UNCHANGED <<running, recheck, installed, helper, loader, latest_tag>>
        BY <3>14 DEF OnInstallerHashed, release
      <4>3. CASE state' = "Downloaded" /\ UNCHANGED expected
        BY <2>2, <4>1, <4>2, <4>3 DEF Stage, Offer, Update!Verify, Update!Next
      <4>4. CASE state' = "Error"
        <5>1. Stage' = "none"
          BY <2>2, <4>1, <4>2, <4>4 DEF Stage
        <5> QED
          BY <4>1, <4>2, <5>1, Withdrawn DEF Update!Next
      <4> QED
        BY <3>14, <4>1, <4>3, <4>4 DEF OnInstallerHashed
    <3>15. ASSUME NEW launched \in BOOLEAN, InstallUpdate(launched)
           PROVE  Update!Next \/ UNCHANGED Update!updateVars
      <4>1. state = "Downloaded" /\ loader # "installer" /\ Stage = "ready"
        BY <2>2, <3>15 DEF InstallUpdate, UpdateInv, Outstanding, Stage
      <4>2. running /\ UNCHANGED <<running, recheck, installed, loader, latest_tag, expected>>
        BY <3>15 DEF InstallUpdate, release, verification
      <4>3. CASE launched
        <5>1. Stage' = "handed"
          BY <2>2, <3>15, <4>2, <4>3 DEF InstallUpdate, Stage, UpdateInv, RecheckHolds
        <5> QED
          BY <4>1, <4>2, <5>1 DEF Offer, Update!Hand, Update!Next
      <4>4. CASE ~launched
        <5>1. Stage' = "none"
          BY <2>2, <3>15, <4>1, <4>2, <4>4 DEF InstallUpdate, Stage
        <5> QED
          BY <4>1, <4>2, <5>1, Withdrawn DEF Update!Next
      <4> QED
        BY <4>3, <4>4
    <3> QED
      BY <2>2, <3>1, <3>2, <3>3, <3>4, <3>5, <3>6, <3>7, <3>8, <3>9, <3>10, <3>11, <3>12, <3>13,
         <3>14, <3>15 DEF Next
  <2> QED
    BY <2>1, <2>2
<1> QED
  BY <1>1, <1>2, UpdateInvariant, PTL DEF Spec, ImplementsSignedUpdate, Update!Spec
=============================================================================
