--------------------------- MODULE UpdateManager ---------------------------
(***************************************************************************)
(* The in-app updater: chrome/browser/molt_ai/update/update_manager.cc and *)
(* the manifest policy of release_manifest.cc, in one run of the browser.  *)
(*                                                                         *)
(* Everything but the hashing of the installer runs on the UI thread.  The *)
(* updater has one loader_: starting a transfer destroys the one before it *)
(* and with it its callback, so an outstanding transfer is the value of    *)
(* the variable loader.  What the servers answer is not trusted: any tag,  *)
(* any manifest and any installer may come back.  Cryptography is ideal: a *)
(* signature verifies only over a manifest of Signed, and two files have   *)
(* the same size and SHA-256 only if they are the same.                    *)
(*                                                                         *)
(* A release is its version, a natural number: NormalizeTag() and          *)
(* StripLeadingV() are one-to-one on the tags the policy accepts.          *)
(***************************************************************************)
EXTENDS Naturals, FiniteSets

CONSTANTS
  Versions,      \* the versions a tag can name
  Current,       \* chrome::kMoltBrowserVersion, the running version
  Files,         \* the contents a downloaded installer may have
  NoFile,        \* no file; in a manifest: not listed, or it does not parse
  Signed,        \* the manifests the offline release key has signed
  HasKey,        \* can_install_automatically(): a signing key is compiled in
  FixedNames,    \* PlatformAssetName() is not empty (it is on Windows)
  Dirs,          \* names CreateNewTempDirectory() can give a directory
  NoDir          \* an empty path

\* What a manifest says: the release and the file it lists for this platform.
Manifests == [tag : Versions, file : Files \cup {NoFile}]

ASSUME VersionAssumption ==
  /\ Versions \subseteq Nat \ {0}
  /\ Current \in Nat
  /\ NoFile \notin Files
  /\ Signed \subseteq Manifests
  /\ HasKey \in BOOLEAN
  /\ FixedNames \in BOOLEAN
  /\ NoDir \notin Dirs

NoVersion == 0
States == {"Idle", "Checking", "UpToDate", "Available", "Downloading",
           "Verifying", "Downloaded", "Installing", "CheckFailed", "Error"}

VARIABLES
  running,       \* the browser process is alive
  factory,       \* factory_ is set: Initialize() was called
  state,         \* state_
  auto_update,   \* auto_update_
  loader,        \* what loader_ is fetching
  latest_tag,    \* latest_tag_ (and latest_version_)
  asset,         \* the release asset_url_ and asset_name_ are of
  manifest_url,  \* the release manifest_url_ is of
  signature_url, \* the release signature_url_ is of
  manifest_body, \* the manifest last fetched: a set, empty or of one
  expected,      \* the file expected_size_ and expected_sha256_ describe
  verified,      \* verified_
  downloaded,    \* downloaded_path_: the directory it is in, or NoDir
  dir,           \* download_dir_
  disk,          \* what each download directory holds
  hashes,        \* OnInstallerHashed() calls on their way: path and digest
  helper,        \* the detached installer's path and SHA-256, if launched
  recheck,       \* the helper's own check: "none", "passed", or "spoiled" if
                 \* the file went bad after it passed (history)
  installed      \* the installers that replaced the app

release == <<latest_tag, asset, manifest_url, signature_url>>
verification == <<manifest_body, expected, verified, downloaded>>
vars == <<running, factory, state, auto_update, loader, release, verification,
          dir, disk, hashes, helper, recheck, installed>>

Init ==
  /\ running = TRUE
  /\ factory = FALSE
  /\ state = "Idle"
  /\ auto_update = TRUE
  /\ loader = "none"
  /\ latest_tag = NoVersion
  /\ asset = NoVersion
  /\ manifest_url = NoVersion
  /\ signature_url = NoVersion
  /\ manifest_body = {}
  /\ expected = NoFile
  /\ verified = FALSE
  /\ downloaded = NoDir
  /\ dir = NoDir
  /\ disk = [d \in Dirs |-> NoFile]
  /\ hashes = {}
  /\ helper = {}
  /\ recheck = "none"
  /\ installed = {}

Newer(tag) == tag > Current

------------------------------------------------------------------------------
(* Starting.                                                               *)

\* Initialize(): the first browser window hands over the network factory.
Initialize ==
  /\ running
  /\ ~factory
  /\ factory' = TRUE
  /\ UNCHANGED <<running, state, auto_update, loader, release, verification,
                 dir, disk, hashes, helper, recheck, installed>>

------------------------------------------------------------------------------
(* Downloading.                                                            *)

\* ResetVerification().
ResetVerification ==
  /\ manifest_body' = {}
  /\ expected' = NoFile
  /\ verified' = FALSE
  /\ downloaded' = NoDir

\* A version of DownloadEffect that also begins while an update is installed.
DownloadEffectWhileInstalling(st, a, m, s, keep) ==
  LET busy == st \in {"Downloading", "Verifying"}
      signed == HasKey /\ m # NoVersion /\ s # NoVersion
  IN
  \/ /\ a = NoVersion \/ (~busy /\ ~factory)
     /\ state' = "Error"
     /\ loader' = keep
     /\ UNCHANGED verification
  \/ /\ a # NoVersion /\ busy
     /\ state' = st
     /\ loader' = keep
     /\ UNCHANGED verification
  \/ /\ a # NoVersion /\ ~busy /\ factory /\ ~signed
     /\ state' = "Available"
     /\ loader' = keep
     /\ UNCHANGED verification
  \/ /\ a # NoVersion /\ ~busy /\ factory /\ signed
     /\ state' = "Downloading"
     /\ loader' = "manifest"
     /\ ResetVerification

\* What DownloadUpdate() does when state_ is st, the release urls are a, m and
\* s, and keep is what loader_ goes on with unless a download begins.  Only a
\* download under way is left alone: a check is not.
DownloadEffect(st, a, m, s, keep) ==
  LET busy == st \in {"Downloading", "Verifying", "Installing"}
      signed == HasKey /\ m # NoVersion /\ s # NoVersion
  IN
  \/ /\ a = NoVersion \/ (~busy /\ ~factory)
     /\ state' = "Error"
     /\ loader' = keep
     /\ UNCHANGED verification
  \/ /\ a # NoVersion /\ busy
     /\ state' = st
     /\ loader' = keep
     /\ UNCHANGED verification
  \/ /\ a # NoVersion /\ ~busy /\ factory /\ ~signed
     /\ state' = "Available"
     /\ loader' = keep
     /\ UNCHANGED verification
  \/ /\ a # NoVersion /\ ~busy /\ factory /\ signed
     /\ state' = "Downloading"
     /\ loader' = "manifest"
     /\ ResetVerification

\* DownloadUpdate(), from the update page.
DownloadUpdate ==
  /\ running
  /\ DownloadEffect(state, asset, manifest_url, signature_url, loader)
  /\ UNCHANGED <<running, factory, auto_update, release, dir, disk, hashes,
                 helper, recheck, installed>>

\* SetAutoUpdate(enabled): a waiting update is downloaded at once.
SetAutoUpdate(enabled) ==
  /\ running
  /\ auto_update' = enabled
  /\ \/ /\ enabled /\ state = "Available" /\ asset # NoVersion
        /\ DownloadEffect(state, asset, manifest_url, signature_url, loader)
     \/ /\ ~(enabled /\ state = "Available" /\ asset # NoVersion)
        /\ UNCHANGED <<state, loader, verification>>
  /\ UNCHANGED <<running, factory, release, dir, disk, hashes, helper,
                 recheck, installed>>

------------------------------------------------------------------------------
(* Checking.                                                               *)

\* A version of Busy that forgets the hashing of the installer.
BusyOnlyWithNetwork == state \in {"Checking", "Downloading", "Installing"}

\* The states CheckForUpdates() does not interrupt.
Busy == state \in {"Checking", "Downloading", "Verifying", "Installing"}

\* CheckForUpdates(): the user, the first check, the retry or the periodic
\* timer.
CheckForUpdates ==
  /\ running
  /\ ~Busy
  /\ \/ ~factory /\ state' = "CheckFailed" /\ UNCHANGED loader
     \/ factory /\ state' = "Checking" /\ loader' = "check"
  /\ UNCHANGED <<running, factory, auto_update, release, verification, dir,
                 disk, hashes, helper, recheck, installed>>

\* The end of OnCheckResponse() and OnFallbackHeaders(), once the release's
\* tag and urls are known: compare, announce, and download in automatic mode.
Announce(tag, a, m, s) ==
  \/ /\ ~Newer(tag)
     /\ state' = "UpToDate"
     /\ loader' = "none"
     /\ UNCHANGED verification
  \/ /\ Newer(tag)
     /\ ~(auto_update /\ a # NoVersion)
     /\ state' = "Available"
     /\ loader' = "none"
     /\ UNCHANGED verification
  \/ /\ Newer(tag)
     /\ auto_update /\ a # NoVersion
     /\ DownloadEffect("Available", a, m, s, "none")

\* SetReleaseAssetUrls(): a url that is not under this release's download
\* path is dropped, so each one is the release's own or empty.
OfficialUrls(tag) == {tag, NoVersion}

\* A version of OnCheckResponse that announces a release with the urls of the
\* one before.
OnCheckResponseKeepsUrls(tag, a, m, s) ==
  /\ running
  /\ loader = "check"
  /\ latest_tag' = tag
  /\ Announce(tag, a, m, s)
  /\ UNCHANGED <<running, factory, auto_update, asset, manifest_url,
                 signature_url, dir, disk, hashes, helper, recheck, installed>>

\* OnCheckResponse() with a release.
OnCheckResponse(tag, a, m, s) ==
  /\ running
  /\ loader = "check"
  /\ a \in OfficialUrls(tag) /\ m \in OfficialUrls(tag) /\ s \in OfficialUrls(tag)
  /\ latest_tag' = tag
  /\ asset' = a
  /\ manifest_url' = m
  /\ signature_url' = s
  /\ Announce(tag, a, m, s)
  /\ UNCHANGED <<running, factory, auto_update, dir, disk, hashes, helper,
                 recheck, installed>>

\* OnCheckResponse() without one (no body, a rate limit), StartFallbackCheck().
OnCheckFailed ==
  /\ running
  /\ loader = "check"
  /\ loader' = "fallback"
  /\ UNCHANGED <<running, factory, state, auto_update, release, verification,
                 dir, disk, hashes, helper, recheck, installed>>

\* OnFallbackHeaders() with a tag.  The urls are only replaced for a newer
\* release.
OnFallbackHeaders(tag) ==
  LET a == IF FixedNames THEN tag ELSE NoVersion IN
  /\ running
  /\ loader = "fallback"
  /\ latest_tag' = tag
  /\ \/ /\ Newer(tag)
        /\ asset' = a
        /\ manifest_url' = tag
        /\ signature_url' = tag
     \/ /\ ~Newer(tag)
        /\ UNCHANGED <<asset, manifest_url, signature_url>>
  /\ Announce(tag, a, tag, tag)
  /\ UNCHANGED <<running, factory, auto_update, dir, disk, hashes, helper,
                 recheck, installed>>

\* OnFallbackHeaders() without a tag: ResolveCheckFailure() keeps the last
\* known answer.
ResolveCheckFailure ==
  /\ running
  /\ loader = "fallback"
  /\ loader' = "none"
  /\ state' = IF latest_tag = NoVersion THEN "CheckFailed"
              ELSE IF Newer(latest_tag) THEN "Available" ELSE "UpToDate"
  /\ UNCHANGED <<running, factory, auto_update, release, verification, dir,
                 disk, hashes, helper, recheck, installed>>

------------------------------------------------------------------------------
(* The signed manifest.                                                    *)

\* A version of OnTransferFailed that leaves state_ as it was.
OnTransferFailedSilently ==
  /\ running
  /\ loader \in {"manifest", "signature", "installer"}
  /\ loader' = "none"
  /\ UNCHANGED <<running, factory, state, auto_update, release, verification,
                 dir, disk, hashes, helper, recheck, installed>>

\* A transfer of the download failed: OnManifestFetched(), OnSignatureFetched()
\* and OnDownloadComplete() without a body or a path.
OnTransferFailed ==
  /\ running
  /\ loader \in {"manifest", "signature", "installer"}
  /\ loader' = "none"
  /\ state' = "Error"
  /\ UNCHANGED <<running, factory, auto_update, release, verification, dir,
                 disk, hashes, helper, recheck, installed>>

\* OnManifestFetched(): the bytes are kept until their signature is here.
OnManifestFetched(m) ==
  /\ running
  /\ loader = "manifest"
  /\ manifest_body' = {m}
  /\ loader' = "signature"
  /\ UNCHANGED <<running, factory, state, auto_update, release, expected,
                 verified, downloaded, dir, disk, hashes, helper, recheck, installed>>

\* A version of PolicyAccepts that takes the manifest of any newer release.
PolicyAcceptsAnyRelease(m) == Newer(m.tag) /\ m.file # NoFile

\* CheckReleaseManifestPolicy() and FindAsset().
PolicyAccepts(m) == m.tag = latest_tag /\ Newer(m.tag) /\ m.file # NoFile

\* The names a new directory can have: none that a path still leads into.
FreshDirs == Dirs \ ({dir, downloaded} \cup {h.path : h \in hashes})

\* StartInstallerDownload() deletes the directory of the download before.
DiskWithoutDir == [d \in Dirs |-> IF d = dir THEN NoFile ELSE disk[d]]

\* OnSignatureFetched(): the signature verifies (valid) or not; then the
\* policy; then StartInstallerDownload(), into a fresh directory if there can
\* be one.  Everything else is RejectUpdate().
OnSignatureFetched(valid) ==
  /\ running
  /\ loader = "signature"
  /\ valid => manifest_body \subseteq Signed
  /\ \/ /\ valid
        /\ \E m \in manifest_body : PolicyAccepts(m) /\ expected' = m.file
        /\ disk' = DiskWithoutDir
        /\ UNCHANGED <<manifest_body, verified, downloaded>>
        /\ \/ /\ dir' \in FreshDirs
              /\ loader' = "installer"
              /\ UNCHANGED state
           \/ /\ dir' = NoDir   \* CreateNewTempDirectory() failed
              /\ loader' = "none"
              /\ state' = "Error"
     \/ /\ ~valid \/ \A m \in manifest_body : ~PolicyAccepts(m)
        /\ ResetVerification
        /\ state' = "Error"
        /\ loader' = "none"
        /\ UNCHANGED <<dir, disk>>
  /\ UNCHANGED <<running, factory, auto_update, release, hashes, helper,
                 recheck, installed>>

------------------------------------------------------------------------------
(* The installer.                                                          *)

\* OnDownloadComplete(): the file f the server sent is in the newest directory;
\* hashing it is posted to the thread pool.
OnDownloadComplete(f) ==
  /\ running
  /\ loader = "installer"
  /\ loader' = "none"
  /\ disk' = [disk EXCEPT ![dir] = f]
  /\ state' = "Verifying"
  /\ hashes' = hashes \cup {[path |-> dir, sha |-> {}]}
  /\ UNCHANGED <<running, factory, auto_update, release, verification, dir,
                 helper, recheck, installed>>

\* HashFileSha256(), on the thread pool.  An unreadable file has no digest.
HashFile(h, sha) ==
  /\ running
  /\ h \in hashes /\ h.sha = {}
  /\ sha \in {disk[h.path], NoFile}
  /\ hashes' = (hashes \ {h}) \cup {[h EXCEPT !.sha = {sha}]}
  /\ UNCHANGED <<running, factory, state, auto_update, loader, release,
                 verification, dir, disk, helper, recheck, installed>>

\* OnInstallerHashed(): ignored when superseded; a file that differs from the
\* signed manifest is deleted and the update rejected.  GetFileSize() reads the
\* size again: a file that changed since it was hashed may have kept it.
OnInstallerHashed(h, sizeOk) ==
  /\ running
  /\ h \in hashes /\ h.sha # {}
  /\ disk[h.path] = NoFile => ~sizeOk
  /\ (disk[h.path] = expected /\ expected # NoFile) => sizeOk
  /\ hashes' = hashes \ {h}
  /\ \/ /\ state # "Verifying"
        /\ UNCHANGED <<state, verification, disk>>
     \/ /\ state = "Verifying"
        /\ h.sha = {expected} /\ sizeOk
        /\ downloaded' = h.path
        /\ verified' = TRUE
        /\ state' = "Downloaded"
        /\ UNCHANGED <<manifest_body, expected, disk>>
     \/ /\ state = "Verifying"
        /\ h.sha # {expected} \/ ~sizeOk
        /\ disk' = [disk EXCEPT ![h.path] = NoFile]
        /\ ResetVerification
        /\ state' = "Error"
  /\ UNCHANGED <<running, factory, auto_update, loader, release, dir, helper,
                 recheck, installed>>

\* InstallUpdate(): launches the detached helper with the path and the SHA-256
\* of the verified installer, or reports that it could not.
InstallUpdate(launched) ==
  /\ running
  /\ state = "Downloaded" /\ downloaded # NoDir /\ verified
  /\ \/ /\ launched
        /\ helper' = {[path |-> downloaded, want |-> expected]}
        /\ state' = "Installing"
     \/ /\ ~launched
        /\ state' = "Error"
        /\ UNCHANGED helper
  /\ UNCHANGED <<running, factory, auto_update, loader, release, verification,
                 dir, disk, hashes, recheck, installed>>

------------------------------------------------------------------------------
(* The rest of the machine.                                                *)

\* The browser exits: AttemptExit() after InstallUpdate(), or at any time.
Exit ==
  /\ running
  /\ running' = FALSE
  /\ UNCHANGED <<factory, state, auto_update, loader, release, verification,
                 dir, disk, hashes, helper, recheck, installed>>

\* A downloaded file goes bad on disk.
FileDamaged(d, f) ==
  /\ disk[d] # NoFile /\ f # disk[d]
  /\ disk' = [disk EXCEPT ![d] = f]
  /\ recheck' = IF recheck = "passed" /\ (\E h \in helper : h.path = d)
                THEN "spoiled" ELSE recheck
  /\ UNCHANGED <<running, factory, state, auto_update, loader, release,
                 verification, dir, hashes, helper, installed>>

\* A version of HelperChecks that does not hash the file again.
HelperChecksNothing(h) ==
  /\ ~running
  /\ h \in helper /\ recheck = "none"
  /\ recheck' = "passed"
  /\ UNCHANGED <<running, factory, state, auto_update, loader, release,
                 verification, dir, disk, hashes, helper, installed>>

\* The script of LaunchInstaller() waits for the browser to exit and hashes the
\* file again; one that is not what the script was told is not installed.
HelperChecks(h) ==
  /\ ~running
  /\ h \in helper /\ recheck = "none"
  /\ \/ /\ disk[h.path] = h.want
        /\ recheck' = "passed"
        /\ UNCHANGED helper
     \/ /\ disk[h.path] # h.want
        /\ helper' = helper \ {h}
        /\ UNCHANGED recheck
  /\ UNCHANGED <<running, factory, state, auto_update, loader, release,
                 verification, dir, disk, hashes, installed>>

\* Then it hands the path to the platform's installer, which reads the file as
\* it is by now, or refuses (a password is asked for, for one).
HelperInstalls(h) ==
  /\ ~running
  /\ h \in helper /\ recheck # "none"
  /\ helper' = helper \ {h}
  /\ installed' \in {installed, installed \cup {disk[h.path]}}
  /\ UNCHANGED <<running, factory, state, auto_update, loader, release,
                 verification, dir, disk, hashes, recheck>>

------------------------------------------------------------------------------
Next ==
  \/ Initialize
  \/ DownloadUpdate
  \/ \E enabled \in BOOLEAN : SetAutoUpdate(enabled)
  \/ CheckForUpdates
  \/ \E tag \in Versions : \E a, m, s \in OfficialUrls(tag) :
       OnCheckResponse(tag, a, m, s)
  \/ OnCheckFailed
  \/ \E tag \in Versions : OnFallbackHeaders(tag)
  \/ ResolveCheckFailure
  \/ OnTransferFailed
  \/ \E m \in Manifests : OnManifestFetched(m)
  \/ \E valid \in BOOLEAN : OnSignatureFetched(valid)
  \/ \E f \in Files : OnDownloadComplete(f)
  \/ \E h \in hashes : \E sha \in Files \cup {NoFile} : HashFile(h, sha)
  \/ \E h \in hashes : \E sizeOk \in BOOLEAN : OnInstallerHashed(h, sizeOk)
  \/ \E launched \in BOOLEAN : InstallUpdate(launched)
  \/ Exit
  \/ \E d \in Dirs, f \in Files : FileDamaged(d, f)
  \/ \E h \in helper : HelperChecks(h) \/ HelperInstalls(h)

Spec == Init /\ [][Next]_vars

\* An honest server answers again and again, and the timers keep checking.
Honest ==
  /\ SF_vars(\E tag \in Versions : Newer(tag) /\ OnCheckResponse(tag, tag, tag, tag))
  /\ SF_vars(\E m \in Signed : PolicyAccepts(m) /\ OnManifestFetched(m))
  /\ SF_vars(OnSignatureFetched(TRUE) /\ loader' = "installer")
  /\ SF_vars(OnDownloadComplete(expected))
  /\ SF_vars(\E h \in hashes : HashFile(h, expected))
  /\ SF_vars(\E h \in hashes : OnInstallerHashed(h, TRUE) /\ state' = "Downloaded")

FairSpec ==
  /\ Spec
  /\ WF_vars(Initialize)
  /\ SF_vars(CheckForUpdates)
  /\ WF_vars(OnCheckFailed)
  /\ WF_vars(ResolveCheckFailure)
  /\ WF_vars(OnTransferFailed)
  /\ WF_vars(\E valid \in BOOLEAN : OnSignatureFetched(valid))
  /\ WF_vars(\E h \in hashes : \E sha \in Files \cup {NoFile} : HashFile(h, sha))
  /\ WF_vars(\E h \in hashes : \E sizeOk \in BOOLEAN : OnInstallerHashed(h, sizeOk))
  /\ WF_vars(\E h \in helper : HelperChecks(h) \/ HelperInstalls(h))
  /\ Honest

------------------------------------------------------------------------------
(* Properties.                                                             *)

\* Types; the variables named after members hold what those can hold.
TypeOK ==
  /\ running \in BOOLEAN /\ factory \in BOOLEAN /\ auto_update \in BOOLEAN
  /\ state \in States
  /\ loader \in {"none", "check", "fallback", "manifest", "signature", "installer"}
  /\ latest_tag \in Versions \cup {NoVersion}
  /\ asset \in Versions \cup {NoVersion}
  /\ manifest_url \in Versions \cup {NoVersion}
  /\ signature_url \in Versions \cup {NoVersion}
  /\ manifest_body \in SUBSET Manifests
  /\ expected \in Files \cup {NoFile}
  /\ verified \in BOOLEAN
  /\ downloaded \in Dirs \cup {NoDir}
  /\ dir \in Dirs \cup {NoDir}
  /\ disk \in [Dirs -> Files \cup {NoFile}]
  /\ hashes \in SUBSET [path : Dirs, sha : SUBSET (Files \cup {NoFile})]
  /\ helper \in SUBSET [path : Dirs, want : Files]
  /\ recheck \in {"none", "passed", "spoiled"}
  /\ installed \in SUBSET Files

\* A busy state always has the call that will end it on its way: no check,
\* download or verification is left waiting, with every later CheckForUpdates()
\* refused.  A hash that arrives is the one state_ waits for, so the
\* "Superseded" return of OnInstallerHashed() is never taken.
BusyIsServed ==
  /\ state = "Checking" => loader \in {"check", "fallback"}
  /\ state = "Downloading" => loader \in {"manifest", "signature", "installer"}
  /\ state = "Verifying" <=> hashes # {}
  /\ \A h1, h2 \in hashes : h1 = h2

\* expected_sha256_ is that of a file some signed manifest lists for the release
\* shown, a newer one.
ExpectedFromSigned ==
  \E m \in manifest_body \cap Signed :
    m.tag = latest_tag /\ Newer(m.tag) /\ m.file = expected /\ expected # NoFile

\* The installer offered or launched is the one a signed manifest lists for
\* the very release the updater shows (latest_tag_), newer than the running
\* one, whatever checks ran since the manifest was fetched; and a build without
\* a key never gets there.
ReadyIsSignedRelease ==
  state \in {"Downloaded", "Installing"} =>
    /\ HasKey
    /\ verified
    /\ ExpectedFromSigned

\* A file the release key signed for a newer version.
SignedFile(f) == \E m \in Signed : Newer(m.tag) /\ m.file = f

\* What replaces the app is a file the release key signed for a newer version,
\* although files go bad on disk at any time after they were verified; but for
\* one that goes bad after the helper, too, has found it good.
InstalledIsSigned == (\A f \in installed : SignedFile(f)) \/ recheck = "spoiled"

\* "... re-checks the installer's SHA-256 against the signed manifest (so
\* nothing can swap the file after verification), installs it": what replaces
\* the app was signed, whenever files go bad.
InstalledAlwaysSigned == \A f \in installed : SignedFile(f)

\* UpdateState::kAvailable: "A newer version exists (not yet downloaded)".
AvailableNotDownloaded == state = "Available" => downloaded = NoDir

\* With automatic updates on and a server that is honest again and again, an
\* update is ready again and again: no failed check, transfer or verification
\* leaves the updater where nothing retries.
AutoUpdateArrives ==
  ([]running /\ <>[]auto_update) => []<>(state \in {"Downloaded", "Installing"})

\* How far the update at hand is, and the manifest it is of.
Stage ==
  IF helper # {} THEN IF recheck = "none" THEN "handed" ELSE "checked"
  ELSE IF state = "Downloaded" THEN "ready"
  ELSE IF loader = "installer" \/ state = "Verifying" THEN "accepted"
  ELSE "none"

Offer ==
  IF Stage = "none" THEN {} ELSE {[tag |-> latest_tag, file |-> expected]}

Update ==
  INSTANCE SignedUpdate WITH
    Offers <- {m \in Signed : Newer(m.tag) /\ m.file # NoFile},
    stage <- Stage, offer <- Offer, spoiled <- (recheck = "spoiled")

\* UpdateManager implements SignedUpdate: through every check, download and
\* failure there is one update at hand, it is installed as it was accepted, and
\* once the helper has it no later call changes what it is.
ImplementsSignedUpdate == Update!Spec

------------------------------------------------------------------------------
(* The inductive invariant behind the safety properties.                   *)

\* Which states a transfer, a hash and the helper can be outstanding in.
Outstanding ==
  /\ loader \in {"check", "fallback"} =>
       state \notin {"Downloading", "Verifying", "Downloaded", "Installing"}
  /\ loader \in {"manifest", "signature", "installer"} => state = "Downloading"
  /\ helper # {} => state = "Installing"
  /\ state \in {"Downloading", "Verifying", "Downloaded", "Installing"} =>
       HasKey /\ asset # NoVersion
  /\ loader = "installer" => dir # NoDir

\* The manifest behind expected_sha256_ from its acceptance to the installation.
ExpectedIsSigned ==
  loader = "installer" \/ state \in {"Verifying", "Downloaded", "Installing"} =>
    ExpectedFromSigned

\* What the helper was told, and what it installed.
HelperIsSigned == \A h \in helper : SignedFile(h.want)

\* The helper was told of the update the updater still knows.
HelperHasOffer ==
  \A h \in helper : h = [path |-> downloaded, want |-> expected]

\* The helper checks once the browser is gone, so what it found good is what it
\* installs, unless that was spoiled.
RecheckHolds ==
  /\ recheck # "none" => ~running /\ \A h \in helper : disk[h.path] # NoFile
  /\ recheck = "passed" => \A h \in helper : disk[h.path] = h.want

UpdateInv ==
  /\ TypeOK
  /\ BusyIsServed
  /\ Outstanding
  /\ ExpectedIsSigned
  /\ ReadyIsSignedRelease
  /\ HelperIsSigned
  /\ HelperHasOffer
  /\ RecheckHolds
  /\ InstalledIsSigned
=============================================================================
