\* Two newer releases, downloads that may be damaged, checks at any time.
SPECIFICATION FairSpec
CONSTANTS
  f1 = f1
  f2 = f2
  f3 = f3
  Versions = {1, 2, 3}
  Current = 1
  Files = {f1, f2, f3}
  NoFile = NoFile
  Signed <- SignedReleases
  HasKey = TRUE
  FixedNames = TRUE
  Dirs = {d1, d2}
  NoDir = NoDir
INVARIANTS
  BusyIsServed
  ReadyIsSignedRelease
  InstalledIsSigned
  UpdateInv
PROPERTIES
  AutoUpdateArrives
  ImplementsSignedUpdate
CHECK_DEADLOCK FALSE
