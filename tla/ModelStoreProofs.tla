-------------------------- MODULE ModelStoreProofs --------------------------
(***************************************************************************)
(* ModelDownload implements ModelStore, for any number of pages, jobs,     *)
(* inodes and blocks.  DownloadInv says what a file in place holds; what   *)
(* is left is which step changes a name, and what it changes it to.        *)
(***************************************************************************)
EXTENDS ModelDownloadProofs

\* Under the invariant a file in place is whole or was shared.
LEMMA PlaceOf ==
  ASSUME DownloadInv
  PROVE  Place = [f \in Pinned |-> IF final[f] = NoInode THEN "none"
                                   ELSE IF final[f] \in mixed THEN "shared"
                                   ELSE "whole"]
  BY DEF Place, DownloadInv, InPlaceIsDurable

\* The same after a step.
LEMMA PlaceAfter ==
  ASSUME DownloadInv'
  PROVE  Place' = [f \in Pinned |-> IF final'[f] = NoInode THEN "none"
                                    ELSE IF final'[f] \in mixed' THEN "shared"
                                    ELSE "whole"]
  BY DEF Place, DownloadInv, InPlaceIsDurable, PinnedContent

LEMMA PartOf ==
  Part = [f \in Pinned |-> IF partial[f] = NoInode THEN "none"
                           ELSE IF partial[f] \in mixed THEN "shared"
                           ELSE "sole"]
  BY DEF Part

\* What names a file keeps what it was, on a disk where nothing was opened.
LEMMA SameMixed ==
  ASSUME DownloadInv, DownloadInv', NEW c, NEW d, Disk(c, d, mixed)
  PROVE  \A f \in Files :
           /\ partial'[f] # NoInode => (partial'[f] \in mixed' <=> partial'[f] \in mixed)
           /\ final'[f] # NoInode => (final'[f] \in mixed' <=> final'[f] \in mixed)
  BY DEF Disk, Linked

\* A step that changes no name, and opens no file: at most a removal begins or
\* ends.
LEMMA SameNames ==
  ASSUME DownloadInv, DownloadInv', UNCHANGED <<partial, final>>,
         UNCHANGED mixed \/ \E c, d : Disk(c, d, mixed)
  PROVE  UNCHANGED <<Part, Place>>
<1>1. \A f \in Pinned :
        /\ partial[f] # NoInode => (partial[f] \in mixed' <=> partial[f] \in mixed)
        /\ final[f] # NoInode => (final[f] \in mixed' <=> final[f] \in mixed)
  BY SameMixed, UnitAssumption
<1>2. Part' = Part
  BY <1>1, PartOf DEF Part
<1>3. Place' = Place
  BY <1>1, PlaceOf, PlaceAfter
<1> QED
  BY <1>2, <1>3

LEMMA AskOrEnd ==
  ASSUME UNCHANGED <<Part, Place>>
  PROVE  Store!Next
<1>1. CASE Removing'
  BY <1>1 DEF Store!Next, Store!Ask
<1>2. CASE ~Removing'
  BY <1>2 DEF Store!Next, Store!End
<1> QED
  BY <1>1, <1>2

\* A path that is deleted while a removal is under way.
LEMMA UnlinkRemoves ==
  ASSUME DownloadInv, DownloadInv', NEW p \in Paths, Unlink(p), Removing,
         NEW c, NEW d, Disk(c, d, mixed)
  PROVE  Store!Next
<1> PICK f \in Files : f = p[2]
  BY DEF Paths
<1>0. /\ Pinned \subseteq Files /\ partial \in [Files -> Inodes \cup {NoInode}]
      /\ final \in [Files -> Inodes \cup {NoInode}]
  BY UnitAssumption DEF DownloadInv, TypeOK
<1>1. CASE UNCHANGED <<partial, final>>
  BY <1>1, SameNames, AskOrEnd
<1>2. CASE final' = [final EXCEPT ![f] = NoInode] /\ UNCHANGED partial
  <2>1. \A g \in Pinned : Part'[g] = Part[g]
    BY <1>0, <1>2, SameMixed DEF Part
  <2>2. Part' = Part
    BY <2>1 DEF Part
  <2>3. \A g \in Pinned \ {f} : Place'[g] = Place[g]
    BY <1>0, <1>2, SameMixed, PlaceOf, PlaceAfter
  <2>4. CASE f \in Pinned
    <3>1. Place'[f] = "none"
      BY <1>0, <1>2, <2>4, PlaceAfter
    <3>2. Place' = [Place EXCEPT ![f] = "none"]
      BY ZenonT(60), <2>3, <3>1 DEF Place
    <3>3. Removing' \in BOOLEAN
      BY DEF Removing
    <3>4. Store!Remove(f)
      BY <2>2, <3>2, <3>3 DEF Store!Remove
    <3> QED
      BY <2>4, <3>4 DEF Store!Next
  <2>5. CASE f \notin Pinned
    <3>1. Place' = Place
      BY <2>3, <2>5 DEF Place
    <3> QED
      BY <2>2, <3>1, AskOrEnd
  <2> QED
    BY <2>4, <2>5
<1>3. CASE partial' = [partial EXCEPT ![f] = NoInode] /\ UNCHANGED final
  <2>1. \A g \in Pinned : final[g] # NoInode => (final[g] \in mixed' <=> final[g] \in mixed)
    BY <1>0, <1>3, SameMixed
  <2>2. Place' = Place
    BY <1>3, <2>1, PlaceOf, PlaceAfter
  <2>3. \A g \in Pinned \ {f} : Part'[g] = Part[g]
    BY <1>0, <1>3, SameMixed DEF Part
  <2>4. CASE f \in Pinned
    <3>1. Part'[f] = "none"
      BY <1>0, <1>3, <2>4 DEF Part
    <3>2. Part' = [Part EXCEPT ![f] = "none"]
      BY ZenonT(60), <2>3, <3>1 DEF Part
    <3>3. Removing' \in BOOLEAN
      BY DEF Removing
    <3>4. Store!Remove(f)
      BY <2>2, <3>2, <3>3 DEF Store!Remove
    <3> QED
      BY <2>4, <3>4 DEF Store!Next
  <2>5. CASE f \notin Pinned
    <3>1. Part' = Part
      BY <2>3, <2>5 DEF Part
    <3> QED
      BY <2>2, <3>1, AskOrEnd
  <2> QED
    BY <2>4, <2>5
<1> QED
  BY <1>1, <1>2, <1>3 DEF Unlink

\* What verification rejects is deleted.
LEMMA RejectedDrops ==
  ASSUME DownloadInv, DownloadInv', NEW f \in Files,
         partial' = [partial EXCEPT ![f] = NoInode], UNCHANGED final,
         NEW c, NEW d, Disk(c, d, mixed), Removing' = Removing
  PROVE  (f \in Pinned /\ Store!Drop(f)) \/ UNCHANGED <<Part, Place>>
<1>0. Pinned \subseteq Files /\ partial \in [Files -> Inodes \cup {NoInode}]
  BY UnitAssumption DEF DownloadInv, TypeOK
<1>1. \A g \in Pinned : final[g] # NoInode => (final[g] \in mixed' <=> final[g] \in mixed)
  BY <1>0, SameMixed
<1>2. Place' = Place
  BY <1>1, PlaceOf, PlaceAfter
<1>3. \A g \in Pinned \ {f} : Part'[g] = Part[g]
  BY <1>0, SameMixed DEF Part
<1>4. CASE f \in Pinned /\ partial[f] # NoInode
  <2>1. Part[f] # "none" /\ Part'[f] = "none"
    BY <1>0, <1>4 DEF Part
  <2>2. Part' = [Part EXCEPT ![f] = "none"]
    BY <1>3, <2>1 DEF Part
  <2> QED
    BY <1>2, <1>4, <2>1, <2>2 DEF Store!Drop
<1>5. CASE f \notin Pinned \/ partial[f] = NoInode
  <2>1. \A g \in Pinned : Part'[g] = Part[g]
    BY <1>0, <1>3, <1>5 DEF Part
  <2>2. Part' = Part
    BY <2>1 DEF Part
  <2> QED
    BY <1>2, <2>2
<1> QED
  BY <1>4, <1>5

\* What is moved into place is whole, if no other job had it open.
LEMMA MovedPuts ==
  ASSUME DownloadInv, DownloadInv', NEW f \in Files, partial[f] # NoInode,
         final' = [final EXCEPT ![f] = partial[f]],
         partial' = [partial EXCEPT ![f] = NoInode],
         NEW c, NEW d, Disk(c, d, mixed), Removing' = Removing
  PROVE  (f \in Pinned /\ Store!Put(f)) \/ UNCHANGED <<Part, Place>>
<1>0. /\ Pinned \subseteq Files /\ partial \in [Files -> Inodes \cup {NoInode}]
      /\ final \in [Files -> Inodes \cup {NoInode}]
  BY UnitAssumption DEF DownloadInv, TypeOK
<1>1. \A g \in Pinned \ {f} : Part'[g] = Part[g]
  BY <1>0, SameMixed DEF Part
<1>2. \A g \in Pinned \ {f} : Place'[g] = Place[g]
  BY <1>0, SameMixed, PlaceOf, PlaceAfter
<1>3. CASE f \in Pinned
  <2>1. Part[f] # "none" /\ Part'[f] = "none"
    BY <1>0, <1>3 DEF Part
  <2>2. Place'[f] = IF Part[f] = "sole" THEN "whole" ELSE "shared"
    BY <1>0, <1>3, SameMixed, PlaceAfter DEF Part
  <2>3. Part' = [Part EXCEPT ![f] = "none"]
    BY <1>1, <2>1 DEF Part
  <2>4. Place' = [Place EXCEPT ![f] = IF Part[f] = "sole" THEN "whole" ELSE "shared"]
    BY ZenonT(60), <1>2, <2>2 DEF Place
  <2> QED
    BY <1>3, <2>1, <2>3, <2>4 DEF Store!Put
<1>4. CASE f \notin Pinned
  <2>1. Part' = Part /\ Place' = Place
    BY <1>1, <1>2, <1>4 DEF Part, Place
  <2> QED
    BY <2>1
<1> QED
  BY <1>3, <1>4

\* Opening a file concerns that file's .partial only.
LEMMA OpenedBegins ==
  ASSUME DownloadInv, DownloadInv', NEW j \in Jobs, NEW f, f = file[j], NEW i \in Inodes,
         i = partial[f] \/ i \notin Linked,
         partial' = [partial EXCEPT ![f] = i], UNCHANGED final,
         NEW c, NEW d, Disk(c, d, MixedBy(j, i)), Removing' = Removing
  PROVE  (f \in Pinned /\ Store!Begin(f)) \/ UNCHANGED <<Part, Place>>
<1>0. /\ Pinned \subseteq Files /\ partial \in [Files -> Inodes \cup {NoInode}]
      /\ final \in [Files -> Inodes \cup {NoInode}]
      /\ handle \in [Jobs -> Inodes \cup {NoInode}]
      /\ f \in Files /\ i # NoInode
  BY UnitAssumption DEF DownloadInv, TypeOK
<1>1. \A g \in Files : final[g] \in Linked' /\ partial'[g] \in Linked'
  BY DEF Linked
<1>2. \A g \in Files : final[g] \in Linked /\ partial[g] \in Linked
  BY DEF Linked
<1>3. ASSUME NEW g \in Files, final[g] # NoInode
      PROVE  final[g] \in mixed' <=> final[g] \in mixed
  <2>1. final[g] # i
    BY <1>0, <1>2, <1>3 DEF DownloadInv, OneFile
  <2>2. \A k \in Jobs : handle[k] = final[g] => final[g] \in mixed
    BY <1>3 DEF DownloadInv, InPlaceIsClosed
  <2>3. final[g] \in MixedBy(j, i) <=> final[g] \in mixed
    BY <2>1, <2>2 DEF MixedBy, Others
  <2> QED
    BY <1>1, <2>3 DEF Disk
<1>4. ASSUME NEW g \in Files \ {f}, partial[g] # NoInode
      PROVE  partial[g] \in mixed' <=> partial[g] \in mixed
  <2>1. partial[g] # i
    BY <1>0, <1>2, <1>4 DEF DownloadInv, OneFile
  <2>2. \A k \in Others(j) : handle[k] # partial[g]
    BY <1>4 DEF Others, DownloadInv, OneFile
  <2>3. partial[g] \in MixedBy(j, i) <=> partial[g] \in mixed
    BY <2>1, <2>2 DEF MixedBy
  <2>4. partial'[g] = partial[g]
    BY <1>0
  <2> QED
    BY <1>1, <2>3, <2>4 DEF Disk
<1>5. Place' = Place
  BY <1>0, <1>3, PlaceOf, PlaceAfter
<1>6. \A g \in Pinned \ {f} : Part'[g] = Part[g]
  BY <1>0, <1>4 DEF Part
<1>7. CASE f \in Pinned
  <2>1. Part'[f] \in {"sole", "shared"}
    BY <1>0, <1>7 DEF Part
  <2>2. Part' = [Part EXCEPT ![f] = Part'[f]]
    BY ZenonT(60), <1>6 DEF Part
  <2> QED
    BY <1>5, <1>7, <2>1, <2>2 DEF Store!Begin
<1>8. CASE f \notin Pinned
  <2>1. Part' = Part
    BY <1>6, <1>8 DEF Part
  <2> QED
    BY <1>5, <2>1
<1> QED
  BY <1>7, <1>8

\* The tasks of a Writer.
LEMMA WriterRefines ==
  ASSUME DownloadInv, DownloadInv', NEW j \in Jobs, Writer(j)
  PROVE  Store!Next
<1> USE DEF SamePaths
<1>0. file[j] \in Files
  BY DEF DownloadInv, TypeOK
<1>1. OpenPartial(j) \/ Finish(j) => Removing' = Removing
  BY DEF OpenPartial, Finish, Transfers, removalVars, Removing
<1>2. CASE OpenPartial(j)
  <2>1. CASE SamePaths /\ Disk(content, synced, mixed)
    BY <2>1, SameNames, AskOrEnd
  <2>2. ASSUME NEW i \in Inodes, i = partial[file[j]] \/ i \notin Linked,
               partial' = [partial EXCEPT ![file[j]] = i], UNCHANGED final,
               NEW c, NEW d, Disk(c, d, MixedBy(j, i))
        PROVE  Store!Next
    BY <1>1, <1>2, <2>2, OpenedBegins, AskOrEnd DEF Store!Next
  <2> QED
    BY <1>2, <2>1, <2>2 DEF OpenPartial
<1>3. CASE Truncate(j) \/ \E b \in Blocks : AppendBlock(j, b)
  <2>1. UNCHANGED <<partial, final>> /\ \E c, d : Disk(c, d, mixed)
    BY <1>3 DEF Truncate, AppendBlock
  <2> QED
    BY <2>1, SameNames, AskOrEnd
<1>4. CASE Finish(j)
  <2>1. PICK d : Disk(content, d, mixed)
    BY <1>4 DEF Finish
  <2>2. CASE UNCHANGED <<partial, final>>
    BY <2>1, <2>2, SameNames, AskOrEnd
  <2>3. CASE partial' = [partial EXCEPT ![file[j]] = NoInode] /\ UNCHANGED final
    BY <1>0, <1>1, <1>4, <2>1, <2>3, RejectedDrops, AskOrEnd DEF Store!Next
  <2>4. CASE /\ partial[file[j]] # NoInode
             /\ final' = [final EXCEPT ![file[j]] = partial[file[j]]]
             /\ partial' = [partial EXCEPT ![file[j]] = NoInode]
    BY <1>0, <1>1, <1>4, <2>1, <2>4, MovedPuts, AskOrEnd DEF Store!Next
  <2> QED
    BY <1>4, <2>2, <2>3, <2>4 DEF Finish
<1>5. CASE Discard(j)
  <2>1. PICK p \in Paths : Unlink(p)
    BY <1>5 DEF Discard
  <2>2. Removing
    BY <1>5 DEF Discard, DiscardNext, Removing
  <2> QED
    BY <1>5, <2>1, <2>2, UnlinkRemoves DEF Discard
<1> QED
  BY <1>2, <1>3, <1>4, <1>5 DEF Writer

\* What the UI thread and a stop of the browser do: no name changes.
LEMMA OthersKeepNames ==
  ASSUME DownloadInv, DownloadInv',
         \/ \E t \in Tabs : \/ HandleDownloadModel(t) \/ HandleCancelDownload(t)
                            \/ HandleDeleteModel(t) \/ CloseTab(t)
                            \/ OnJavascriptDisallowed(t) \/ Network(t) \/ Reply(t)
         \/ Crash
         \/ UNCHANGED vars
  PROVE  UNCHANGED <<Part, Place>>
<1> USE DEF diskVars
<1>1. ASSUME NEW t \in Tabs, \/ HandleDownloadModel(t) \/ HandleCancelDownload(t)
                             \/ HandleDeleteModel(t) \/ CloseTab(t)
                             \/ OnJavascriptDisallowed(t)
      PROVE  UNCHANGED <<partial, final>> /\ (UNCHANGED mixed \/ \E c, d : Disk(c, d, mixed))
  BY SMTT(30), <1>1 DEF HandleDownloadModel, HandleCancelDownload, HandleDeleteModel,
     CloseTab, OnJavascriptDisallowed, DropJob, EndJob
<1>2. ASSUME NEW t \in Tabs, Network(t)
      PROVE  UNCHANGED <<partial, final>> /\ (UNCHANGED mixed \/ \E c, d : Disk(c, d, mixed))
  BY ZenonT(60), <1>2 DEF Network, OnResponseStarted, OnDataReceived, OnComplete, OnNetworkError, Fail, EndJob
<1>3. ASSUME NEW t \in Tabs, Reply(t)
      PROVE  UNCHANGED <<partial, final>> /\ (UNCHANGED mixed \/ \E c, d : Disk(c, d, mixed))
  BY <1>3 DEF Reply, Precheck, PrecheckRefused, OnDownloadPrecheckComplete, FinishDownload,
              OnPartialOpened, OnChunkWritten, OnFinished, Fail, EndJob
<1>4. CASE Crash
  <2>1. UNCHANGED <<partial, final>> /\ \E c, d : Disk(c, d, mixed)
    BY <1>4 DEF Crash
  <2> QED
    BY <2>1, SameNames
<1>5. CASE UNCHANGED vars
  BY <1>5, SameNames DEF vars
<1> QED
  BY SMTT(30), <1>1, <1>2, <1>3, <1>4, <1>5, SameNames

\* ModelDownload implements ModelStore, with any number of pages and jobs at
\* work: a whole file in place outlives every failure and crash until a removal
\* that the user asked for comes to it, or another download is put in its place.
\* Nothing is promised of how far a removal gets: DeleteFile() may fail, and the
\* browser may stop between two of them.
THEOREM ModelStoreImplemented == Spec => ImplementsModelStore
<1>1. Init => Store!Init
  <2> SUFFICES ASSUME Init PROVE Store!Init
    OBVIOUS
  <2>1. \A f \in Pinned : partial[f] = NoInode /\ final[f] = NoInode
    BY UnitAssumption DEF Init
  <2>2. ~Removing
    BY DEF Init, Removing
  <2> QED
    BY <2>1, <2>2 DEF Store!Init, Part, Place
<1>2. DownloadInv /\ DownloadInv' /\ [Next]_vars => [Store!Next]_Store!storeVars
  <2> SUFFICES ASSUME DownloadInv, DownloadInv', [Next]_vars
               PROVE  Store!Next
    OBVIOUS
  <2>1. CASE DeleteModel
    <3>1. DeletePath \in Paths
      BY <2>1, InvParts, DeletePathIsPath DEF DeleteModel
    <3>2. Removing
      BY <2>1 DEF DeleteModel, Removing
    <3> QED
      BY <2>1, <3>1, <3>2, UnlinkRemoves DEF DeleteModel
  <2> QED
    BY <2>1, WriterRefines, OthersKeepNames, AskOrEnd DEF Next
<1> QED
  BY <1>1, <1>2, DownloadInvariant, PTL DEF Spec, ImplementsModelStore, Store!Spec
=============================================================================
