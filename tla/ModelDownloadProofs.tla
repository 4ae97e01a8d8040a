------------------------ MODULE ModelDownloadProofs ------------------------
(***************************************************************************)
(* DownloadInv is an inductive invariant of ModelDownload, for any number  *)
(* of pages, jobs, inodes and blocks: as long as no two jobs have a file   *)
(* open at once, what is in place is what the registry pins.               *)
(***************************************************************************)
EXTENDS ModelDownload, SequenceTheorems, TLAPS

------------------------------------------------------------------------------
(* Types.                                                                  *)

\* A write leaves a sequence of blocks.
LEMMA WrittenType ==
  ASSUME NEW c \in Seq(Blocks), NEW n \in Nat \ {0}, NEW b \in Blocks
  PROVE  Written(c, n, b) \in Seq(Blocks)
<1> DEFINE k == IF n > Len(c) THEN n ELSE Len(c)
<1> DEFINE e(m) == IF m = n THEN b ELSE IF m <= Len(c) THEN c[m] ELSE "bad"
<1>1. k \in Nat
  BY LenProperties
<1>2. \A m \in 1..k : e(m) \in Blocks
  BY LenProperties, ElementOfSeq DEF Blocks
<1>3. [m \in 1..k |-> e(m)] \in [1..k -> Blocks]
  BY <1>2
<1>4. Written(c, n, b) \in [1..k -> Blocks]
  BY <1>3 DEF Written
<1> QED
  BY <1>1, <1>4, SeqDef

\* A block written at the end is appended.
LEMMA WrittenAtEnd ==
  ASSUME NEW c \in Seq(Blocks), NEW b \in Blocks
  PROVE  Written(c, Len(c) + 1, b) = Append(c, b)
<1> DEFINE w == Written(c, Len(c) + 1, b)
<1>1. Len(c) \in Nat /\ Len(c) + 1 \in Nat \ {0}
  BY LenProperties
<1>2. w \in Seq(Blocks)
  BY <1>1, WrittenType
<1>3. w = [m \in 1..(Len(c) + 1) |-> IF m = Len(c) + 1 THEN b ELSE c[m]]
  BY <1>1 DEF Written
<1>4. Len(w) = Len(c) + 1
  BY <1>1, <1>2, <1>3, LenProperties
<1>5. /\ Append(c, b) \in Seq(Blocks)
      /\ Len(Append(c, b)) = Len(c) + 1
      /\ \A m \in 1..(Len(c) + 1) :
           Append(c, b)[m] = IF m = Len(c) + 1 THEN b ELSE c[m]
  BY AppendProperties
<1>6. \A m \in 1..Len(w) : w[m] = Append(c, b)[m]
  BY <1>3, <1>4, <1>5
<1> QED
  BY <1>2, <1>4, <1>5, <1>6, SeqEqual

\* Disk() keeps the types of what it sets.
LEMMA DiskType ==
  ASSUME NEW c \in [Inodes -> Seq(Blocks)], NEW d, d \subseteq Inodes,
         NEW m, m \subseteq Inodes, Disk(c, d, m)
  PROVE  /\ content' \in [Inodes -> Seq(Blocks)]
         /\ synced' \subseteq Inodes
         /\ mixed' \subseteq Inodes
<1>1. <<>> \in Seq(Blocks)
  OBVIOUS
<1> QED
  BY <1>1 DEF Disk

\* What the disk keeps.
LEMMA DiskKeeps ==
  ASSUME NEW c, NEW d, NEW m, Disk(c, d, m)
  PROVE  \A i \in Inodes : i \in Linked' =>
           /\ content'[i] = c[i]
           /\ i \in synced' <=> i \in d
           /\ i \in mixed' <=> i \in m
  BY DEF Disk

TabsTyped ==
  /\ busy \in [Tabs -> BOOLEAN]
  /\ step \in [Tabs -> {"none", "precheck", "planned", "job", "refresh"}]
  /\ queue \in [Tabs -> SUBSET Files]
  /\ job \in [Tabs -> Jobs \cup {NoJob}]
JobsTyped ==
  /\ file \in [Jobs -> Files]
  /\ phase \in [Jobs -> Phases]
  /\ reply \in [Jobs -> {"none", "ok", "failed"}]
  /\ tasks \in [Jobs -> Seq(Tasks)]
  /\ handle \in [Jobs -> Inodes \cup {NoInode}]
  /\ hash \in [Jobs -> Seq(Blocks)]
NamesTyped ==
  /\ partial \in [Files -> Inodes \cup {NoInode}]
  /\ final \in [Files -> Inodes \cup {NoInode}]
DiskTyped ==
  /\ content \in [Inodes -> Seq(Blocks)]
  /\ synced \subseteq Inodes
  /\ mixed \subseteq Inodes
RemovalTyped ==
  /\ discards \in [Jobs -> Nat]
  /\ deletes \in 0..(2 * UnitSize)
  /\ wiped \subseteq Paths

\* The parts of TypeOK.
LEMMA TypeParts == TypeOK <=> /\ TabsTyped /\ JobsTyped /\ NamesTyped
                              /\ DiskTyped /\ RemovalTyped
  BY DEF TypeOK, TabsTyped, JobsTyped, NamesTyped, DiskTyped, RemovalTyped

\* ResetDownloadState() keeps the types.
LEMMA ResetTabType ==
  ASSUME TabsTyped, NEW t \in Tabs, ResetTab(t)
  PROVE  TabsTyped'
  BY DEF TabsTyped, ResetTab

\* PostTask() keeps the types.
LEMMA PostedType ==
  ASSUME JobsTyped, NEW j \in Jobs, NEW new \in Seq(Tasks)
  PROVE  Posted(j, new) \in [Jobs -> Seq(Tasks)]
<1>1. tasks[j] \o new \in Seq(Tasks)
  BY ConcatProperties DEF JobsTyped
<1> QED
  BY <1>1 DEF Posted, JobsTyped

\* So does the end of a job,
LEMMA EndJobType ==
  ASSUME TypeOK, NEW t \in Tabs, job[t] \in Jobs, NEW last \in Seq(Tasks),
         EndJob(t, last)
  PROVE  JobsTyped' /\ NamesTyped' /\ DiskTyped'
<1> DEFINE j == job[t]
<1> DEFINE left == tasks[j] \o last
<1>1. left \in Seq(Tasks)
  BY ConcatProperties DEF TypeOK
<1>2. /\ phase' \in [Jobs -> Phases]
      /\ reply' \in [Jobs -> {"none", "ok", "failed"}]
      /\ file' \in [Jobs -> Files]
  BY DEF EndJob, TypeOK, Phases
<1>3. tasks' \in [Jobs -> Seq(Tasks)]
  BY <1>1 DEF EndJob, TypeOK
<1>4. handle' \in [Jobs -> Inodes \cup {NoInode}]
  BY DEF EndJob, TypeOK
<1>5. hash' \in [Jobs -> Seq(Blocks)]
  <2>1. <<>> \in Seq(Blocks)
    OBVIOUS
  <2>2. CASE left = <<>>
    BY <2>1, <2>2 DEF EndJob, TypeOK
  <2>3. CASE left # <<>>
    BY <2>3 DEF EndJob, TypeOK
  <2> QED
    BY <2>2, <2>3
<1>6. NamesTyped'
  BY DEF EndJob, NamesTyped, TypeOK
<1>7. DiskTyped'
  BY DiskType DEF EndJob, TypeOK, DiskTyped
<1> QED
  BY <1>2, <1>3, <1>4, <1>5, <1>6, <1>7 DEF JobsTyped

\* a task of a Writer,
LEMMA RunsType ==
  ASSUME TypeOK, NEW j \in Jobs, NEW k, NEW r \in {"none", "ok", "failed"},
         NEW h \in Inodes \cup {NoInode}, NEW d \in Seq(Blocks),
         Runs(j, k, r, h, d)
  PROVE  TabsTyped' /\ JobsTyped'
<1>1. /\ TabsTyped'
      /\ file' \in [Jobs -> Files]
  BY DEF Runs, TypeOK, TabsTyped, tabVars
<1>2. phase' \in [Jobs -> Phases]
  BY DEF Runs, TypeOK, Phases
<1>3. reply' \in [Jobs -> {"none", "ok", "failed"}]
  BY DEF Runs, TypeOK
<1>4. tasks' \in [Jobs -> Seq(Tasks)]
  <2>1. tasks[j] \in Seq(Tasks) /\ tasks[j] # <<>>
    BY DEF Runs, TypeOK
  <2>2. Tail(tasks[j]) \in Seq(Tasks)
    BY <2>1, HeadTailProperties
  <2> QED
    BY <2>2 DEF Runs, TypeOK
<1>5. handle' \in [Jobs -> Inodes \cup {NoInode}]
  BY DEF Runs, TypeOK
<1>6. hash' \in [Jobs -> Seq(Blocks)]
  <2>1. <<>> \in Seq(Blocks)
    OBVIOUS
  <2> QED
    BY <2>1 DEF Runs, TypeOK
<1> QED
  BY <1>1, <1>2, <1>3, <1>4, <1>5, <1>6 DEF JobsTyped

\* and the beginning of a job.
LEMMA StartJobType ==
  ASSUME TypeOK, NEW t \in Tabs, NEW q, q \subseteq Files, NEW idle,
         idle \subseteq Jobs, StartJob(t, q, idle)
  PROVE  /\ job' \in [Tabs -> Jobs \cup {NoJob}]
         /\ file' \in [Jobs -> Files]
         /\ phase' \in [Jobs -> Phases]
         /\ tasks' \in [Jobs -> Seq(Tasks)]
<1>1. PICK j \in idle, f \in q :
        /\ job' = [job EXCEPT ![t] = j]
        /\ file' = [file EXCEPT ![j] = f]
        /\ phase' = [k \in Jobs |-> CASE k = j -> "opening"
                                      [] k # j /\ k \in idle -> "free"
                                      [] OTHER -> phase[k]]
        /\ tasks' = [tasks EXCEPT ![j] = <<"open">>]
  BY DEF StartJob
<1>2. \A k \in Jobs : (CASE k = j -> "opening"
                         [] k # j /\ k \in idle -> "free"
                         [] OTHER -> phase[k]) \in Phases
  BY DEF TypeOK, Phases
<1>3. <<"open">> \in Seq(Tasks)
  BY DEF Tasks
<1> QED
  BY <1>1, <1>2, <1>3 DEF TypeOK

------------------------------------------------------------------------------
(* The queues of the file sequences.                                       *)

\* A job nobody touches keeps its shape.
LEMMA ShapeFrame ==
  ASSUME NEW k \in Jobs, JobShape(k), tasks'[k] = tasks[k],
         phase'[k] = phase[k], reply'[k] = reply[k], handle'[k] = handle[k]
  PROVE  JobShape(k)'
  BY DEF JobShape

\* What can be queued for a job that is not destroyed.
LiveQueues ==
  {<<>>, <<"open">>, <<"truncate">>, <<"finish">>, <<"truncate", "finish">>}
    \cup {<<b>> : b \in Blocks} \cup {<<"truncate", b>> : b \in Blocks}

\* A live job has one of these queued.
LEMMA LiveQueue ==
  ASSUME TypeOK, NEW j \in Jobs, JobShape(j), phase[j] \notin {"free", "gone"}
  PROVE  tasks[j] \in LiveQueues
<1>1. phase[j] \in {"opening", "requested", "receiving", "writing", "finishing"}
  BY DEF TypeOK, Phases
<1>2. CASE reply[j] # "none"
  BY <1>2 DEF JobShape, LiveQueues
<1>3. CASE phase[j] = "writing" /\ reply[j] = "none"
  BY <1>3 DEF JobShape, LiveQueues
<1>4. CASE phase[j] \in {"opening", "requested", "receiving", "finishing"} /\ reply[j] = "none"
  BY <1>4 DEF JobShape, LiveQueues
<1> QED
  BY <1>1, <1>2, <1>3, <1>4

\* Posting behind one task, and behind two.
LEMMA PostedBehind ==
  ASSUME NEW a \in Tasks, NEW b \in Tasks, NEW c \in Tasks
  PROVE  /\ <<a>> \o <<c>> = <<a, c>>
         /\ <<a, b>> \o <<c>> = <<a, b, c>>
<1>1. /\ <<a>> \in Seq(Tasks) /\ <<a, b>> \in Seq(Tasks) /\ <<c>> \in Seq(Tasks)
      /\ <<a, c>> \in Seq(Tasks) /\ <<a, b, c>> \in Seq(Tasks)
  OBVIOUS
<1>2. /\ Len(<<a>>) = 1 /\ Len(<<a, b>>) = 2 /\ Len(<<c>>) = 1
      /\ Len(<<a, c>>) = 2 /\ Len(<<a, b, c>>) = 3
  OBVIOUS
<1>3. <<a>> \o <<c>> = <<a, c>>
  <2> DEFINE s == <<a>> \o <<c>>
  <2>1. /\ s \in Seq(Tasks) /\ Len(s) = Len(<<a>>) + Len(<<c>>)
        /\ \A n \in 1..(Len(<<a>>) + Len(<<c>>)) :
             s[n] = IF n <= Len(<<a>>) THEN <<a>>[n] ELSE <<c>>[n - Len(<<a>>)]
    BY <1>1, ConcatProperties
  <2>2. Len(s) = 2
    BY <1>2, <2>1
  <2>3. s[1] = a /\ s[2] = c
    BY <1>2, <2>1
  <2> HIDE DEF s
  <2>4. \A n \in 1..2 : s[n] = <<a, c>>[n]
    BY <2>3
  <2>5. s = <<a, c>>
    BY <1>1, <1>2, <2>1, <2>2, <2>4, SeqEqual
  <2> QED
    BY <2>5 DEF s
<1>4. <<a, b>> \o <<c>> = <<a, b, c>>
  <2> DEFINE s == <<a, b>> \o <<c>>
  <2>1. /\ s \in Seq(Tasks) /\ Len(s) = Len(<<a, b>>) + Len(<<c>>)
        /\ \A n \in 1..(Len(<<a, b>>) + Len(<<c>>)) :
             s[n] = IF n <= Len(<<a, b>>) THEN <<a, b>>[n]
                    ELSE <<c>>[n - Len(<<a, b>>)]
    BY <1>1, ConcatProperties
  <2>2. Len(s) = 3
    BY <1>2, <2>1
  <2>3. s[1] = a /\ s[2] = b /\ s[3] = c
    BY <1>2, <2>1
  <2> HIDE DEF s
  <2>4. \A n \in 1..3 : s[n] = <<a, b, c>>[n]
    BY <2>3
  <2>5. s = <<a, b, c>>
    BY <1>1, <1>2, <2>1, <2>2, <2>4, SeqEqual
  <2> QED
    BY <2>5 DEF s
<1> QED
  BY <1>3, <1>4

\* Each of FinishQueues has its Finish().
LEMMA FinishIsQueued == \A q \in FinishQueues : \E n \in 1..Len(q) : q[n] = "finish"
<1>1. Len(<<"finish">>) = 1 /\ <<"finish">>[1] = "finish"
  OBVIOUS
<1>2. Len(<<"truncate", "finish">>) = 2 /\ <<"truncate", "finish">>[2] = "finish"
  OBVIOUS
<1>3. Len(<<"finish", "discard">>) = 2 /\ <<"finish", "discard">>[1] = "finish"
  OBVIOUS
<1>4. /\ Len(<<"truncate", "finish", "discard">>) = 3
      /\ <<"truncate", "finish", "discard">>[2] = "finish"
  OBVIOUS
<1> QED
  BY SMTT(30), <1>1, <1>2, <1>3, <1>4 DEF FinishQueues

\* Nothing without a Finish() is one of FinishQueues.
LEMMA NotFinishing ==
  <<>> \notin FinishQueues /\ <<"discard">> \notin FinishQueues
    /\ <<"truncate">> \notin FinishQueues
<1>1. \A q \in {<<>>, <<"discard">>, <<"truncate">>} :
        \A n \in 1..Len(q) : q[n] # "finish"
  OBVIOUS
<1> QED
  BY <1>1, FinishIsQueued

\* Destroying a job: nothing but Discard() follows a Finish().
LEMMA EndJobShape ==
  ASSUME TypeOK, NEW t \in Tabs, NEW j \in Jobs, j = job[t], JobShape(j),
         phase[j] \notin {"free", "gone"}, NEW last, EndJob(t, last),
         \/ last \in {<<>>, <<"discard">>}
         \/ last = <<"truncate">> /\ tasks[j] = <<>>
  PROVE  JobShape(j)'
<1> DEFINE left == tasks[j] \o last
<1>1. tasks[j] \in LiveQueues
  BY LiveQueue
<1>2. /\ tasks'[j] = left
      /\ phase'[j] = IF left = <<>> THEN "free" ELSE "gone"
      /\ reply'[j] = "none"
      /\ left = <<>> => handle'[j] = NoInode
  BY DEF EndJob, TypeOK
<1>3. left \in FinishQueues \/ (\A n \in 1..Len(left) : left[n] # "finish")
  <2>1. CASE tasks[j] = <<>>
    BY <2>1
  <2>2. CASE tasks[j] \in {<<"open">>, <<"truncate">>} /\ last \in {<<>>, <<"discard">>}
    BY <2>2
  <2>3. CASE tasks[j] \in {<<"finish">>, <<"truncate", "finish">>} /\ last = <<>>
    BY <2>3 DEF FinishQueues
  <2>4. CASE tasks[j] \in {<<"finish">>, <<"truncate", "finish">>} /\ last = <<"discard">>
    <3>1. <<"finish">> \o <<"discard">> = <<"finish", "discard">>
      BY PostedBehind DEF Tasks
    <3>2. <<"truncate", "finish">> \o <<"discard">> = <<"truncate", "finish", "discard">>
      BY PostedBehind DEF Tasks
    <3> QED
      BY <2>4, <3>1, <3>2 DEF FinishQueues
  <2>5. ASSUME NEW b \in Blocks, tasks[j] \in {<<b>>, <<"truncate", b>>},
               last \in {<<>>, <<"discard">>}
        PROVE  \A n \in 1..Len(left) : left[n] # "finish"
    <3>1. b # "finish"
      BY DEF Blocks
    <3>2. CASE last = <<>>
      BY <2>5, <3>1, <3>2
    <3>3. CASE last = <<"discard">> /\ tasks[j] = <<b>>
      <4>1. left = <<b, "discard">>
        BY <3>3, PostedBehind DEF Tasks
      <4> QED
        BY <3>1, <4>1
    <3>4. CASE last = <<"discard">> /\ tasks[j] = <<"truncate", b>>
      <4>1. left = <<"truncate", b, "discard">>
        BY ZenonT(60), <3>4, PostedBehind DEF Tasks
      <4> QED
        BY <3>1, <4>1
    <3> QED
      BY <2>5, <3>2, <3>3, <3>4
  <2>6. last = <<"truncate">> => tasks[j] = <<>>
    OBVIOUS
  <2> QED
    BY <1>1, <2>1, <2>2, <2>3, <2>4, <2>5, <2>6 DEF LiveQueues
<1> HIDE DEF left
<1>4. CASE left = <<>>
  BY <1>2, <1>4 DEF JobShape
<1>5. CASE left # <<>>
  BY <1>2, <1>3, <1>5 DEF JobShape
<1> QED
  BY <1>4, <1>5

\* Running a task: the answer, if any, is that of the last one queued.
LEMMA RunsShape ==
  ASSUME TypeOK, NEW j \in Jobs, JobShape(j), NEW k, NEW r, NEW h, NEW d,
         Runs(j, k, r, h, d),
         k = "truncate" => r = reply[j],
         k = "discard" => r = "none",
         k \notin {"truncate", "discard"} => r \in {"ok", "failed"},
         k = "finish" /\ r = "ok" => h = NoInode
  PROVE  JobShape(j)'
<1> DEFINE q == tasks[j]
<1>1. /\ q \in Seq(Tasks) /\ q # <<>> /\ Head(q) = k
      /\ tasks'[j] = Tail(q)
      /\ reply'[j] = IF phase[j] = "gone" THEN "none" ELSE r
      /\ phase'[j] = IF phase[j] = "gone" /\ Len(q) = 1 THEN "free" ELSE phase[j]
      /\ handle'[j] = IF phase[j] = "gone" /\ Len(q) = 1 THEN NoInode ELSE h
  BY DEF Runs, TypeOK
<1>2. reply[j] = "none"
  BY <1>1 DEF JobShape
<1>3. phase[j] \in {"opening", "receiving", "writing", "finishing", "gone"}
  BY <1>1 DEF JobShape, TypeOK, Phases
<1>4. CASE phase[j] = "opening"
  <2>1. q = <<"open">>
    BY <1>2, <1>4 DEF JobShape
  <2>2. k = "open" /\ Tail(q) = <<>>
    BY <1>1, <2>1
  <2> QED
    BY <1>1, <1>4, <2>2 DEF JobShape
<1>5. CASE phase[j] = "receiving"
  <2>1. q = <<"truncate">>
    BY <1>1, <1>5 DEF JobShape
  <2>2. k = "truncate" /\ Tail(q) = <<>>
    BY <1>1, <2>1
  <2> QED
    BY <1>1, <1>2, <1>5, <2>2 DEF JobShape
<1>6. CASE phase[j] = "writing"
  <2>1. PICK b \in Blocks : q = <<b>> \/ q = <<"truncate", b>>
    BY <1>2, <1>6 DEF JobShape
  <2>2. CASE q = <<b>>
    <3>1. k \in Blocks /\ Tail(q) = <<>>
      BY <1>1, <2>2
    <3> QED
      BY <1>1, <1>6, <3>1 DEF JobShape, Blocks
  <2>3. CASE q = <<"truncate", b>>
    <3>1. k = "truncate" /\ Tail(q) = <<b>>
      BY <1>1, <2>3
    <3> QED
      BY <1>1, <1>2, <1>6, <3>1 DEF JobShape
  <2> QED
    BY <2>1, <2>2, <2>3
<1>7. CASE phase[j] = "finishing"
  <2>2. CASE q = <<"finish">>
    <3>1. k = "finish" /\ Tail(q) = <<>>
      BY <1>1, <2>2
    <3> QED
      BY <1>1, <1>7, <3>1 DEF JobShape
  <2>3. CASE q = <<"truncate", "finish">>
    <3>1. k = "truncate" /\ Tail(q) = <<"finish">>
      BY <1>1, <2>3
    <3> QED
      BY <1>1, <1>2, <1>7, <3>1 DEF JobShape
  <2> QED
    BY <1>2, <1>7, <2>2, <2>3 DEF JobShape
<1>8. CASE phase[j] = "gone"
  <2>0. q \in FinishQueues \/ (\A n \in 1..Len(q) : q[n] # "finish")
    BY <1>8 DEF JobShape
  <2> HIDE DEF q
  <2>1. /\ Tail(q) \in Seq(Tasks)
        /\ Len(Tail(q)) = Len(q) - 1
        /\ \A n \in 1..Len(Tail(q)) : Tail(q)[n] = q[n + 1]
        /\ Len(q) \in Nat \ {0}
    BY <1>1, HeadTailProperties, EmptySeq
  <2>2. CASE Len(q) = 1
    <3>1. Tail(q) = <<>>
      <4>1. Len(Tail(q)) = 0
        BY <2>1, <2>2
      <4> QED
        BY <2>1, <4>1, EmptySeq
    <3> QED
      BY <1>1, <1>8, <2>2, <3>1 DEF JobShape
  <2>3. CASE Len(q) # 1
    <3>1. Tail(q) # <<>>
      <4>1. Len(Tail(q)) # 0
        BY <2>1, <2>3
      <4> QED
        BY <4>1, Len(<<>>) = 0
    <3>2. Tail(q) \in FinishQueues \/ (\A n \in 1..Len(Tail(q)) : Tail(q)[n] # "finish")
      <4>1. CASE q \in FinishQueues
        <5>1. CASE q = <<"finish">>
          BY <2>3, <5>1
        <5>2. CASE q = <<"truncate", "finish">>
          <6>1. Tail(q) = <<"finish">>
            BY <5>2
          <6> QED
            BY <6>1 DEF FinishQueues
        <5>3. CASE q = <<"finish", "discard">>
          <6>1. Tail(q) = <<"discard">>
            BY <5>3
          <6>2. \A n \in 1..Len(<<"discard">>) : <<"discard">>[n] # "finish"
            OBVIOUS
          <6> QED
            BY <6>1, <6>2
        <5>4. CASE q = <<"truncate", "finish", "discard">>
          <6>1. Tail(q) = <<"finish", "discard">>
            BY <5>4
          <6> QED
            BY <6>1 DEF FinishQueues
        <5> QED
          BY <4>1, <5>1, <5>2, <5>3, <5>4 DEF FinishQueues
      <4>2. CASE \A n \in 1..Len(q) : q[n] # "finish"
        BY <2>1, <4>2
      <4> QED
        BY <2>0, <4>1, <4>2
    <3> QED
      BY <1>1, <1>8, <2>3, <3>1, <3>2 DEF JobShape
  <2> QED
    BY <2>2, <2>3
<1> QED
  BY <1>3, <1>4, <1>5, <1>6, <1>7, <1>8

------------------------------------------------------------------------------
(* The disk.                                                               *)

DiskSafe ==
  /\ HashIsContent
  /\ PathIsOurs
  /\ SharedIsMixed
  /\ OneFile
  /\ InPlaceIsClosed
  /\ InPlaceIsDurable

\* A step that only closes files and removes names.
Shrinks ==
  /\ \A j \in Jobs : handle'[j] = handle[j] \/ handle'[j] = NoInode
  /\ \A j \in Jobs : handle'[j] # NoInode =>
       /\ hash'[j] = hash[j]
       /\ file'[j] = file[j]
       /\ Trusted(j)' => Trusted(j)
  /\ \A f \in Files :
       /\ partial'[f] = partial[f] \/ partial'[f] = NoInode
       /\ final'[f] = final[f] \/ final'[f] = NoInode
  /\ \A i \in Inodes : i \in Linked' =>
       /\ content'[i] = content[i]
       /\ i \in synced => i \in synced'
       /\ i \in mixed' <=> i \in mixed

\* Closing files and removing names keeps the disk safe.
LEMMA ShrinkStep ==
  ASSUME TypeOK, DiskSafe, TypeOK', Shrinks
  PROVE  DiskSafe'
<1>1. /\ \A j \in Jobs : handle'[j] \in Linked'
      /\ \A f \in Files : partial'[f] \in Linked' /\ final'[f] \in Linked'
  BY DEF Linked
<1>2. /\ \A j \in Jobs : handle'[j] # NoInode => handle'[j] \in Inodes
      /\ \A f \in Files : partial'[f] # NoInode => partial'[f] \in Inodes
      /\ \A f \in Files : final'[f] # NoInode => final'[f] \in Inodes
      /\ \A j \in Jobs : file'[j] \in Files
      /\ Pinned \subseteq Files
  BY UnitAssumption DEF TypeOK
<1>3. HashIsContent'
  <2> SUFFICES ASSUME NEW j \in Jobs, handle'[j] # NoInode,
                      handle'[j] \notin mixed', Trusted(j)'
               PROVE  hash'[j] = content'[handle'[j]]
    BY DEF HashIsContent
  <2> QED
    BY <1>1, <1>2 DEF Shrinks, DiskSafe, HashIsContent
<1>4. PathIsOurs'
  <2> SUFFICES ASSUME NEW j \in Jobs, handle'[j] # NoInode,
                      partial'[file'[j]] # NoInode
               PROVE  partial'[file'[j]] = handle'[j] \/ partial'[file'[j]] \in mixed'
    BY DEF PathIsOurs
  <2> QED
    BY <1>1, <1>2 DEF Shrinks, DiskSafe, PathIsOurs
<1>5. SharedIsMixed'
  <2> SUFFICES ASSUME NEW j \in Jobs, NEW k \in Jobs, j # k, handle'[j] # NoInode,
                      handle'[k] # NoInode, file'[j] = file'[k]
               PROVE  handle'[j] \in mixed'
    BY DEF SharedIsMixed
  <2> QED
    BY <1>1, <1>2 DEF Shrinks, DiskSafe, SharedIsMixed
<1>6. OneFile'
  <2>1. \A j, k \in Jobs :
          (handle'[j] # NoInode /\ handle'[j] = handle'[k]) => file'[j] = file'[k]
    BY DEF Shrinks, DiskSafe, OneFile
  <2>2. \A j \in Jobs, f \in Files : handle'[j] # NoInode =>
          /\ handle'[j] = partial'[f] => f = file'[j]
          /\ handle'[j] = final'[f] => f = file'[j]
    BY DEF Shrinks, DiskSafe, OneFile
  <2>3. \A f, g \in Files :
          /\ (partial'[f] # NoInode /\ partial'[f] = partial'[g]) => f = g
          /\ (final'[f] # NoInode /\ final'[f] = final'[g]) => f = g
          /\ partial'[f] # NoInode => partial'[f] # final'[g]
    BY DEF Shrinks, DiskSafe, OneFile
  <2> QED
    BY <2>1, <2>2, <2>3 DEF OneFile
<1>7. InPlaceIsClosed'
  <2> SUFFICES ASSUME NEW j \in Jobs, NEW f \in Files, final'[f] # NoInode,
                      handle'[j] = final'[f]
               PROVE  final'[f] \in mixed'
    BY DEF InPlaceIsClosed
  <2> QED
    BY <1>1, <1>2 DEF Shrinks, DiskSafe, InPlaceIsClosed
<1>8. InPlaceIsDurable'
  <2> SUFFICES ASSUME NEW f \in Pinned, final'[f] # NoInode,
                      final'[f] \notin mixed'
               PROVE  final'[f] \in synced' /\ content'[final'[f]] = PinnedContent(f)
    BY DEF InPlaceIsDurable, PinnedContent
  <2> QED
    BY <1>1, <1>2 DEF Shrinks, DiskSafe, InPlaceIsDurable
<1> QED
  BY <1>3, <1>4, <1>5, <1>6, <1>7, <1>8 DEF DiskSafe

\* Disk() with nothing written.
LEMMA DiskShrinks ==
  ASSUME NEW d, synced \subseteq d, Disk(content, d, mixed)
  PROVE  \A i \in Inodes : i \in Linked' =>
           /\ content'[i] = content[i]
           /\ i \in synced => i \in synced'
           /\ i \in mixed' <=> i \in mixed
  BY DEF Disk

\* The parts of the invariant.
LEMMA InvParts == DownloadInv <=> TypeOK /\ QueueShape /\ JobsAreOwned /\ DiskSafe
  BY DEF DownloadInv, DiskSafe

\* The disk and what is open stay; what is not open may change.
LEMMA DiskFrame ==
  ASSUME DownloadInv, TypeOK', UNCHANGED <<handle, hash, diskVars>>,
         \A j \in Jobs : handle[j] # NoInode =>
           file'[j] = file[j] /\ (Trusted(j)' => Trusted(j))
  PROVE  DiskSafe'
<1>1. Shrinks
  BY DEF Shrinks, diskVars
<1> QED
  BY <1>1, InvParts, ShrinkStep

------------------------------------------------------------------------------
(* The UI thread.                                                          *)

\* The beginning: nothing is on disk and nothing runs.
LEMMA InitInv == Init => DownloadInv
<1> SUFFICES ASSUME Init PROVE DownloadInv
  OBVIOUS
<1>0. 1 \in Files
  BY UnitAssumption DEF Files
<1>1. TypeOK
  <2>1. <<>> \in Seq(Tasks) /\ <<>> \in Seq(Blocks)
    OBVIOUS
  <2>2. TabsTyped /\ NamesTyped /\ DiskTyped
    BY <2>1 DEF Init, TabsTyped, NamesTyped, DiskTyped
  <2>3. JobsTyped
    BY <1>0, <2>1 DEF Init, JobsTyped, Phases
  <2>4. RemovalTyped
    <3>1. 0 \in Nat /\ 0 \in 0..(2 * UnitSize)
      BY UnitAssumption
    <3> QED
      BY <3>1 DEF Init, RemovalTyped
  <2> QED
    BY <2>2, <2>3, <2>4, TypeParts
<1>2. QueueShape
  BY DEF Init, QueueShape, JobShape
<1>3. JobsAreOwned
  BY DEF Init, JobsAreOwned
<1>4. DiskSafe
  BY UnitAssumption DEF Init, DiskSafe, HashIsContent, PathIsOurs, SharedIsMixed,
     OneFile, InPlaceIsClosed, InPlaceIsDurable
<1> QED
  BY <1>1, <1>2, <1>3, <1>4 DEF DownloadInv, DiskSafe

\* A step of the page alone.
LEMMA TabStep ==
  ASSUME DownloadInv, TypeOK',
         UNCHANGED <<file, phase, reply, tasks, writerVars, diskVars>>,
         \A t \in Tabs : step'[t] = "job" => step[t] = "job" /\ job'[t] = job[t]
  PROVE  DownloadInv'
<1> USE DEF writerVars
<1>1. QueueShape'
  BY ShapeFrame, InvParts DEF QueueShape
<1>2. JobsAreOwned'
  BY InvParts DEF JobsAreOwned
<1>3. DiskSafe'
  <2>1. \A j \in Jobs : file'[j] = file[j] /\ (Trusted(j)' => Trusted(j))
    BY DEF Trusted
  <2> QED
    BY <2>1, DiskFrame
<1> QED
  BY <1>1, <1>2, <1>3 DEF DownloadInv, DiskSafe

\* A step of the page's job that does not end it.
LEMMA JobStep ==
  ASSUME DownloadInv, TypeOK', NEW t \in Tabs, step[t] = "job",
         NEW j \in Jobs, j = job[t],
         UNCHANGED <<tabVars, file, writerVars, diskVars>>,
         \A k \in Jobs \ {j} : /\ phase'[k] = phase[k]
                               /\ reply'[k] = reply[k]
                               /\ tasks'[k] = tasks[k],
         phase'[j] \notin {"free", "gone"},
         phase[j] # "writing" \/ reply[j] # "failed",
         JobShape(j)'
  PROVE  DownloadInv'
<1> USE DEF writerVars
<1>1. QueueShape'
  <2> SUFFICES ASSUME NEW k \in Jobs PROVE JobShape(k)'
    BY DEF QueueShape
  <2>1. CASE k = j
    BY <2>1
  <2>2. CASE k # j
    BY <2>2, ShapeFrame, InvParts DEF QueueShape
  <2> QED
    BY <2>1, <2>2
<1>2. JobsAreOwned'
  BY InvParts DEF JobsAreOwned, tabVars
<1>3. DiskSafe'
  <2>1. phase[j] \notin {"free", "gone"}
    BY InvParts DEF JobsAreOwned
  <2>2. \A k \in Jobs : file'[k] = file[k] /\ (Trusted(k)' => Trusted(k))
    BY <2>1 DEF Trusted
  <2> QED
    BY <2>2, DiskFrame
<1> QED
  BY <1>1, <1>2, <1>3 DEF DownloadInv, DiskSafe

\* The page's job is destroyed.
LEMMA EndJobStep ==
  ASSUME DownloadInv, TypeOK', NEW t \in Tabs, step[t] = "job",
         NEW j \in Jobs, j = job[t], NEW last, EndJob(t, last),
         \/ last \in {<<>>, <<"discard">>}
         \/ last = <<"truncate">> /\ tasks[j] = <<>>,
         step' = [step EXCEPT ![t] = "none"], job' = [job EXCEPT ![t] = NoJob]
  PROVE  DownloadInv'
<1>0. TypeOK /\ QueueShape /\ JobsAreOwned /\ DiskSafe
  BY InvParts
<1>1. phase[j] \notin {"free", "gone"} /\ JobShape(j)
  BY <1>0 DEF JobsAreOwned, QueueShape
<1>2. \A k \in Jobs \ {j} : /\ phase'[k] = phase[k]
                            /\ reply'[k] = reply[k]
                            /\ tasks'[k] = tasks[k]
                            /\ handle'[k] = handle[k]
                            /\ hash'[k] = hash[k]
  BY <1>0 DEF EndJob, TypeOK
<1>3. QueueShape'
  <2> SUFFICES ASSUME NEW k \in Jobs PROVE JobShape(k)'
    BY DEF QueueShape
  <2>1. CASE k = j
    BY <1>0, <1>1, <2>1, EndJobShape
  <2>2. CASE k # j
    BY <1>0, <1>2, <2>2, ShapeFrame DEF QueueShape
  <2> QED
    BY <2>1, <2>2
<1>4. JobsAreOwned'
  BY SMTT(30), <1>0, <1>2 DEF JobsAreOwned, TypeOK
<1>5. DiskSafe'
  <2> DEFINE left == tasks[j] \o last
  <2>1. /\ phase'[j] = IF left = <<>> THEN "free" ELSE "gone"
        /\ tasks'[j] = left
        /\ handle'[j] = IF left = <<>> THEN NoInode ELSE handle[j]
        /\ hash'[j] = IF left = <<>> THEN <<>> ELSE hash[j]
        /\ UNCHANGED <<file, partial, final>>
    BY <1>0 DEF EndJob, TypeOK
  <2>2. handle'[j] # NoInode /\ Trusted(j)' => Trusted(j)
    <3> SUFFICES ASSUME handle'[j] # NoInode, Trusted(j)', phase[j] = "writing",
                        reply[j] = "failed"
                 PROVE  FALSE
      BY <1>1 DEF Trusted
    <3>1. tasks[j] = <<>>
      BY <1>1 DEF JobShape
    <3>2. left = last
      BY <3>1
    <3>3. last \in FinishQueues
      BY <2>1, <3>2 DEF Trusted
    <3> QED
      BY <3>3, NotFinishing
  <2> HIDE DEF left
  <2>3. \A k \in Jobs \ {j} : Trusted(k)' => Trusted(k)
    BY <1>2 DEF Trusted
  <2>4. \A i \in Inodes : i \in Linked' =>
           /\ content'[i] = content[i]
           /\ i \in synced => i \in synced'
           /\ i \in mixed' <=> i \in mixed
    BY DiskShrinks DEF EndJob
  <2>5. Shrinks
    BY <1>2, <2>1, <2>2, <2>3, <2>4 DEF Shrinks
  <2> QED
    BY <1>0, <2>5, ShrinkStep
<1> QED
  BY <1>3, <1>4, <1>5 DEF DownloadInv, DiskSafe

\* A job begins, in the place of one that has answered or of none.
LEMMA StartStep ==
  ASSUME DownloadInv, TypeOK', NEW t \in Tabs, NEW q, q \subseteq Files,
         NEW idle, idle \subseteq Jobs, StartJob(t, q, idle),
         UNCHANGED <<writerVars, diskVars>>,
         \A k \in idle : handle[k] = NoInode /\ reply'[k] = "none" /\ tasks[k] = <<>>,
         \A k \in Jobs \ idle : reply'[k] = reply[k],
         \A u \in Tabs \ {t} : step[u] = "job" => job[u] \notin idle,
         step' = [step EXCEPT ![t] = "job"]
  PROVE  DownloadInv'
<1> USE DEF writerVars
<1>0. TypeOK /\ QueueShape /\ JobsAreOwned /\ DiskSafe
  BY InvParts
<1>1. PICK j \in idle, f \in q :
        /\ job' = [job EXCEPT ![t] = j]
        /\ file' = [file EXCEPT ![j] = f]
        /\ phase' = [k \in Jobs |-> CASE k = j -> "opening"
                                      [] k # j /\ k \in idle -> "free"
                                      [] OTHER -> phase[k]]
        /\ tasks' = [tasks EXCEPT ![j] = <<"open">>]
  BY DEF StartJob
<1>2. /\ phase'[j] = "opening"
      /\ \A k \in idle \ {j} : phase'[k] = "free"
      /\ \A k \in Jobs \ idle : phase'[k] = phase[k]
  BY <1>1
<1>3. /\ tasks'[j] = <<"open">>
      /\ \A k \in Jobs \ {j} : tasks'[k] = tasks[k] /\ file'[k] = file[k]
  BY <1>0, <1>1 DEF TypeOK
<1>4. QueueShape'
  <2> SUFFICES ASSUME NEW k \in Jobs PROVE JobShape(k)'
    BY DEF QueueShape
  <2>1. CASE k = j
    BY <1>2, <1>3, <2>1 DEF JobShape
  <2>2. CASE k \in idle \ {j}
    BY <1>2, <1>3, <2>2 DEF JobShape
  <2>3. CASE k \notin idle
    BY <1>0, <1>2, <1>3, <2>3, ShapeFrame DEF QueueShape
  <2> QED
    BY <2>1, <2>2, <2>3
<1>5. JobsAreOwned'
  BY <1>0, <1>1, <1>2 DEF JobsAreOwned, TypeOK
<1>6. DiskSafe'
  <2>1. \A k \in Jobs : handle[k] # NoInode =>
          file'[k] = file[k] /\ (Trusted(k)' => Trusted(k))
    <3> SUFFICES ASSUME NEW k \in Jobs, handle[k] # NoInode
                 PROVE  file'[k] = file[k] /\ (Trusted(k)' => Trusted(k))
      OBVIOUS
    <3>1. k \notin idle
      OBVIOUS
    <3> QED
      BY <1>2, <1>3, <3>1 DEF Trusted
  <2> QED
    BY <2>1, DiskFrame
<1> QED
  BY <1>4, <1>5, <1>6 DEF DownloadInv, DiskSafe

\* The page before and after its jobs.
LEMMA PageActions ==
  ASSUME DownloadInv, NEW t \in Tabs,
         HandleDownloadModel(t) \/ Precheck(t) \/ PrecheckRefused(t) \/ FinishDownload(t)
  PROVE  DownloadInv'
<1>0. TypeOK
  BY InvParts
<1>1. UNCHANGED <<file, phase, reply, tasks, writerVars, diskVars, removalVars>>
  BY DEF HandleDownloadModel, Precheck, PrecheckRefused, FinishDownload
<1>2. JobsTyped' /\ NamesTyped' /\ DiskTyped' /\ RemovalTyped'
  BY <1>0, <1>1 DEF TypeOK, JobsTyped, NamesTyped, DiskTyped, RemovalTyped,
     writerVars, diskVars, removalVars
<1>3. TabsTyped'
  <2>1. CASE HandleDownloadModel(t)
    BY <1>0, <2>1 DEF HandleDownloadModel, TypeOK, TabsTyped
  <2>2. CASE Precheck(t)
    BY <1>0, <2>2 DEF Precheck, TypeOK, TabsTyped, ToFetch
  <2>3. CASE PrecheckRefused(t) \/ FinishDownload(t)
    BY <1>0, <2>3, ResetTabType, TypeParts DEF PrecheckRefused, FinishDownload
  <2> QED
    BY <2>1, <2>2, <2>3
<1>4. TypeOK'
  BY <1>2, <1>3 DEF TypeOK, TabsTyped, JobsTyped, NamesTyped, DiskTyped,
       RemovalTyped
<1>5. \A u \in Tabs : step'[u] = "job" => step[u] = "job" /\ job'[u] = job[u]
  BY <1>0 DEF HandleDownloadModel, Precheck, PrecheckRefused, FinishDownload,
     ResetTab, TypeOK
<1> QED
  BY <1>1, <1>4, <1>5, TabStep

\* The page's job ends: Fail(), a cancel, a closed or a reloaded page.
LEMMA EndActions ==
  ASSUME DownloadInv, NEW t \in Tabs, step[t] = "job", NEW last, EndJob(t, last),
         \/ last \in {<<>>, <<"discard">>}
         \/ last = <<"truncate">> /\ tasks[job[t]] = <<>>,
         ResetTab(t) \/
           (/\ step' = [step EXCEPT ![t] = "none"]
            /\ job' = [job EXCEPT ![t] = NoJob]
            /\ UNCHANGED <<busy, queue>>),
         RemovalTyped'
  PROVE  DownloadInv'
<1>0. TypeOK /\ JobsAreOwned
  BY InvParts
<1>1. job[t] \in Jobs
  BY <1>0 DEF JobsAreOwned
<1>2. last \in Seq(Tasks)
  <2>1. <<>> \in Seq(Tasks) /\ <<"discard">> \in Seq(Tasks) /\ <<"truncate">> \in Seq(Tasks)
    BY DEF Tasks
  <2> QED
    BY <2>1
<1>3. JobsTyped' /\ NamesTyped' /\ DiskTyped'
  BY <1>0, <1>1, <1>2, EndJobType
<1>4. TabsTyped'
  BY <1>0 DEF TypeOK, TabsTyped, ResetTab
<1>5. TypeOK'
  BY <1>3, <1>4 DEF TypeOK, TabsTyped, JobsTyped, NamesTyped, DiskTyped,
       RemovalTyped
<1>6. step' = [step EXCEPT ![t] = "none"] /\ job' = [job EXCEPT ![t] = NoJob]
  BY DEF ResetTab
<1> QED
  BY <1>1, <1>5, <1>6, EndJobStep

\* Fail(): the file sequence or the network refused.
LEMMA FailAction ==
  ASSUME DownloadInv, NEW t \in Tabs, step[t] = "job", NEW last, Fail(t, last),
         \/ last = <<>>
         \/ last = <<"truncate">> /\ tasks[job[t]] = <<>>
  PROVE  DownloadInv'
<1>1. RemovalTyped'
  BY InvParts DEF Fail, TypeOK, RemovalTyped, removalVars
<1> QED
  BY <1>1, EndActions DEF Fail

\* HandleCancelDownload(): Discard() comes last.
LEMMA CancelAction ==
  ASSUME DownloadInv, NEW t \in Tabs, HandleCancelDownload(t)
  PROVE  DownloadInv'
<1>1. RemovalTyped'
  <2>1. 1 + 2 * UnitSize \in Nat
    BY UnitAssumption
  <2> QED
    BY <2>1, InvParts DEF HandleCancelDownload, TypeOK, RemovalTyped
<1> QED
  BY <1>1, EndActions DEF HandleCancelDownload

\* A page that is closed or reloaded, with a job or without.
LEMMA LeaveActions ==
  ASSUME DownloadInv, NEW t \in Tabs, CloseTab(t) \/ OnJavascriptDisallowed(t)
  PROVE  DownloadInv'
<1>0. TypeOK
  BY InvParts
<1>1. RemovalTyped'
  BY <1>0 DEF CloseTab, OnJavascriptDisallowed, TypeOK, RemovalTyped, removalVars
<1>2. CASE step[t] = "job"
  BY <1>1, <1>2, EndActions DEF CloseTab, OnJavascriptDisallowed, DropJob
<1>3. CASE step[t] # "job"
  <2>1. UNCHANGED <<file, phase, reply, tasks, writerVars, diskVars>>
    BY <1>3 DEF CloseTab, OnJavascriptDisallowed, DropJob
  <2>2. TabsTyped'
    BY <1>0 DEF CloseTab, OnJavascriptDisallowed, ResetTab, TypeOK, TabsTyped
  <2>3. JobsTyped' /\ NamesTyped' /\ DiskTyped'
    BY <1>0, <2>1 DEF TypeOK, JobsTyped, NamesTyped, DiskTyped, writerVars, diskVars
  <2>4. TypeOK'
    BY <1>1, <2>2, <2>3 DEF TypeOK, TabsTyped, JobsTyped, NamesTyped, DiskTyped,
       RemovalTyped
  <2>5. \A u \in Tabs : step'[u] = "job" => step[u] = "job" /\ job'[u] = job[u]
    BY <1>0 DEF CloseTab, OnJavascriptDisallowed, ResetTab, TypeOK
  <2> QED
    BY <2>1, <2>4, <2>5, TabStep
<1> QED
  BY <1>2, <1>3

\* The answers of the network and of the file sequence that a job goes on with.
LEMMA ContinueStep ==
  ASSUME DownloadInv, NEW t \in Tabs, step[t] = "job", NEW j \in Jobs, j = job[t],
         NEW p \in Phases \ {"free", "gone"}, NEW new \in Seq(Tasks),
         phase' = [phase EXCEPT ![j] = p],
         UNCHANGED tasks \/ tasks' = Posted(j, new),
         UNCHANGED reply \/ reply' = [reply EXCEPT ![j] = "none"],
         UNCHANGED <<tabVars, file, writerVars, diskVars, removalVars>>,
         phase[j] # "writing" \/ reply[j] # "failed",
         JobShape(j)'
  PROVE  DownloadInv'
<1>0. TypeOK
  BY InvParts
<1>1. tasks' \in [Jobs -> Seq(Tasks)]
  BY SMTT(30), <1>0, PostedType, TypeParts DEF TypeOK
<1>2. JobsTyped'
  BY <1>0, <1>1 DEF TypeOK, JobsTyped, writerVars
<1>3. TabsTyped' /\ NamesTyped' /\ DiskTyped' /\ RemovalTyped'
  BY <1>0 DEF TypeOK, TabsTyped, NamesTyped, DiskTyped, RemovalTyped, diskVars,
     tabVars, removalVars
<1>4. TypeOK'
  BY <1>2, <1>3 DEF TypeOK, TabsTyped, JobsTyped, NamesTyped, DiskTyped,
       RemovalTyped
<1>5. \A k \in Jobs \ {j} : /\ phase'[k] = phase[k]
                            /\ reply'[k] = reply[k]
                            /\ tasks'[k] = tasks[k]
  BY <1>0 DEF TypeOK, Posted
<1>6. phase'[j] \notin {"free", "gone"}
  BY <1>0 DEF TypeOK
<1> QED
  BY <1>4, <1>5, <1>6, JobStep

\* OnPartialOpened() preserves the invariant.
LEMMA OpenedAction ==
  ASSUME DownloadInv, NEW t \in Tabs, OnPartialOpened(t)
  PROVE  DownloadInv'
<1>1. CASE Answered(t, "opening", "failed") /\ Fail(t, <<>>)
  BY <1>1, FailAction DEF Answered
<1>2. ASSUME NEW j, j = job[t], Answered(t, "opening", "ok"),
             phase' = [phase EXCEPT ![j] = "requested"],
             reply' = [reply EXCEPT ![j] = "none"],
             UNCHANGED <<tabVars, file, tasks, writerVars, diskVars, removalVars>>
      PROVE  DownloadInv'
  <2>1. step[t] = "job" /\ j \in Jobs /\ JobShape(j) /\ TypeOK
    BY <1>2, InvParts DEF Answered, JobsAreOwned, QueueShape
  <2>2. phase[j] = "opening" /\ reply[j] = "ok" /\ tasks[j] = <<>>
    BY <1>2, <2>1 DEF Answered, JobShape
  <2>3. phase'[j] = "requested" /\ reply'[j] = "none" /\ tasks'[j] = <<>>
    BY <1>2, <2>1, <2>2 DEF TypeOK
  <2>4. JobShape(j)'
    BY <2>3 DEF JobShape
  <2>5. "requested" \in Phases \ {"free", "gone"} /\ <<>> \in Seq(Tasks)
    BY DEF Phases
  <2> QED
    BY <1>2, <2>1, <2>2, <2>4, <2>5, ContinueStep
<1> QED
  BY <1>1, <1>2 DEF OnPartialOpened

\* OnChunkWritten() preserves the invariant.
LEMMA WrittenAction ==
  ASSUME DownloadInv, NEW t \in Tabs, OnChunkWritten(t)
  PROVE  DownloadInv'
<1>1. CASE Answered(t, "writing", "failed") /\ Fail(t, <<>>)
  BY <1>1, FailAction DEF Answered
<1>2. ASSUME NEW j, j = job[t], Answered(t, "writing", "ok"),
             phase' = [phase EXCEPT ![j] = "receiving"],
             reply' = [reply EXCEPT ![j] = "none"],
             UNCHANGED <<tabVars, file, tasks, writerVars, diskVars, removalVars>>
      PROVE  DownloadInv'
  <2>1. step[t] = "job" /\ j \in Jobs /\ JobShape(j) /\ TypeOK
    BY <1>2, InvParts DEF Answered, JobsAreOwned, QueueShape
  <2>2. phase[j] = "writing" /\ reply[j] = "ok" /\ tasks[j] = <<>>
    BY <1>2, <2>1 DEF Answered, JobShape
  <2>3. phase'[j] = "receiving" /\ reply'[j] = "none" /\ tasks'[j] = <<>>
    BY <1>2, <2>1, <2>2 DEF TypeOK
  <2>4. JobShape(j)'
    BY <2>3 DEF JobShape
  <2>5. "receiving" \in Phases \ {"free", "gone"} /\ <<>> \in Seq(Tasks)
    BY DEF Phases
  <2> QED
    BY <1>2, <2>1, <2>2, <2>4, <2>5, ContinueStep
<1> QED
  BY <1>1, <1>2 DEF OnChunkWritten

\* OnResponseStarted() preserves it, whatever the server answers.
LEMMA ResponseAction ==
  ASSUME DownloadInv, NEW t \in Tabs, NEW status, NEW first,
         OnResponseStarted(t, status, first)
  PROVE  DownloadInv'
<1> PICK j : j = job[t]
  OBVIOUS
<1>1. /\ step[t] = "job" /\ j \in Jobs /\ JobShape(j) /\ TypeOK
      /\ phase[j] = "requested" /\ reply[j] = "none"
  BY InvParts DEF OnResponseStarted, Answered, JobsAreOwned, QueueShape
<1>2. tasks[j] = <<>>
  BY <1>1 DEF JobShape
<1>3. ASSUME NEW last, last \in {<<>>, <<"truncate">>}, Fail(t, last)
      PROVE  DownloadInv'
  BY <1>1, <1>2, <1>3, FailAction
<1>4. ASSUME phase' = [phase EXCEPT ![j] = "receiving"],
             UNCHANGED tasks \/ tasks' = Posted(j, <<"truncate">>),
             UNCHANGED <<tabVars, file, reply, writerVars, diskVars, removalVars>>
      PROVE  DownloadInv'
  <2>1. <<>> \o <<"truncate">> = <<"truncate">>
    OBVIOUS
  <2>2. /\ phase'[j] = "receiving" /\ reply'[j] = "none"
        /\ tasks'[j] = <<>> \/ tasks'[j] = <<"truncate">>
    BY <1>1, <1>2, <1>4, <2>1 DEF TypeOK, Posted
  <2>3. JobShape(j)'
    BY <2>2 DEF JobShape
  <2>4. "receiving" \in Phases \ {"free", "gone"} /\ <<"truncate">> \in Seq(Tasks)
    BY DEF Phases, Tasks
  <2> QED
    BY <1>1, <1>4, <2>3, <2>4, ContinueStep
<1> QED
  BY <1>3, <1>4 DEF OnResponseStarted

\* What arrives, and the end of it, goes behind at most one Truncate().
LEMMA ReceiveActions ==
  ASSUME DownloadInv, NEW t \in Tabs,
         OnComplete(t) \/ (\E b \in Blocks : OnDataReceived(t, b))
  PROVE  DownloadInv'
<1> PICK j : j = job[t]
  OBVIOUS
<1>1. /\ step[t] = "job" /\ j \in Jobs /\ JobShape(j) /\ TypeOK
      /\ phase[j] = "receiving" /\ reply[j] = "none"
  BY InvParts DEF OnComplete, OnDataReceived, Answered, JobsAreOwned, QueueShape
<1>2. tasks[j] = <<>> \/ tasks[j] = <<"truncate">>
  BY <1>1 DEF JobShape
<1>3. \A c \in Tasks : tasks[j] \o <<c>> = <<c>> \/ tasks[j] \o <<c>> = <<"truncate", c>>
  <2> SUFFICES ASSUME NEW c \in Tasks
               PROVE  tasks[j] \o <<c>> = <<c>> \/ tasks[j] \o <<c>> = <<"truncate", c>>
    OBVIOUS
  <2>1. "truncate" \in Tasks
    BY DEF Tasks
  <2>2. <<"truncate">> \o <<c>> = <<"truncate", c>>
    BY <2>1, PostedBehind
  <2>3. <<>> \o <<c>> = <<c>>
    OBVIOUS
  <2> QED
    BY <1>2, <2>2, <2>3
<1>4. CASE OnComplete(t)
  <2>1. /\ phase'[j] = "finishing" /\ reply'[j] = "none"
        /\ tasks'[j] = <<"finish">> \/ tasks'[j] = <<"truncate", "finish">>
    BY <1>1, <1>3, <1>4 DEF OnComplete, TypeOK, Posted, Tasks
  <2>2. JobShape(j)'
    BY <2>1 DEF JobShape
  <2>3. "finishing" \in Phases \ {"free", "gone"} /\ <<"finish">> \in Seq(Tasks)
    BY DEF Phases, Tasks
  <2> QED
    BY <1>1, <1>4, <2>2, <2>3, ContinueStep DEF OnComplete
<1>5. ASSUME NEW b \in Blocks, OnDataReceived(t, b)
      PROVE  DownloadInv'
  <2>0. b \in Tasks
    BY DEF Tasks
  <2>1. /\ phase'[j] = "writing" /\ reply'[j] = "none"
        /\ tasks'[j] = <<b>> \/ tasks'[j] = <<"truncate", b>>
    BY <1>1, <1>3, <1>5, <2>0 DEF OnDataReceived, TypeOK, Posted
  <2>2. JobShape(j)'
    BY <2>1 DEF JobShape
  <2>3. "writing" \in Phases \ {"free", "gone"} /\ <<b>> \in Seq(Tasks)
    BY <2>0 DEF Phases
  <2> QED
    BY <1>1, <1>5, <2>2, <2>3, ContinueStep DEF OnDataReceived
<1> QED
  BY <1>4, <1>5

\* The first job of a download finds nothing open.
LEMMA PlannedAction ==
  ASSUME DownloadInv, NEW t \in Tabs, OnDownloadPrecheckComplete(t)
  PROVE  DownloadInv'
<1> DEFINE idle == Jobs \ AtWork
<1>0. TypeOK /\ QueueShape /\ JobsAreOwned
  BY InvParts
<1>1. \A k \in idle : phase[k] = "free" /\ JobShape(k)
  BY <1>0 DEF AtWork, QueueShape
<1>2. \A k \in idle : handle[k] = NoInode /\ reply[k] = "none" /\ tasks[k] = <<>>
  BY <1>1 DEF JobShape
<1>3. \A u \in Tabs : step[u] = "job" => job[u] \notin idle
  BY <1>0, <1>1 DEF JobsAreOwned
<1>4. idle \subseteq Jobs /\ queue[t] \subseteq Files
  BY <1>0 DEF TypeOK
<1> HIDE DEF idle
<1>5. /\ step' = [step EXCEPT ![t] = "job"] /\ RemovalTyped'
      /\ StartJob(t, queue[t], idle)
      /\ UNCHANGED <<busy, queue, reply, writerVars, diskVars>>
  BY <1>0 DEF OnDownloadPrecheckComplete, idle, TypeOK, RemovalTyped
<1>6. TypeOK'
  <2>1. /\ job' \in [Tabs -> Jobs \cup {NoJob}]
        /\ file' \in [Jobs -> Files]
        /\ phase' \in [Jobs -> Phases]
        /\ tasks' \in [Jobs -> Seq(Tasks)]
    BY <1>0, <1>4, <1>5, StartJobType
  <2> QED
    BY <1>0, <1>5, <2>1 DEF TypeOK, writerVars, diskVars, RemovalTyped
<1> QED
  BY <1>2, <1>3, <1>4, <1>5, <1>6, StartStep

\* The next job of a download begins where the last has closed its file.
LEMMA FinishedAction ==
  ASSUME DownloadInv, NEW t \in Tabs, OnFinished(t)
  PROVE  DownloadInv'
<1>1. CASE Answered(t, "finishing", "failed") /\ Fail(t, <<>>)
  BY <1>1, FailAction DEF Answered
<1> DEFINE j == job[t]
<1> DEFINE rest == queue[t] \ {file[j]}
<1> DEFINE idle == (Jobs \ AtWork) \cup {j}
<1>2. CASE /\ Answered(t, "finishing", "ok")
           /\ reply' = [reply EXCEPT ![j] = "none"]
           /\ queue' = [queue EXCEPT ![t] = rest]
           /\ UNCHANGED <<busy, writerVars, diskVars, removalVars>>
           /\ \/ StartJob(t, rest, idle) /\ UNCHANGED step
              \/ /\ step' = [step EXCEPT ![t] = "refresh"]
                 /\ job' = [job EXCEPT ![t] = NoJob]
                 /\ phase' = [phase EXCEPT ![j] = "free"]
                 /\ UNCHANGED <<file, tasks>>
  <2>0. TypeOK /\ QueueShape /\ JobsAreOwned
    BY InvParts
  <2>1. /\ step[t] = "job" /\ j \in Jobs /\ JobShape(j)
        /\ phase[j] = "finishing" /\ reply[j] = "ok"
    BY <1>2, <2>0 DEF Answered, JobsAreOwned, QueueShape
  <2>2. handle[j] = NoInode /\ tasks[j] = <<>>
    BY <2>1 DEF JobShape
  <2>3. rest \subseteq Files
    BY <2>0 DEF TypeOK
  <2>4. CASE StartJob(t, rest, idle) /\ UNCHANGED step
    <3>1. \A k \in Jobs \ AtWork : phase[k] = "free" /\ JobShape(k)
      BY <2>0 DEF AtWork, QueueShape
    <3>2. \A k \in idle : handle[k] = NoInode /\ reply'[k] = "none" /\ tasks[k] = <<>>
      <4>1. reply'[j] = "none" /\ \A k \in Jobs \ {j} : reply'[k] = reply[k]
        BY <1>2, <2>0, <2>1 DEF TypeOK
      <4>2. \A k \in Jobs \ AtWork : handle[k] = NoInode /\ reply[k] = "none" /\ tasks[k] = <<>>
        BY <3>1 DEF JobShape
      <4> QED
        BY <2>2, <4>1, <4>2
    <3>3. \A u \in Tabs \ {t} : step[u] = "job" => job[u] \notin idle
      BY <2>0, <2>1, <3>1 DEF JobsAreOwned
    <3>4. idle \subseteq Jobs
      BY <2>1
    <3>5. \A k \in Jobs \ idle : reply'[k] = reply[k]
      BY <1>2, <2>0, <2>1 DEF TypeOK
    <3>6. step' = [step EXCEPT ![t] = "job"]
      BY <2>0, <2>1, <2>4 DEF TypeOK
    <3> HIDE DEF idle, rest
    <3>7. TypeOK'
      <4>1. /\ job' \in [Tabs -> Jobs \cup {NoJob}]
            /\ file' \in [Jobs -> Files]
            /\ phase' \in [Jobs -> Phases]
            /\ tasks' \in [Jobs -> Seq(Tasks)]
        BY <2>0, <2>3, <2>4, <3>4, StartJobType
      <4> QED
        BY <1>2, <2>0, <2>1, <2>3, <2>4, <4>1 DEF TypeOK, writerVars, diskVars, removalVars
    <3> QED
      BY <1>2, <2>3, <2>4, <3>2, <3>3, <3>4, <3>5, <3>6, <3>7, StartStep
  <2>5. CASE /\ step' = [step EXCEPT ![t] = "refresh"]
             /\ job' = [job EXCEPT ![t] = NoJob]
             /\ phase' = [phase EXCEPT ![j] = "free"]
             /\ UNCHANGED <<file, tasks>>
    <3>1. TypeOK'
      BY <1>2, <2>0, <2>1, <2>3, <2>5 DEF TypeOK, writerVars, diskVars, removalVars,
         Phases
    <3>2. QueueShape'
      <4> SUFFICES ASSUME NEW k \in Jobs PROVE JobShape(k)'
        BY DEF QueueShape
      <4>1. CASE k = j
        <5>1. /\ phase'[k] = "free" /\ tasks'[k] = <<>> /\ reply'[k] = "none"
              /\ handle'[k] = NoInode
          BY <1>2, <2>0, <2>1, <2>2, <2>5, <4>1 DEF TypeOK, writerVars
        <5> QED
          BY <5>1 DEF JobShape
      <4>2. CASE k # j
        <5>1. /\ tasks'[k] = tasks[k] /\ phase'[k] = phase[k]
              /\ reply'[k] = reply[k] /\ handle'[k] = handle[k]
          BY <1>2, <2>0, <2>1, <2>5, <4>2 DEF TypeOK, writerVars
        <5> QED
          BY <2>0, <5>1, ShapeFrame DEF QueueShape
      <4> QED
        BY <4>1, <4>2
    <3>3. JobsAreOwned'
      <4>1. \A u \in Tabs : step'[u] = "job" =>
              u # t /\ step[u] = "job" /\ job'[u] = job[u]
        BY <2>0, <2>5 DEF TypeOK
      <4>2. \A k \in Jobs \ {j} : phase'[k] = phase[k]
        BY <2>0, <2>5 DEF TypeOK
      <4> QED
        BY <2>0, <2>1, <4>1, <4>2 DEF JobsAreOwned
    <3>4. DiskSafe'
      <4>1. \A k \in Jobs : handle[k] # NoInode =>
              file'[k] = file[k] /\ (Trusted(k)' => Trusted(k))
        <5> SUFFICES ASSUME NEW k \in Jobs, handle[k] # NoInode
                     PROVE  file'[k] = file[k] /\ (Trusted(k)' => Trusted(k))
          OBVIOUS
        <5>1. k # j
          BY <2>2
        <5>2. /\ tasks'[k] = tasks[k] /\ phase'[k] = phase[k]
              /\ reply'[k] = reply[k] /\ file'[k] = file[k]
          BY <1>2, <2>0, <2>1, <2>5, <5>1 DEF TypeOK
        <5> QED
          BY <5>2 DEF Trusted
      <4> QED
        BY <1>2, <3>1, <4>1, DiskFrame DEF writerVars
    <3> QED
      BY <3>1, <3>2, <3>3, <3>4 DEF DownloadInv, DiskSafe
  <2> QED
    BY <1>2, <2>4, <2>5
<1> QED
  BY <1>1, <1>2 DEF OnFinished

\* HandleDeleteModel() only posts.
LEMMA AskDeleteAction ==
  ASSUME DownloadInv, NEW t \in Tabs, HandleDeleteModel(t)
  PROVE  DownloadInv'
<1>0. TypeOK
  BY InvParts
<1>1. 2 * UnitSize \in 0..(2 * UnitSize)
  BY UnitAssumption
<1>2. TypeOK'
  BY <1>0, <1>1 DEF HandleDeleteModel, TypeOK, tabVars, writerVars, diskVars
<1> QED
  BY <1>2, TabStep DEF HandleDeleteModel, tabVars

\* base::DeleteFile() removes a name at most.
LEMMA UnlinkShrinks ==
  ASSUME TypeOK, NEW p \in Paths, Unlink(p)
  PROVE  /\ NamesTyped'
         /\ \A f \in Files : /\ partial'[f] = partial[f] \/ partial'[f] = NoInode
                             /\ final'[f] = final[f] \/ final'[f] = NoInode
<1>1. p[2] \in Files
  BY DEF Paths
<1> QED
  BY <1>1 DEF Unlink, TypeOK, NamesTyped

\* What the worker deletes is a path of the unit.
LEMMA DeletePathIsPath ==
  ASSUME TypeOK, deletes > 0
  PROVE  DeletePath \in Paths /\ deletes - 1 \in 0..(2 * UnitSize)
  BY UnitAssumption DEF DeletePath, Paths, Files, TypeOK

\* DeleteModel() only removes a name.
LEMMA DeleteAction ==
  ASSUME DownloadInv, DeleteModel
  PROVE  DownloadInv'
<1>0. TypeOK
  BY InvParts
<1>1. DeletePath \in Paths /\ deletes - 1 \in 0..(2 * UnitSize)
  BY <1>0, DeletePathIsPath DEF DeleteModel
<1>2. /\ NamesTyped'
      /\ \A f \in Files : /\ partial'[f] = partial[f] \/ partial'[f] = NoInode
                          /\ final'[f] = final[f] \/ final'[f] = NoInode
  BY <1>0, <1>1, UnlinkShrinks DEF DeleteModel
<1>3. TypeOK'
  <2>1. DiskTyped'
    BY <1>0, DiskType DEF DeleteModel, TypeOK, DiskTyped
  <2> QED
    BY <1>0, <1>1, <1>2, <2>1 DEF DeleteModel, TypeOK, DiskTyped, NamesTyped, tabVars,
       writerVars
<1>4. QueueShape'
  BY ShapeFrame, InvParts DEF DeleteModel, QueueShape, writerVars
<1>5. JobsAreOwned'
  BY InvParts DEF DeleteModel, JobsAreOwned, tabVars
<1>6. Shrinks
  <2>1. \A i \in Inodes : i \in Linked' =>
           /\ content'[i] = content[i]
           /\ i \in synced => i \in synced'
           /\ i \in mixed' <=> i \in mixed
    BY DiskShrinks DEF DeleteModel
  <2>2. \A j \in Jobs : Trusted(j)' => Trusted(j)
    BY DEF DeleteModel, Trusted
  <2> QED
    BY <1>2, <2>1, <2>2 DEF DeleteModel, Shrinks, writerVars
<1> QED
  BY <1>0, <1>3, <1>4, <1>5, <1>6, InvParts, ShrinkStep DEF DownloadInv, DiskSafe

\* A crash closes every file; it damages no file that was flushed.
LEMMA CrashAction ==
  ASSUME DownloadInv, Crash
  PROVE  DownloadInv'
<1>0. TypeOK /\ DiskSafe
  BY InvParts
<1> DEFINE damaged == [i \in Inodes |->
                        IF i \in synced THEN content[i]
                        ELSE [n \in 1..Len(content[i]) |-> "bad"]]
<1>1. PICK c \in [Inodes -> Seq(Blocks)] :
        /\ Disk(c, synced, mixed)
        /\ \A i \in synced : c[i] = content[i]
  <2>1. damaged \in [Inodes -> Seq(Blocks)]
    <3> SUFFICES ASSUME NEW i \in Inodes PROVE damaged[i] \in Seq(Blocks)
      OBVIOUS
    <3>1. content[i] \in Seq(Blocks) /\ Len(content[i]) \in Nat
      BY <1>0, LenProperties DEF TypeOK
    <3>2. [n \in 1..Len(content[i]) |-> "bad"] \in [1..Len(content[i]) -> Blocks]
      BY DEF Blocks
    <3>3. [n \in 1..Len(content[i]) |-> "bad"] \in Seq(Blocks)
      BY <3>1, <3>2, SeqDef
    <3> QED
      BY <3>1, <3>3
  <2>2. \A i \in synced : damaged[i] = content[i]
    BY <1>0 DEF TypeOK
  <2>3. Disk(content, synced, mixed) \/ Disk(damaged, synced, mixed)
    BY DEF Crash
  <2> QED
    BY <1>0, <2>1, <2>2, <2>3 DEF TypeOK
<1> HIDE DEF damaged
<1>2. TypeOK'
  <2>1. <<>> \in Seq(Tasks) /\ <<>> \in Seq(Blocks)
    OBVIOUS
  <2>2. DiskTyped'
    BY <1>0, <1>1, DiskType DEF TypeOK, DiskTyped
  <2>3. TabsTyped'
    BY DEF Crash, TabsTyped
  <2>4. JobsTyped'
    BY <1>0, <2>1 DEF Crash, TypeOK, JobsTyped, Phases
  <2>5. NamesTyped' /\ RemovalTyped'
    <3>1. 0 \in Nat /\ 0 \in 0..(2 * UnitSize)
      BY UnitAssumption
    <3> QED
      BY <1>0, <3>1 DEF Crash, TypeOK, NamesTyped, RemovalTyped
  <2> QED
    BY <2>2, <2>3, <2>4, <2>5 DEF TypeOK, TabsTyped, JobsTyped, NamesTyped, DiskTyped,
       RemovalTyped
<1>3. QueueShape'
  BY DEF Crash, QueueShape, JobShape
<1>4. JobsAreOwned'
  BY DEF Crash, JobsAreOwned
<1>5. DiskSafe'
  <2>1. \A j \in Jobs : handle'[j] = NoInode
    BY DEF Crash
  <2>2. partial' = partial /\ final' = final
    BY DEF Crash
  <2>3. HashIsContent' /\ PathIsOurs' /\ SharedIsMixed' /\ InPlaceIsClosed'
    BY <2>1 DEF HashIsContent, PathIsOurs, SharedIsMixed, InPlaceIsClosed
  <2>4. OneFile'
    BY <1>0, <2>1, <2>2 DEF OneFile, DiskSafe
  <2>5. InPlaceIsDurable'
    <3> SUFFICES ASSUME NEW f \in Pinned, final'[f] # NoInode, final'[f] \notin mixed'
                 PROVE  final'[f] \in synced' /\ content'[final'[f]] = PinnedContent(f)
      BY DEF InPlaceIsDurable, PinnedContent
    <3>1. final'[f] \in Linked' /\ final[f] \in Inodes /\ f \in Files
      BY <1>0, <2>2, UnitAssumption DEF Linked, TypeOK
    <3>2. /\ content'[final[f]] = c[final[f]]
          /\ final[f] \in synced' <=> final[f] \in synced
          /\ final[f] \notin mixed
      BY <1>1, <2>2, <3>1, DiskKeeps
    <3> QED
      BY <1>0, <1>1, <2>2, <3>2 DEF InPlaceIsDurable, DiskSafe
  <2> QED
    BY <2>3, <2>4, <2>5 DEF DiskSafe
<1> QED
  BY <1>2, <1>3, <1>4, <1>5 DEF DownloadInv, DiskSafe

------------------------------------------------------------------------------
(* The Writers.                                                            *)

\* What a task of j leaves alone.
RunFrame(j) ==
  /\ \A k \in Jobs \ {j} : /\ handle'[k] = handle[k]
                           /\ hash'[k] = hash[k]
                           /\ Trusted(k)' => Trusted(k)
  /\ file' = file
  /\ handle'[j] # NoInode /\ Trusted(j)' => Trusted(j)

\* A task touches its own Writer only; what is moved into place is trusted.
LEMMA RunsFrame ==
  ASSUME DownloadInv, NEW j \in Jobs, NEW k, NEW r, NEW h, NEW d,
         Runs(j, k, r, h, d)
  PROVE  /\ RunFrame(j)
         /\ handle'[j] \in {h, NoInode}
         /\ handle'[j] # NoInode => hash'[j] = d
         /\ k \in Blocks => phase[j] \in {"writing", "gone"}
         /\ k = "finish" => Trusted(j)
         /\ handle'[j] # NoInode /\ Trusted(j)' =>
              k \in {"truncate", "discard"} \/ phase[j] # "gone"
<1>0. TypeOK /\ JobShape(j)
  BY InvParts DEF QueueShape
<1> DEFINE q == tasks[j]
<1> DEFINE deleted == phase[j] = "gone" /\ Len(q) = 1
<1>1. /\ q \in Seq(Tasks) /\ q # <<>> /\ Head(q) = k
      /\ tasks'[j] = Tail(q)
      /\ phase'[j] = IF deleted THEN "free" ELSE phase[j]
      /\ handle'[j] = IF deleted THEN NoInode ELSE h
      /\ hash'[j] = IF deleted THEN <<>> ELSE d
      /\ file' = file
  BY <1>0 DEF Runs, TypeOK
<1>2. \A l \in Jobs \ {j} : /\ handle'[l] = handle[l] /\ hash'[l] = hash[l]
                            /\ tasks'[l] = tasks[l] /\ phase'[l] = phase[l]
                            /\ reply'[l] = reply[l]
  BY <1>0 DEF Runs, TypeOK
<1>3. \A l \in Jobs \ {j} : Trusted(l)' => Trusted(l)
  BY <1>2 DEF Trusted
<1>4. reply[j] = "none"
  BY <1>0, <1>1 DEF JobShape
<1>5. phase[j] = "gone" => q \in FinishQueues \/ (\A n \in 1..Len(q) : q[n] # "finish")
  BY <1>0 DEF JobShape
<1> HIDE DEF q
<1>6. /\ Len(q) \in Nat \ {0} /\ q[1] = k
      /\ Len(Tail(q)) = Len(q) - 1
      /\ \A n \in 1..Len(Tail(q)) : Tail(q)[n] = q[n + 1]
  BY <1>1, HeadTailProperties, EmptySeq
<1>7. \A s \in FinishQueues : \E n \in 1..Len(s) : s[n] = "finish"
  BY FinishIsQueued
<1>8. handle'[j] # NoInode /\ Trusted(j)' => Trusted(j)
  <2> SUFFICES ASSUME handle'[j] # NoInode, Trusted(j)', phase[j] = "gone"
               PROVE  q \in FinishQueues
    BY <1>4 DEF Trusted, q
  <2>1. Tail(q) \in FinishQueues
    BY <1>1 DEF Trusted
  <2>2. PICK n \in 1..Len(Tail(q)) : Tail(q)[n] = "finish"
    BY <1>7, <2>1
  <2>3. n + 1 \in 1..Len(q) /\ q[n + 1] = "finish"
    BY <1>6, <2>2
  <2> QED
    BY <1>5, <2>3
<1>9. k = "finish" => Trusted(j)
  <2> SUFFICES ASSUME k = "finish", phase[j] = "gone" PROVE q \in FinishQueues
    BY <1>4 DEF Trusted, q
  <2>1. 1 \in 1..Len(q) /\ q[1] = "finish"
    BY <1>6
  <2> QED
    BY <1>5, <2>1
<1>10. k \in Blocks => phase[j] \in {"writing", "gone"}
  <2> SUFFICES ASSUME k \in Blocks, phase[j] \notin {"writing", "gone"} PROVE FALSE
    OBVIOUS
  <2>1. \/ q = <<"open">> \/ q = <<"truncate">> \/ q = <<"finish">>
        \/ q = <<"truncate", "finish">>
    BY <1>0, <1>1, <1>4 DEF JobShape, q, TypeOK, Phases
  <2>2. q[1] \in {"open", "truncate", "finish"}
    BY <2>1
  <2> QED
    BY <1>6, <2>2 DEF Blocks
<1>11. handle'[j] # NoInode /\ Trusted(j)' =>
              k \in {"truncate", "discard"} \/ phase[j] # "gone"
  <2> SUFFICES ASSUME handle'[j] # NoInode, Trusted(j)', phase[j] = "gone"
               PROVE  k = "truncate"
    OBVIOUS
  <2>1. q \in FinishQueues /\ Tail(q) \in FinishQueues
    BY <1>1, <1>8 DEF Trusted, q
  <2>2. q # <<"finish">>
    <3>1. Tail(<<"finish">>) = <<>>
      OBVIOUS
    <3> QED
      BY <2>1, <3>1, NotFinishing
  <2>3. q # <<"finish", "discard">>
    <3>1. Tail(<<"finish", "discard">>) = <<"discard">>
      OBVIOUS
    <3> QED
      BY <2>1, <3>1, NotFinishing
  <2>4. q[1] = "truncate"
    BY <2>1, <2>2, <2>3 DEF FinishQueues
  <2> QED
    BY <1>6, <2>4
<1> QED
  BY <1>1, <1>2, <1>3, <1>8, <1>9, <1>10, <1>11 DEF RunFrame

\* The queues and the pages after any task of any Writer.
LEMMA RunsQueues ==
  ASSUME DownloadInv, NEW j \in Jobs, NEW k, NEW r, NEW h, NEW d,
         Runs(j, k, r, h, d),
         k = "truncate" => r = reply[j],
         k = "discard" => r = "none",
         k \notin {"truncate", "discard"} => r \in {"ok", "failed"},
         k = "finish" /\ r = "ok" => h = NoInode
  PROVE  QueueShape' /\ JobsAreOwned'
<1>0. TypeOK /\ QueueShape /\ JobsAreOwned
  BY InvParts
<1>1. \A l \in Jobs \ {j} : /\ handle'[l] = handle[l] /\ tasks'[l] = tasks[l]
                            /\ phase'[l] = phase[l] /\ reply'[l] = reply[l]
  BY <1>0 DEF Runs, TypeOK
<1>2. QueueShape'
  <2> SUFFICES ASSUME NEW l \in Jobs PROVE JobShape(l)'
    BY DEF QueueShape
  <2>1. CASE l = j
    <3>1. JobShape(j)
      BY <1>0 DEF QueueShape
    <3> QED
      BY <1>0, <2>1, <3>1, RunsShape
  <2>2. CASE l # j
    BY <1>0, <1>1, <2>2, ShapeFrame DEF QueueShape
  <2> QED
    BY <2>1, <2>2
<1>3. JobsAreOwned'
  <2>1. phase[j] # "gone" => phase'[j] = phase[j]
    BY <1>0 DEF Runs, TypeOK
  <2>2. step' = step /\ job' = job
    BY DEF Runs, tabVars
  <2> QED
    BY <1>0, <1>1, <2>1, <2>2 DEF JobsAreOwned
<1> QED
  BY <1>2, <1>3

\* A task that writes nothing and opens nothing, but may close and unlink.
LEMMA QuietTask ==
  ASSUME DownloadInv, NEW j \in Jobs, NEW k, NEW r \in {"none", "ok", "failed"},
         NEW h, NEW d, Runs(j, k, r, h, d),
         k = "truncate" => r = reply[j],
         k = "discard" => r = "none",
         k \notin {"truncate", "discard"} => r \in {"ok", "failed"},
         k = "finish" /\ r = "ok" => h = NoInode,
         (h = handle[j] /\ d = hash[j]) \/ (h = NoInode /\ d = <<>>),
         \A f \in Files : /\ partial'[f] = partial[f] \/ partial'[f] = NoInode
                          /\ final'[f] = final[f] \/ final'[f] = NoInode,
         NamesTyped',
         NEW e, synced \subseteq e, e \subseteq Inodes, RemovalTyped', Disk(content, e, mixed)
  PROVE  DownloadInv'
<1>0. TypeOK /\ DiskSafe
  BY InvParts
<1>1. TypeOK'
  <2>0. <<>> \in Seq(Blocks)
    OBVIOUS
  <2>1. h \in Inodes \cup {NoInode} /\ d \in Seq(Blocks)
    BY ZenonT(60), <1>0, <2>0 DEF TypeOK
  <2>2. TabsTyped' /\ JobsTyped'
    BY <1>0, <2>1, RunsType
  <2>3. DiskTyped'
    BY <1>0, DiskType DEF TypeOK, DiskTyped
  <2> QED
    BY <2>2, <2>3 DEF TypeOK, TabsTyped, JobsTyped, NamesTyped, DiskTyped,
       RemovalTyped
<1>2. QueueShape' /\ JobsAreOwned'
  BY RunsQueues
<1>3. RunFrame(j) /\ handle'[j] \in {h, NoInode} /\ (handle'[j] # NoInode => hash'[j] = d)
  BY RunsFrame
<1>4. \A i \in Inodes : i \in Linked' =>
         /\ content'[i] = content[i]
         /\ i \in synced => i \in synced'
         /\ i \in mixed' <=> i \in mixed
  BY DiskShrinks
<1>5. Shrinks
  BY <1>3, <1>4 DEF Shrinks, RunFrame
<1> QED
  BY <1>0, <1>1, <1>2, <1>5, ShrinkStep DEF DownloadInv, DiskSafe

\* The hash d is that of what is written, if it matters.
HashFollows(j, i, d, w) ==
  handle'[j] # NoInode /\ Trusted(j)' /\ i \notin mixed => d = w[i]

\* A task that writes to what it has open.
LEMMA WriteTask ==
  ASSUME DownloadInv, NEW j \in Jobs, NEW k, NEW r \in {"none", "ok", "failed"},
         NEW i \in Inodes, i = handle[j], NEW d \in Seq(Blocks), Runs(j, k, r, i, d),
         (k = "truncate" /\ r = reply[j]) \/ (k \in Blocks /\ r \in {"ok", "failed"}),
         UNCHANGED <<partial, final>>,
         NEW w \in [Inodes -> Seq(Blocks)],
         \A l \in Inodes \ {i} : w[l] = content[l],
         NEW e, e = synced \ {i}, Disk(w, e, mixed),
         HashFollows(j, i, d, w), RemovalTyped'
  PROVE  DownloadInv'
<1>0. TypeOK /\ DiskSafe /\ i # NoInode
  BY InvParts, UnitAssumption
<1>1. w \in [Inodes -> Seq(Blocks)] /\ \A l \in Inodes \ {i} : w[l] = content[l]
  OBVIOUS
<1>2. Disk(w, e, mixed)
  OBVIOUS
<1>3. TypeOK'
  <2>1. TabsTyped' /\ JobsTyped'
    BY <1>0, RunsType
  <2>2. DiskTyped'
    BY <1>0, <1>1, <1>2, DiskType DEF TypeOK, DiskTyped
  <2> QED
    BY <1>0, <2>1, <2>2 DEF TypeOK, TabsTyped, JobsTyped, DiskTyped, RemovalTyped
<1>4. QueueShape' /\ JobsAreOwned'
  <2>1. k \in Blocks => k \notin {"truncate", "discard", "finish"}
    BY DEF Blocks
  <2> QED
    BY <2>1, RunsQueues
<1>5. RunFrame(j) /\ handle'[j] \in {i, NoInode} /\ (handle'[j] # NoInode => hash'[j] = d)
  BY RunsFrame
<1>6. \A l \in Inodes : l \in Linked' =>
        /\ content'[l] = w[l]
        /\ l \in synced' <=> l \in e
        /\ l \in mixed' <=> l \in mixed
  BY <1>2, DiskKeeps
<1>7. /\ \A l \in Jobs : handle'[l] \in Linked' /\ (handle'[l] # NoInode => handle'[l] \in Inodes)
      /\ \A f \in Files : final'[f] \in Linked' /\ (final'[f] # NoInode => final'[f] \in Inodes)
      /\ \A f \in Files : partial'[f] \in Linked' /\ (partial'[f] # NoInode => partial'[f] \in Inodes)
      /\ \A l \in Jobs : file[l] \in Files
      /\ Pinned \subseteq Files
  BY ZenonT(60), <1>0, <1>3, UnitAssumption DEF Linked, TypeOK
<1>8. \A l \in Jobs : handle'[l] = handle[l] \/ handle'[l] = NoInode
  BY <1>5 DEF RunFrame
<1>9. HashIsContent'
  <2> SUFFICES ASSUME NEW l \in Jobs, handle'[l] # NoInode,
                      handle'[l] \notin mixed', Trusted(l)'
               PROVE  hash'[l] = content'[handle'[l]]
    BY DEF HashIsContent
  <2>1. handle'[l] = handle[l] /\ handle[l] \notin mixed /\ content'[handle[l]] = w[handle[l]]
    BY <1>6, <1>7, <1>8
  <2>2. CASE l = j
    BY <1>1, <1>5, <2>1, <2>2 DEF HashFollows
  <2>3. CASE l # j
    <3>1. handle[l] # i
      BY <1>0, <2>1, <2>3 DEF DiskSafe, SharedIsMixed, OneFile
    <3>2. hash'[l] = hash[l] /\ Trusted(l) /\ handle[l] # NoInode /\ handle[l] \in Inodes
      BY <1>5, <1>7, <2>1, <2>3 DEF RunFrame
    <3>3. hash[l] = content[handle[l]]
      BY <1>0, <2>1, <3>2 DEF DiskSafe, HashIsContent
    <3> QED
      BY <1>1, <2>1, <3>1, <3>2, <3>3
  <2> QED
    BY <2>2, <2>3
<1>10. PathIsOurs'
  <2> SUFFICES ASSUME NEW l \in Jobs, handle'[l] # NoInode, partial'[file'[l]] # NoInode
               PROVE  partial'[file'[l]] = handle'[l] \/ partial'[file'[l]] \in mixed'
    BY DEF PathIsOurs
  <2>1. file'[l] = file[l] /\ file[l] \in Files /\ partial' = partial /\ handle'[l] = handle[l]
    BY <1>5, <1>7, <1>8 DEF RunFrame
  <2>2. partial[file[l]] = handle[l] \/ partial[file[l]] \in mixed
    BY <1>0, <2>1 DEF DiskSafe, PathIsOurs
  <2> QED
    BY <1>6, <1>7, <2>1, <2>2
<1>11. SharedIsMixed'
  <2> SUFFICES ASSUME NEW l \in Jobs, NEW m \in Jobs, l # m, handle'[l] # NoInode,
                      handle'[m] # NoInode, file'[l] = file'[m]
               PROVE  handle'[l] \in mixed'
    BY DEF SharedIsMixed
  <2>1. handle[l] \in mixed
    BY <1>0, <1>5, <1>8 DEF RunFrame, DiskSafe, SharedIsMixed
  <2> QED
    BY <1>6, <1>7, <1>8, <2>1
<1>12. OneFile'
  BY <1>0, <1>5, <1>8 DEF DiskSafe, OneFile, RunFrame
<1>13. InPlaceIsClosed'
  <2> SUFFICES ASSUME NEW l \in Jobs, NEW f \in Files, final'[f] # NoInode,
                      handle'[l] = final'[f]
               PROVE  final'[f] \in mixed'
    BY DEF InPlaceIsClosed
  <2>1. final[f] \in mixed
    BY <1>0, <1>8 DEF DiskSafe, InPlaceIsClosed
  <2> QED
    BY <1>6, <1>7, <2>1
<1>14. InPlaceIsDurable'
  <2> SUFFICES ASSUME NEW f \in Pinned, final'[f] # NoInode, final'[f] \notin mixed'
               PROVE  final'[f] \in synced' /\ content'[final'[f]] = PinnedContent(f)
    BY DEF InPlaceIsDurable, PinnedContent
  <2>1. f \in Files /\ final'[f] = final[f] /\ final[f] \notin mixed /\ final[f] \in Inodes
    BY <1>6, <1>7
  <2>2. final[f] # i
    BY <1>0, <2>1 DEF DiskSafe, InPlaceIsClosed
  <2>3. final[f] \in synced /\ content[final[f]] = PinnedContent(f)
    BY <1>0, <2>1 DEF DiskSafe, InPlaceIsDurable
  <2> QED
    BY <1>1, <1>6, <1>7, <2>1, <2>2, <2>3
<1> QED
  BY <1>3, <1>4, <1>9, <1>10, <1>11, <1>12, <1>13, <1>14 DEF DownloadInv

\* Open(): what it opens is what the path names from now on, its hash is its
\* content, and every Writer that has the file open too is noted.
LEMMA OpenTask ==
  ASSUME DownloadInv, NEW j \in Jobs, NEW f, f = file[j], NEW i \in Inodes,
         i = partial[f] \/ i \notin Linked,
         partial' = [partial EXCEPT ![f] = i], UNCHANGED final,
         NEW c \in Seq(Blocks), Runs(j, "open", "ok", i, c),
         NEW w \in [Inodes -> Seq(Blocks)], w[i] = c,
         \A l \in Inodes \ {i} : w[l] = content[l],
         NEW e, e \subseteq Inodes, synced \ {i} \subseteq e,
         Disk(w, e, MixedBy(j, i)), RemovalTyped'
  PROVE  DownloadInv'
<1>0. TypeOK /\ DiskSafe /\ i # NoInode /\ f \in Files
  BY InvParts, UnitAssumption DEF TypeOK
<1> DEFINE m == MixedBy(j, i)
<1>1. /\ m \subseteq Inodes
      /\ \A l \in Inodes \ {i} : l \in mixed => l \in m
      /\ \A l \in Jobs \ {j} : handle[l] # NoInode /\ file[l] = f =>
           handle[l] \in m /\ i \in m
  BY SMTT(30), <1>0 DEF MixedBy, Others, TypeOK
<1> HIDE DEF m
<1>2. TypeOK'
  <2>1. TabsTyped' /\ JobsTyped'
    BY <1>0, RunsType
  <2>2. DiskTyped'
    BY <1>0, <1>1, DiskType DEF DiskTyped, m
  <2> QED
    BY <1>0, <2>1, <2>2 DEF TypeOK, TabsTyped, JobsTyped, DiskTyped, RemovalTyped
<1>3. QueueShape' /\ JobsAreOwned'
  BY RunsQueues
<1>4. RunFrame(j) /\ handle'[j] \in {i, NoInode} /\ (handle'[j] # NoInode => hash'[j] = c)
  BY RunsFrame
<1>5. \A l \in Inodes : l \in Linked' =>
        /\ content'[l] = w[l]
        /\ l \in synced' <=> l \in e
        /\ l \in mixed' <=> l \in m
  BY DiskKeeps DEF m
<1>6. /\ \A l \in Jobs : handle'[l] \in Linked' /\ (handle'[l] # NoInode => handle'[l] \in Inodes)
      /\ \A g \in Files : final'[g] \in Linked' /\ (final'[g] # NoInode => final'[g] \in Inodes)
      /\ \A g \in Files : partial'[g] \in Linked' /\ (partial'[g] # NoInode => partial'[g] \in Inodes)
      /\ \A l \in Jobs : file[l] \in Files
      /\ Pinned \subseteq Files
  <2>1. /\ handle' \in [Jobs -> Inodes \cup {NoInode}]
        /\ final' \in [Files -> Inodes \cup {NoInode}]
        /\ partial' \in [Files -> Inodes \cup {NoInode}]
    BY <1>2 DEF TypeOK
  <2>2. \A l \in Jobs : handle'[l] \in Linked' /\ (handle'[l] # NoInode => handle'[l] \in Inodes)
    BY <2>1 DEF Linked
  <2>3. \A g \in Files : final'[g] \in Linked' /\ (final'[g] # NoInode => final'[g] \in Inodes)
    BY <2>1 DEF Linked
  <2>4. \A g \in Files : partial'[g] \in Linked' /\ (partial'[g] # NoInode => partial'[g] \in Inodes)
    BY <2>1 DEF Linked
  <2>5. (\A l \in Jobs : file[l] \in Files) /\ Pinned \subseteq Files
    BY <1>0, UnitAssumption DEF TypeOK
  <2> QED
    BY <2>2, <2>3, <2>4, <2>5
<1>7. /\ partial'[f] = i
      /\ \A g \in Files \ {f} : partial'[g] = partial[g]
      /\ final' = final /\ file' = file
      /\ \A l \in Jobs \ {j} : handle'[l] = handle[l]
  BY <1>0, <1>4 DEF TypeOK, RunFrame
<1>8. /\ \A g \in Files \ {f} : partial[g] # i
      /\ \A g \in Files : final[g] # i
      /\ \A l \in Jobs : handle[l] = i => file[l] = f
  BY <1>0 DEF DiskSafe, OneFile, Linked
<1>9. HashIsContent'
  <2> SUFFICES ASSUME NEW l \in Jobs, handle'[l] # NoInode,
                      handle'[l] \notin mixed', Trusted(l)'
               PROVE  hash'[l] = content'[handle'[l]]
    BY DEF HashIsContent
  <2>1. handle'[l] \in Inodes /\ handle'[l] \notin m /\ content'[handle'[l]] = w[handle'[l]]
    BY <1>5, <1>6
  <2>2. CASE l = j
    BY <1>4, <2>1, <2>2
  <2>3. CASE l # j
    <3>1. handle'[l] = handle[l] /\ file[l] # f
      BY <1>1, <1>7, <2>1, <2>3
    <3>2. handle[l] # i /\ handle[l] \notin mixed
      BY <1>1, <1>8, <2>1, <3>1
    <3>3. hash'[l] = hash[l] /\ Trusted(l)
      BY <1>4, <2>3 DEF RunFrame
    <3>4. hash[l] = content[handle[l]]
      BY <1>0, <3>1, <3>2, <3>3 DEF DiskSafe, HashIsContent
    <3> QED
      BY <2>1, <3>1, <3>2, <3>3, <3>4
  <2> QED
    BY <2>2, <2>3
<1>10. PathIsOurs'
  <2> SUFFICES ASSUME NEW l \in Jobs, handle'[l] # NoInode, partial'[file'[l]] # NoInode
               PROVE  partial'[file'[l]] = handle'[l] \/ partial'[file'[l]] \in mixed'
    BY DEF PathIsOurs
  <2>1. CASE l = j
    BY <1>4, <1>7, <2>1
  <2>2. CASE l # j /\ file[l] = f
    BY SMTT(30), <1>1, <1>5, <1>6, <1>7, <2>2
  <2>3. CASE l # j /\ file[l] # f
    <3>1. partial'[file'[l]] = partial[file[l]] /\ handle'[l] = handle[l]
      BY <1>6, <1>7, <2>3
    <3>2. partial[file[l]] = handle[l] \/ partial[file[l]] \in mixed
      BY <1>0, <3>1 DEF DiskSafe, PathIsOurs
    <3>3. partial[file[l]] # i
      BY <1>6, <1>8, <2>3
    <3> QED
      BY <1>1, <1>5, <1>6, <1>7, <2>3, <3>1, <3>2, <3>3
  <2> QED
    BY <2>1, <2>2, <2>3
<1>11. SharedIsMixed'
  <2> SUFFICES ASSUME NEW l \in Jobs, NEW n \in Jobs, l # n, handle'[l] # NoInode,
                      handle'[n] # NoInode, file'[l] = file'[n]
               PROVE  handle'[l] \in m
    BY <1>5, <1>6 DEF SharedIsMixed
  <2>1. CASE l = j
    BY <1>1, <1>4, <1>7, <2>1
  <2>2. CASE l # j /\ n = j
    BY <1>1, <1>7, <2>2
  <2>3. CASE l # j /\ n # j
    <3>1. handle'[l] = handle[l] /\ handle[l] \in mixed
      BY <1>0, <1>7, <2>3 DEF DiskSafe, SharedIsMixed
    <3>2. CASE handle[l] = i
      BY <1>1, <1>7, <1>8, <2>3, <3>1, <3>2
    <3>3. CASE handle[l] # i
      BY <1>1, <1>6, <3>1, <3>3
    <3> QED
      BY <3>2, <3>3
  <2> QED
    BY <2>1, <2>2, <2>3
<1>12. OneFile'
  <2>1. \A l, n \in Jobs :
          (handle'[l] # NoInode /\ handle'[l] = handle'[n]) => file'[l] = file'[n]
    BY <1>0, <1>4, <1>7, <1>8 DEF DiskSafe, OneFile
  <2>2. \A l \in Jobs, g \in Files : handle'[l] # NoInode =>
          /\ handle'[l] = partial'[g] => g = file'[l]
          /\ handle'[l] = final'[g] => g = file'[l]
    BY <1>0, <1>4, <1>7, <1>8 DEF DiskSafe, OneFile
  <2>3. \A g, n \in Files :
          /\ (partial'[g] # NoInode /\ partial'[g] = partial'[n]) => g = n
          /\ (final'[g] # NoInode /\ final'[g] = final'[n]) => g = n
          /\ partial'[g] # NoInode => partial'[g] # final'[n]
    BY <1>0, <1>7, <1>8 DEF DiskSafe, OneFile
  <2> QED
    BY <2>1, <2>2, <2>3 DEF OneFile
<1>13. InPlaceIsClosed'
  <2> SUFFICES ASSUME NEW l \in Jobs, NEW g \in Files, final'[g] # NoInode,
                      handle'[l] = final'[g]
               PROVE  final'[g] \in mixed'
    BY DEF InPlaceIsClosed
  <2>1. l # j
    BY <1>4, <1>7, <1>8
  <2>2. final[g] \in mixed /\ final[g] # i
    BY <1>0, <1>7, <1>8, <2>1 DEF DiskSafe, InPlaceIsClosed
  <2> QED
    BY <1>1, <1>5, <1>6, <1>7, <2>2
<1>14. InPlaceIsDurable'
  <2> SUFFICES ASSUME NEW g \in Pinned, final'[g] # NoInode, final'[g] \notin mixed'
               PROVE  final'[g] \in synced' /\ content'[final'[g]] = PinnedContent(g)
    BY DEF InPlaceIsDurable, PinnedContent
  <2>1. g \in Files /\ final'[g] = final[g] /\ final[g] \in Inodes /\ final[g] # i
    BY <1>6, <1>7, <1>8
  <2>2. final[g] \notin mixed
    BY <1>1, <1>5, <1>6, <2>1
  <2>3. final[g] \in synced /\ content[final[g]] = PinnedContent(g)
    BY <1>0, <2>1, <2>2 DEF DiskSafe, InPlaceIsDurable
  <2> QED
    BY <1>5, <1>6, <2>1, <2>3
<1> QED
  BY <1>2, <1>3, <1>9, <1>10, <1>11, <1>12, <1>13, <1>14 DEF DownloadInv

\* Finish(): what is moved into place was hashed by this Writer, or shared.
LEMMA MoveTask ==
  ASSUME DownloadInv, NEW j \in Jobs, NEW f, f = file[j], NEW i, i = handle[j],
         i # NoInode, VerifyDownload(j), partial[f] # NoInode,
         Runs(j, "finish", "ok", NoInode, <<>>),
         final' = [final EXCEPT ![f] = partial[f]],
         partial' = [partial EXCEPT ![f] = NoInode],
         Disk(content, synced \cup {i}, mixed), RemovalTyped'
  PROVE  DownloadInv'
<1>0. TypeOK /\ DiskSafe /\ i \in Inodes /\ f \in Files /\ partial[f] \in Inodes
  BY InvParts DEF TypeOK
<1>1. TypeOK'
  <2>0. <<>> \in Seq(Blocks)
    OBVIOUS
  <2>1. TabsTyped' /\ JobsTyped'
    BY <1>0, <2>0, RunsType
  <2>2. DiskTyped'
    BY <1>0, DiskType DEF DiskTyped, TypeOK
  <2> QED
    BY <1>0, <2>1, <2>2 DEF TypeOK, TabsTyped, JobsTyped, DiskTyped, RemovalTyped
<1>2. QueueShape' /\ JobsAreOwned'
  BY RunsQueues
<1>3. RunFrame(j) /\ handle'[j] = NoInode /\ Trusted(j)
  BY RunsFrame
<1>4. \A l \in Inodes : l \in Linked' =>
        /\ content'[l] = content[l]
        /\ l \in synced' <=> l \in synced \cup {i}
        /\ l \in mixed' <=> l \in mixed
  BY DiskKeeps
<1>5. /\ \A l \in Jobs : handle'[l] \in Linked' /\ (handle'[l] # NoInode => handle'[l] \in Inodes)
      /\ \A g \in Files : final'[g] \in Linked' /\ (final'[g] # NoInode => final'[g] \in Inodes)
      /\ \A g \in Files : partial'[g] \in Linked' /\ (partial'[g] # NoInode => partial'[g] \in Inodes)
      /\ \A l \in Jobs : file[l] \in Files
      /\ Pinned \subseteq Files
  <2>1. /\ \A l \in Jobs : handle'[l] \in Linked'
        /\ \A g \in Files : final'[g] \in Linked' /\ partial'[g] \in Linked'
    BY DEF Linked
  <2>2. /\ handle' \in [Jobs -> Inodes \cup {NoInode}]
        /\ partial' \in [Files -> Inodes \cup {NoInode}]
        /\ final' \in [Files -> Inodes \cup {NoInode}]
        /\ file \in [Jobs -> Files]
    BY <1>0, <1>1 DEF TypeOK
  <2> QED
    BY <2>1, <2>2, UnitAssumption
<1>6. /\ partial'[f] = NoInode /\ final'[f] = partial[f]
      /\ \A g \in Files \ {f} : partial'[g] = partial[g] /\ final'[g] = final[g]
      /\ file' = file
      /\ \A l \in Jobs \ {j} : handle'[l] = handle[l] /\ hash'[l] = hash[l]
      /\ \A l \in Jobs \ {j} : Trusted(l)' => Trusted(l)
  BY <1>0, <1>3 DEF TypeOK, RunFrame
<1>7. HashIsContent'
  <2> SUFFICES ASSUME NEW l \in Jobs, handle'[l] # NoInode,
                      handle'[l] \notin mixed', Trusted(l)'
               PROVE  hash'[l] = content'[handle'[l]]
    BY DEF HashIsContent
  <2>1. l # j
    BY <1>3
  <2>2. hash[l] = content[handle[l]]
    BY <1>0, <1>4, <1>5, <1>6, <2>1 DEF DiskSafe, HashIsContent
  <2> QED
    BY <1>4, <1>5, <1>6, <2>1, <2>2
<1>8. PathIsOurs'
  <2> SUFFICES ASSUME NEW l \in Jobs, handle'[l] # NoInode, partial'[file'[l]] # NoInode
               PROVE  partial'[file'[l]] = handle'[l] \/ partial'[file'[l]] \in mixed'
    BY DEF PathIsOurs
  <2>1. l # j /\ file'[l] = file[l] /\ file[l] # f
    BY <1>3, <1>6
  <2>2. partial[file[l]] = handle[l] \/ partial[file[l]] \in mixed
    BY <1>0, <1>5, <1>6, <2>1 DEF DiskSafe, PathIsOurs
  <2> QED
    BY <1>4, <1>5, <1>6, <2>1, <2>2
<1>9. SharedIsMixed'
  <2> SUFFICES ASSUME NEW l \in Jobs, NEW n \in Jobs, l # n, handle'[l] # NoInode,
                      handle'[n] # NoInode, file'[l] = file'[n]
               PROVE  handle'[l] \in mixed
    BY <1>4, <1>5 DEF SharedIsMixed
  <2> QED
    BY <1>0, <1>3, <1>6 DEF DiskSafe, SharedIsMixed
<1>10. OneFile'
  <2>1. \A l, n \in Jobs :
          (handle'[l] # NoInode /\ handle'[l] = handle'[n]) => file'[l] = file'[n]
    BY <1>0, <1>3, <1>6 DEF DiskSafe, OneFile
  <2>2. \A l \in Jobs, g \in Files : handle'[l] # NoInode =>
          /\ handle'[l] = partial'[g] => g = file'[l]
          /\ handle'[l] = final'[g] => g = file'[l]
    BY <1>0, <1>3, <1>6 DEF DiskSafe, OneFile
  <2>3. \A g, n \in Files :
          /\ (partial'[g] # NoInode /\ partial'[g] = partial'[n]) => g = n
          /\ (final'[g] # NoInode /\ final'[g] = final'[n]) => g = n
          /\ partial'[g] # NoInode => partial'[g] # final'[n]
    BY <1>0, <1>6 DEF DiskSafe, OneFile
  <2> QED
    BY <2>1, <2>2, <2>3 DEF OneFile
<1>11. InPlaceIsClosed'
  <2> SUFFICES ASSUME NEW l \in Jobs, NEW g \in Files, final'[g] # NoInode,
                      handle'[l] = final'[g]
               PROVE  final'[g] \in mixed
    BY <1>4, <1>5 DEF InPlaceIsClosed
  <2>1. l # j /\ handle'[l] = handle[l]
    BY <1>3, <1>6
  <2>2. CASE g # f
    BY <1>0, <1>6, <2>1, <2>2 DEF DiskSafe, InPlaceIsClosed
  <2>3. CASE g = f
    <3>1. handle[l] = partial[f] /\ file[l] = f
      BY <1>0, <1>6, <2>1, <2>3 DEF DiskSafe, OneFile
    <3> QED
      BY <1>0, <1>6, <2>1, <2>3, <3>1 DEF DiskSafe, SharedIsMixed
  <2> QED
    BY <2>2, <2>3
<1>12. InPlaceIsDurable'
  <2> SUFFICES ASSUME NEW g \in Pinned, final'[g] # NoInode, final'[g] \notin mixed'
               PROVE  final'[g] \in synced' /\ content'[final'[g]] = PinnedContent(g)
    BY DEF InPlaceIsDurable, PinnedContent
  <2>0. g \in Files /\ final'[g] \in Inodes /\ final'[g] \in Linked' /\ final'[g] \notin mixed
    BY <1>4, <1>5
  <2>1. CASE g # f
    <3>1. final[g] \in synced /\ content[final[g]] = PinnedContent(g)
      BY <1>0, <1>6, <2>0, <2>1 DEF DiskSafe, InPlaceIsDurable
    <3> QED
      BY <1>4, <1>6, <2>0, <2>1, <3>1
  <2>2. CASE g = f
    <3>1. partial[f] = i
      BY <1>0, <1>6, <2>0, <2>2 DEF DiskSafe, PathIsOurs
    <3>2. hash[j] = content[i]
      BY <1>0, <1>3, <1>6, <2>0, <2>2, <3>1 DEF DiskSafe, HashIsContent
    <3>3. hash[j] = PinnedContent(f)
      BY <2>2 DEF VerifyDownload
    <3>4. final'[g] = i
      BY <1>6, <2>2, <3>1
    <3>5. i \in synced' /\ content'[i] = content[i]
      BY <1>4, <2>0, <3>4
    <3> QED
      BY <2>2, <3>2, <3>3, <3>4, <3>5
  <2> QED
    BY <2>1, <2>2
<1> QED
  BY <1>1, <1>2, <1>7, <1>8, <1>9, <1>10, <1>11, <1>12 DEF DownloadInv

\* A task other than Discard() leaves the removals alone.
LEMMA TransferKeeps ==
  ASSUME DownloadInv, NEW j \in Jobs,
         OpenPartial(j) \/ Truncate(j) \/ (\E b \in Blocks : AppendBlock(j, b)) \/ Finish(j)
  PROVE  RemovalTyped' /\ UNCHANGED removalVars
<1>1. UNCHANGED removalVars
  BY DEF OpenPartial, Truncate, AppendBlock, Finish, Transfers
<1> QED
  BY <1>1, InvParts DEF removalVars, TypeOK, RemovalTyped

\* Writer::Open() preserves the invariant.
LEMMA OpenAction ==
  ASSUME DownloadInv, NEW j \in Jobs, OpenPartial(j)
  PROVE  DownloadInv'
<1> RemovalTyped'
  BY TransferKeeps
<1>0. TypeOK
  BY InvParts
<1>1. CASE /\ Runs(j, "open", "failed", NoInode, <<>>) /\ SamePaths
           /\ Disk(content, synced, mixed)
  <2>1. NamesTyped'
    BY <1>0, <1>1 DEF SamePaths, NamesTyped, TypeOK
  <2> QED
    BY <1>0, <1>1, <2>1, QuietTask DEF SamePaths, TypeOK
<1>2. ASSUME NEW f, f = file[j], NEW i \in Inodes, i = partial[f] \/ i \notin Linked,
             partial' = [partial EXCEPT ![f] = i], UNCHANGED final,
             \/ /\ Runs(j, "open", "ok", i, content[i])
                /\ Disk(content, synced, MixedBy(j, i))
             \/ /\ Runs(j, "open", "ok", i, <<>>)
                /\ Disk([content EXCEPT ![i] = <<>>], synced \ {i}, MixedBy(j, i))
      PROVE  DownloadInv'
  <2>1. CASE /\ Runs(j, "open", "ok", i, content[i])
             /\ Disk(content, synced, MixedBy(j, i))
    <3>1. content \in [Inodes -> Seq(Blocks)] /\ synced \subseteq Inodes
      BY <1>0 DEF TypeOK
    <3>2. content[i] \in Seq(Blocks)
      BY <3>1
    <3> QED
      BY <1>2, <2>1, <3>1, <3>2, OpenTask
  <2>2. CASE /\ Runs(j, "open", "ok", i, <<>>)
             /\ Disk([content EXCEPT ![i] = <<>>], synced \ {i}, MixedBy(j, i))
    <3> DEFINE w == [content EXCEPT ![i] = <<>>]
    <3>1. <<>> \in Seq(Blocks)
      OBVIOUS
    <3>2. /\ w \in [Inodes -> Seq(Blocks)] /\ w[i] = <<>>
          /\ \A l \in Inodes \ {i} : w[l] = content[l]
          /\ synced \ {i} \subseteq Inodes
      BY <1>0, <3>1 DEF TypeOK
    <3>3. Disk(w, synced \ {i}, MixedBy(j, i))
      BY <2>2
    <3> HIDE DEF w
    <3> QED
      BY <1>2, <2>2, <3>1, <3>2, <3>3, OpenTask
  <2> QED
    BY <1>2, <2>1, <2>2
<1> QED
  BY <1>1, <1>2 DEF OpenPartial, Transfers

\* Writer::Truncate() preserves the invariant.
LEMMA TruncateAction ==
  ASSUME DownloadInv, NEW j \in Jobs, Truncate(j)
  PROVE  DownloadInv'
<1> RemovalTyped'
  BY TransferKeeps
<1>0. TypeOK /\ reply[j] \in {"none", "ok", "failed"}
  BY InvParts DEF TypeOK
<1>1. SamePaths /\ NamesTyped'
  BY <1>0 DEF Truncate, Transfers, SamePaths, NamesTyped, TypeOK
<1>2. ASSUME NEW i, i = handle[j], Runs(j, "truncate", reply[j], i, hash[j]),
             Disk(content, synced, mixed)
      PROVE  DownloadInv'
  BY <1>0, <1>1, <1>2, QuietTask DEF SamePaths, TypeOK
<1>3. ASSUME NEW i, i = handle[j], i # NoInode,
             Runs(j, "truncate", reply[j], i, <<>>),
             Disk([content EXCEPT ![i] = <<>>], synced \ {i}, mixed)
      PROVE  DownloadInv'
  <2>1. i \in Inodes /\ <<>> \in Seq(Blocks)
    BY <1>0, <1>3 DEF TypeOK
  <2> DEFINE w == [content EXCEPT ![i] = <<>>]
  <2>2. /\ w \in [Inodes -> Seq(Blocks)] /\ w[i] = <<>>
        /\ \A l \in Inodes \ {i} : w[l] = content[l]
    BY <1>0, <2>1 DEF TypeOK
  <2> PICK e : e = synced \ {i}
    OBVIOUS
  <2>3. Disk(w, e, mixed)
    BY <1>3
  <2> HIDE DEF w
  <2>4. UNCHANGED <<partial, final>>
    BY <1>1 DEF SamePaths
  <2>5. HashFollows(j, i, <<>>, w)
    BY <2>2 DEF HashFollows
  <2>6. Runs(j, "truncate", reply[j], i, <<>>) /\ i = handle[j]
    BY <1>3
  <2> QED
    BY <1>0, <2>1, <2>2, <2>3, <2>4, <2>5, <2>6, WriteTask
<1> QED
  BY <1>2, <1>3 DEF Truncate, Transfers

\* Writer::Append() preserves it: a block at the end of what was hashed.
LEMMA AppendAction ==
  ASSUME DownloadInv, NEW j \in Jobs, NEW b \in Blocks, AppendBlock(j, b)
  PROVE  DownloadInv'
<1> RemovalTyped'
  BY TransferKeeps
<1>0. TypeOK /\ DiskSafe /\ b \notin {"truncate", "discard", "finish"}
  BY InvParts DEF Blocks
<1>1. SamePaths /\ NamesTyped'
  BY <1>0 DEF AppendBlock, Transfers, SamePaths, NamesTyped, TypeOK
<1>2. ASSUME NEW i, i = handle[j], Runs(j, b, "failed", i, hash[j]),
             Disk(content, synced, mixed)
      PROVE  DownloadInv'
  BY <1>0, <1>1, <1>2, QuietTask DEF SamePaths, TypeOK
<1>3. ASSUME NEW i, i = handle[j], i # NoInode, NEW r \in {"ok", "failed"}, NEW d,
             d = IF r = "ok" THEN Append(hash[j], b) ELSE hash[j],
             Runs(j, b, r, i, d),
             Disk([content EXCEPT ![i] = Written(@, Len(hash[j]) + 1, b)],
                  synced \ {i}, mixed)
      PROVE  DownloadInv'
  <2> DEFINE c == Written(content[i], Len(hash[j]) + 1, b)
  <2>1. /\ i \in Inodes /\ hash[j] \in Seq(Blocks) /\ content[i] \in Seq(Blocks)
        /\ Len(hash[j]) + 1 \in Nat \ {0}
    BY <1>0, <1>3, LenProperties DEF TypeOK
  <2>2. c \in Seq(Blocks)
    BY <2>1, WrittenType
  <2>3. d \in Seq(Blocks)
    BY <1>3, <2>1, AppendProperties
  <2>4. ASSUME handle'[j] # NoInode, Trusted(j)', i \notin mixed
        PROVE  d = c
    <3>1. Trusted(j) /\ phase[j] = "writing"
      BY <1>0, <1>3, <2>4, RunsFrame DEF RunFrame
    <3>2. hash[j] = content[i]
      BY <1>0, <1>3, <2>4, <3>1 DEF DiskSafe, HashIsContent
    <3>3. reply'[j] = r /\ phase'[j] = "writing"
      BY <1>0, <1>3, <3>1 DEF Runs, TypeOK
    <3>4. r = "ok"
      BY <2>4, <3>3 DEF Trusted
    <3> QED
      BY <1>3, <2>1, <3>2, <3>4, WrittenAtEnd
  <2> DEFINE w == [content EXCEPT ![i] = c]
  <2> PICK e : e = synced \ {i}
    OBVIOUS
  <2>5. Disk(w, e, mixed)
    BY <1>3
  <2>6. /\ w \in [Inodes -> Seq(Blocks)] /\ w[i] = c
        /\ \A l \in Inodes \ {i} : w[l] = content[l]
    BY <1>0, <2>1, <2>2 DEF TypeOK
  <2>7. HashFollows(j, i, d, w)
    BY <2>4, <2>6 DEF HashFollows
  <2>8. UNCHANGED <<partial, final>>
    BY <1>1 DEF SamePaths
  <2>9. i = handle[j] /\ Runs(j, b, r, i, d) /\ r \in {"none", "ok", "failed"}
    BY <1>3
  <2>10. (b = "truncate" /\ r = reply[j]) \/ (b \in Blocks /\ r \in {"ok", "failed"})
    BY <1>3
  <2>11. w \in [Inodes -> Seq(Blocks)] /\ \A l \in Inodes \ {i} : w[l] = content[l]
    BY <2>6
  <2> HIDE DEF c, w
  <2> QED
    BY <2>1, <2>3, <2>5, <2>7, <2>8, <2>9, <2>10, <2>11, WriteTask
<1> QED
  BY <1>2, <1>3 DEF AppendBlock, Transfers

\* Writer::Finish() preserves the invariant.
LEMMA FinishAction ==
  ASSUME DownloadInv, NEW j \in Jobs, Finish(j)
  PROVE  DownloadInv'
<1> RemovalTyped'
  BY TransferKeeps
<1>0. TypeOK
  BY InvParts
<1>1. ASSUME NEW h, NEW d, NEW e,
             (h = handle[j] /\ d = hash[j]) \/ (h = NoInode /\ d = <<>>),
             Runs(j, "finish", "failed", h, d),
             partial' = partial \/ partial' = [partial EXCEPT ![file[j]] = NoInode],
             UNCHANGED final,
             synced \subseteq e, e \subseteq Inodes,
             Disk(content, e, mixed)
      PROVE  DownloadInv'
  <2>1. NamesTyped'
    BY <1>0, <1>1 DEF NamesTyped, TypeOK
  <2>2. \A f \in Files : /\ partial'[f] = partial[f] \/ partial'[f] = NoInode
                         /\ final'[f] = final[f] \/ final'[f] = NoInode
    BY <1>0, <1>1 DEF TypeOK
  <2> QED
    BY <1>1, <2>1, <2>2, QuietTask
<1>2. CASE /\ Runs(j, "finish", "failed", handle[j], hash[j]) /\ SamePaths
           /\ Disk(content, synced, mixed)
  BY <1>0, <1>1, <1>2 DEF SamePaths, TypeOK
<1>3. CASE /\ handle[j] # NoInode
           /\ Runs(j, "finish", "failed", NoInode, <<>>)
           /\ partial' = partial \/ partial' = [partial EXCEPT ![file[j]] = NoInode]
           /\ UNCHANGED final
           /\ Disk(content, synced \cup {handle[j]}, mixed)
  <2>1. synced \subseteq Inodes /\ handle[j] \in Inodes
    BY <1>0, <1>3 DEF TypeOK
  <2> PICK e : e = synced \cup {handle[j]}
    OBVIOUS
  <2>2. synced \subseteq e /\ e \subseteq Inodes /\ Disk(content, e, mixed)
    BY <1>3, <2>1
  <2> QED
    BY <1>1, <1>3, <2>2
<1>4. CASE /\ handle[j] # NoInode
           /\ VerifyDownload(j)
           /\ partial[file[j]] # NoInode
           /\ Runs(j, "finish", "ok", NoInode, <<>>)
           /\ final' = [final EXCEPT ![file[j]] = partial[file[j]]]
           /\ partial' = [partial EXCEPT ![file[j]] = NoInode]
           /\ Disk(content, synced \cup {handle[j]}, mixed)
  BY <1>4, MoveTask
<1> QED
  BY <1>2, <1>3, <1>4 DEF Finish, SamePaths, Transfers

\* Writer::Discard() preserves the invariant, path by path.
LEMMA DiscardAction ==
  ASSUME DownloadInv, NEW j \in Jobs, Discard(j)
  PROVE  DownloadInv'
<1>0. TypeOK /\ QueueShape /\ JobsAreOwned /\ DiskSafe
  BY InvParts
<1>1. PICK p \in Paths : Unlink(p) /\ wiped' \subseteq wiped
  BY DEF Discard
<1>2. /\ NamesTyped'
      /\ \A f \in Files : /\ partial'[f] = partial[f] \/ partial'[f] = NoInode
                          /\ final'[f] = final[f] \/ final'[f] = NoInode
  BY <1>0, <1>1, UnlinkShrinks
<1>3. RemovalTyped'
  <2>1. discards[j] - 1 \in Nat
    BY <1>0 DEF Discard, DiscardNext, TypeOK
  <2> QED
    BY <1>0, <1>1, <2>1 DEF Discard, DiscardNext, TypeOK, RemovalTyped
<1>4. synced \subseteq synced /\ synced \subseteq Inodes /\ Disk(content, synced, mixed)
  BY <1>0 DEF TypeOK, Discard
<1>5. CASE Runs(j, "discard", "none", NoInode, <<>>)
  BY <1>2, <1>3, <1>4, <1>5, QuietTask
<1>6. CASE /\ handle' = [handle EXCEPT ![j] = NoInode]
           /\ hash' = [hash EXCEPT ![j] = <<>>]
           /\ UNCHANGED <<tabVars, file, phase, reply, tasks>>
  <2>1. TypeOK'
    <3>1. <<>> \in Seq(Blocks)
      OBVIOUS
    <3>2. JobsTyped'
      BY <1>0, <1>6, <3>1 DEF TypeOK, JobsTyped
    <3>3. DiskTyped'
      BY <1>0, <1>4, DiskType DEF TypeOK, DiskTyped
    <3>4. TabsTyped'
      BY <1>0, <1>6 DEF TypeOK, TabsTyped, tabVars
    <3> QED
      BY <1>2, <1>3, <3>2, <3>3, <3>4 DEF TypeOK, TabsTyped, JobsTyped, NamesTyped,
         DiskTyped, RemovalTyped
  <2>2. /\ handle'[j] = NoInode
        /\ \A k \in Jobs \ {j} : handle'[k] = handle[k] /\ hash'[k] = hash[k]
    BY <1>0, <1>6 DEF TypeOK
  <2>3. QueueShape'
    BY <1>0, <1>6, <2>2 DEF QueueShape, JobShape
  <2>4. JobsAreOwned'
    BY <1>0, <1>6 DEF JobsAreOwned, tabVars
  <2>5. Shrinks
    <3>1. \A i \in Inodes : i \in Linked' =>
             /\ content'[i] = content[i]
             /\ i \in synced => i \in synced'
             /\ i \in mixed' <=> i \in mixed
      BY <1>4, DiskShrinks
    <3>2. \A k \in Jobs : Trusted(k)' => Trusted(k)
      BY <1>6 DEF Trusted
    <3> QED
      BY <1>2, <1>6, <2>2, <3>1, <3>2 DEF Shrinks
  <2> QED
    BY <1>0, <2>1, <2>3, <2>4, <2>5, ShrinkStep DEF DownloadInv, DiskSafe
<1> QED
  BY <1>5, <1>6 DEF Discard, DiscardNext

------------------------------------------------------------------------------
(* The theorems.                                                           *)

\* Every step preserves the invariant.
LEMMA NextInv ==
  ASSUME DownloadInv, [Next]_vars
  PROVE  DownloadInv'
<1>1. ASSUME NEW t \in Tabs, Network(t)
      PROVE  DownloadInv'
  <2>1. CASE OnNetworkError(t)
    BY <2>1, FailAction DEF OnNetworkError
  <2> QED
    BY <1>1, <2>1, ResponseAction, ReceiveActions DEF Network
<1>2. ASSUME NEW t \in Tabs, Reply(t)
      PROVE  DownloadInv'
  BY <1>2, PageActions, PlannedAction, OpenedAction, WrittenAction, FinishedAction
     DEF Reply
<1>3. ASSUME NEW t \in Tabs, \/ HandleDownloadModel(t) \/ HandleCancelDownload(t)
                             \/ HandleDeleteModel(t) \/ CloseTab(t) \/ OnJavascriptDisallowed(t)
      PROVE  DownloadInv'
  BY <1>3, PageActions, CancelAction, AskDeleteAction, LeaveActions
<1>4. ASSUME NEW j \in Jobs, Writer(j)
      PROVE  DownloadInv'
  BY <1>4, OpenAction, TruncateAction, AppendAction, FinishAction, DiscardAction
     DEF Writer
<1>5. CASE UNCHANGED vars
  BY <1>5 DEF vars, tabVars, writerVars, diskVars, removalVars, DownloadInv, TypeOK, QueueShape,
     JobShape, JobsAreOwned, HashIsContent, Trusted, PathIsOurs, SharedIsMixed,
     OneFile, InPlaceIsClosed, InPlaceIsDurable
<1> QED
  BY <1>1, <1>2, <1>3, <1>4, <1>5, DeleteAction, CrashAction DEF Next

\* DownloadInv holds in every reachable state, for any number of pages, jobs
\* and blocks, whatever servers answer, the disk refuses and crashes interrupt.
THEOREM DownloadInvariant == Spec => []DownloadInv
<1>1. Init => DownloadInv
  BY InitInv
<1>2. DownloadInv /\ [Next]_vars => DownloadInv'
  BY NextInv
<1> QED
  BY <1>1, <1>2, PTL DEF Spec

\* Every variable of ModelDownloadJob, its Writer and the page keeps its type.
THEOREM TypeCorrect == Spec => []TypeOK
<1>1. DownloadInv => TypeOK
  BY DEF DownloadInv
<1> QED
  BY <1>1, DownloadInvariant, PTL

\* What Finish() has moved into place is what the registry pins, unless two
\* jobs had the file open at once.
THEOREM InPlacePinned == Spec => []InPlaceIsPinned
<1>1. DownloadInv => InPlaceIsPinned
  BY DEF DownloadInv, InPlaceIsDurable, InPlaceIsPinned
<1> QED
  BY <1>1, DownloadInvariant, PTL

------------------------------------------------------------------------------
(* Cancelling.                                                             *)

\* DownloadUnitPaths() leaves out no path of the unit.
LEMMA UnitPathsCover ==
  ASSUME NEW p \in Paths
  PROVE  \E n \in 1..(2 * UnitSize) : p = DownloadUnitPaths[n]
<1>0. PICK k \in {"final", "partial"}, f \in Files : p = <<k, f>>
  BY DEF Paths
<1>1. CASE UnitSize = 1
  <2>1. /\ DownloadUnitPaths[1] = <<"final", 1>>
        /\ DownloadUnitPaths[2] = <<"partial", 1>>
    BY <1>1 DEF DownloadUnitPaths
  <2>2. f = 1 /\ 1 \in 1..(2 * UnitSize) /\ 2 \in 1..(2 * UnitSize)
    BY <1>1 DEF Files
  <2> QED
    BY <1>0, <2>1, <2>2
<1>2. CASE UnitSize = 2
  <2>1. /\ DownloadUnitPaths[1] = <<"final", 1>>
        /\ DownloadUnitPaths[2] = <<"partial", 1>>
        /\ DownloadUnitPaths[3] = <<"final", 2>>
        /\ DownloadUnitPaths[4] = <<"partial", 2>>
    BY <1>2 DEF DownloadUnitPaths
  <2>2. /\ f = 1 \/ f = 2
        /\ 1 \in 1..(2 * UnitSize) /\ 2 \in 1..(2 * UnitSize)
        /\ 3 \in 1..(2 * UnitSize) /\ 4 \in 1..(2 * UnitSize)
    BY <1>2 DEF Files
  <2> QED
    BY <1>0, <2>1, <2>2
<1> QED
  BY <1>1, <1>2, UnitAssumption

\* The Discard() of j has still to come to the path p.
StillToDelete(j, p) ==
  \E n \in 1..(2 * UnitSize) :
    n >= 1 + 2 * UnitSize - discards[j] /\ p = DownloadUnitPaths[n]

\* The last task of the Writer j, and only the last, is a Discard(), which has
\* not begun before its turn and will come to every path that is still there.
WillDiscard(j) ==
  /\ AtWork = {j} /\ phase[j] = "gone"
  /\ tasks[j] # <<>> /\ tasks[j][Len(tasks[j])] = "discard"
  /\ \A n \in 1..(Len(tasks[j]) - 1) : tasks[j][n] # "discard"
  /\ discards[j] \in 1..(1 + 2 * UnitSize)
  /\ Head(tasks[j]) # "discard" => discards[j] = 1 + 2 * UnitSize
  /\ \A p \in wiped : There(p) => StillToDelete(j, p)

\* What is promised to be gone is gone, or will be.
Wiping ==
  wiped # {} =>
    \/ AtWork = {} /\ \A p \in wiped : ~There(p)
    \/ \E j \in Jobs : WillDiscard(j)

\* While something is promised, no page has a job.
LEMMA WipingNoJob ==
  ASSUME DownloadInv, Wiping, wiped # {}, NEW t \in Tabs
  PROVE  step[t] # "job"
<1>1. SUFFICES ASSUME step[t] = "job" PROVE FALSE
  OBVIOUS
<1>2. job[t] \in AtWork /\ phase[job[t]] # "gone"
  BY <1>1, InvParts DEF JobsAreOwned, AtWork
<1> QED
  BY <1>2 DEF Wiping, WillDiscard

\* A step that adds no name puts nothing at a path.
LEMMA ThereShrinks ==
  ASSUME NEW p \in Paths, There(p)',
         \A f \in Files : /\ partial'[f] = partial[f] \/ partial'[f] = NoInode
                          /\ final'[f] = final[f] \/ final'[f] = NoInode
  PROVE  There(p)
<1>1. p[2] \in Files
  BY DEF Paths
<1> QED
  BY <1>1 DEF There

\* A step that leaves the jobs alone and adds no name.
LEMMA WipingFrame ==
  ASSUME DownloadInv, Wiping, UNCHANGED <<phase, tasks, discards, wiped>>,
         \A f \in Files : /\ partial'[f] = partial[f] \/ partial'[f] = NoInode
                          /\ final'[f] = final[f] \/ final'[f] = NoInode
  PROVE  Wiping'
<1>1. AtWork' = AtWork
  BY DEF AtWork
<1>2. \A p \in wiped : There(p)' => There(p)
  BY InvParts, ThereShrinks DEF TypeOK
<1>3. \A j, p : StillToDelete(j, p)' <=> StillToDelete(j, p)
  BY DEF StillToDelete, DownloadUnitPaths
<1>4. \A j \in Jobs : WillDiscard(j) => WillDiscard(j)'
  BY <1>1, <1>2, <1>3 DEF WillDiscard
<1> QED
  BY <1>1, <1>2, <1>4 DEF Wiping

\* A Writer that works while something is promised is the one that will discard.
LEMMA WipingWriter ==
  ASSUME DownloadInv, Wiping, wiped # {}, NEW j \in Jobs, tasks[j] # <<>>
  PROVE  WillDiscard(j)
<1>1. j \in AtWork
  BY InvParts DEF AtWork, QueueShape, JobShape
<1> QED
  BY <1>1 DEF Wiping, WillDiscard

\* The tasks before Discard(), a rename among them: all of it is still to come.
LEMMA WipingTransfers ==
  ASSUME DownloadInv, Wiping, NEW j \in Jobs, NEW k, NEW r, NEW h, NEW d,
         k # "discard", Transfers(j, k, r, h, d)
  PROVE  Wiping'
<1>0. TypeOK
  BY InvParts
<1>1. /\ Runs(j, k, r, h, d) /\ discards' = discards /\ wiped' = wiped
      /\ tasks[j] # <<>> /\ tasks[j] \in Seq(Tasks) /\ Head(tasks[j]) = k
  BY <1>0 DEF Transfers, Runs, removalVars, TypeOK
<1> SUFFICES ASSUME wiped # {} PROVE WillDiscard(j)'
  BY <1>1 DEF Wiping
<1>2. WillDiscard(j)
  BY <1>1, WipingWriter
<1> DEFINE q == tasks[j]
<1>3. /\ tasks'[j] = Tail(q)
      /\ phase'[j] = IF Len(q) = 1 THEN "free" ELSE "gone"
      /\ \A l \in Jobs \ {j} : phase'[l] = phase[l]
  BY <1>0, <1>1, <1>2 DEF Runs, TypeOK, WillDiscard
<1>4. /\ q[Len(q)] = "discard"
      /\ \A n \in 1..(Len(q) - 1) : q[n] # "discard"
  BY <1>2 DEF WillDiscard
<1>5. q \in Seq(Tasks) /\ q # <<>> /\ Head(q) = k
  BY <1>1
<1> HIDE DEF q
<1>6. /\ Len(q) \in Nat \ {0} /\ q[1] = k
      /\ Tail(q) \in Seq(Tasks)
      /\ Len(Tail(q)) = Len(q) - 1
      /\ \A n \in 1..Len(Tail(q)) : Tail(q)[n] = q[n + 1]
  BY <1>5, HeadTailProperties, EmptySeq
<1>7. Len(q) >= 2
  BY <1>4, <1>6
<1>8. AtWork' = {j} /\ phase'[j] = "gone"
  BY <1>2, <1>3, <1>6, <1>7 DEF AtWork, WillDiscard
<1>9. /\ Tail(q)[Len(Tail(q))] = "discard"
      /\ \A n \in 1..(Len(Tail(q)) - 1) : Tail(q)[n] # "discard"
  BY <1>4, <1>6, <1>7
<1>10. Tail(q) # <<>>
  <2>1. Len(Tail(q)) # 0
    BY <1>6, <1>7
  <2> QED
    BY <2>1, Len(<<>>) = 0
<1>11. discards[j] = 1 + 2 * UnitSize
  BY <1>1, <1>2 DEF WillDiscard
<1>12. \A p \in wiped : StillToDelete(j, p)'
  <2> SUFFICES ASSUME NEW p \in wiped PROVE StillToDelete(j, p)'
    OBVIOUS
  <2>1. PICK n \in 1..(2 * UnitSize) : p = DownloadUnitPaths[n]
    BY <1>0, UnitPathsCover DEF TypeOK
  <2>2. n >= 1 + 2 * UnitSize - discards'[j]
    BY <1>1, <1>11, UnitAssumption
  <2>3. DownloadUnitPaths' = DownloadUnitPaths
    BY DEF DownloadUnitPaths
  <2> QED
    BY <2>1, <2>2, <2>3 DEF StillToDelete
<1>13. discards'[j] \in 1..(1 + 2 * UnitSize) /\ discards'[j] = 1 + 2 * UnitSize
  BY <1>1, <1>11, UnitAssumption
<1> QED
  BY <1>1, <1>3, <1>8, <1>9, <1>10, <1>12, <1>13 DEF WillDiscard

\* Discard() itself: each path it comes to is gone, or no longer promised.
LEMMA WipingDiscard ==
  ASSUME DownloadInv, Wiping, NEW j \in Jobs, Discard(j)
  PROVE  Wiping'
<1>0. TypeOK
  BY InvParts
<1>1. PICK p \in Paths : /\ p = DiscardPath(j) /\ Unlink(p)
                         /\ wiped' = IF There(p)' THEN wiped \ {p} ELSE wiped
  BY DEF Discard
<1>2. SUFFICES ASSUME wiped' # {} PROVE Wiping'
  BY DEF Wiping
<1>3. /\ wiped # {} /\ wiped' \subseteq wiped /\ wiped \subseteq Paths
      /\ \A x \in wiped' : There(x)' => x # p
  BY <1>0, <1>1, <1>2 DEF TypeOK
<1>4. tasks[j] # <<>> /\ Head(tasks[j]) = "discard" /\ discards[j] > 0
  BY DEF Discard, DiscardNext, Runs
<1>5. WillDiscard(j)
  BY <1>3, <1>4, WipingWriter
<1>6. Len(tasks[j]) = 1
  <2>1. tasks[j] \in Seq(Tasks)
    BY <1>0 DEF TypeOK
  <2>2. Len(tasks[j]) \in Nat \ {0} /\ tasks[j][1] = "discard"
    BY <1>4, <2>1, HeadTailProperties, EmptySeq
  <2>3. \A n \in 1..(Len(tasks[j]) - 1) : tasks[j][n] # "discard"
    BY <1>5 DEF WillDiscard
  <2>4. \A m \in Nat \ {0} : m = 1 \/ 1 \in 1..(m - 1)
    BY SMT
  <2>5. Len(tasks[j]) = 1 \/ 1 \in 1..(Len(tasks[j]) - 1)
    BY <2>2, <2>4
  <2> QED
    BY <2>2, <2>3, <2>5
<1>7. \A x \in wiped' : There(x)' =>
        \E n \in 1..(2 * UnitSize) :
          n > 1 + 2 * UnitSize - discards[j] /\ x = DownloadUnitPaths[n]
  <2> SUFFICES ASSUME NEW x \in wiped', There(x)'
               PROVE  \E n \in 1..(2 * UnitSize) :
                        n > 1 + 2 * UnitSize - discards[j] /\ x = DownloadUnitPaths[n]
    OBVIOUS
  <2>1. There(x) /\ x \in wiped
    BY <1>0, <1>1, <1>3, UnlinkShrinks, ThereShrinks
  <2>2. PICK n \in 1..(2 * UnitSize) :
          n >= 1 + 2 * UnitSize - discards[j] /\ x = DownloadUnitPaths[n]
    BY <1>5, <2>1 DEF WillDiscard, StillToDelete
  <2>3. n # 1 + 2 * UnitSize - discards[j]
    <3>1. SUFFICES ASSUME n = 1 + 2 * UnitSize - discards[j] PROVE FALSE
      OBVIOUS
    <3>2. n # 0
      OBVIOUS
    <3>3. p = DownloadUnitPaths[n]
      BY <1>1, <3>1, <3>2 DEF DiscardPath
    <3> QED
      BY <1>3, <2>2, <3>3
  <2>4. discards[j] \in Nat /\ UnitSize \in Nat
    BY <1>0, UnitAssumption DEF TypeOK
  <2> QED
    BY <2>2, <2>3, <2>4
<1>8. CASE discards[j] = 1
  <2>1. Runs(j, "discard", "none", NoInode, <<>>)
    BY <1>8 DEF Discard, DiscardNext
  <2>2. phase'[j] = "free" /\ \A l \in Jobs \ {j} : phase'[l] = phase[l]
    BY <1>0, <1>5, <1>6, <2>1 DEF Runs, TypeOK, WillDiscard
  <2>3. AtWork' = {}
    BY <1>5, <2>2 DEF AtWork, WillDiscard
  <2>4. \A x \in wiped' : ~There(x)'
    BY <1>7, <1>8, UnitAssumption
  <2> QED
    BY <2>3, <2>4 DEF Wiping
<1>9. CASE discards[j] # 1
  <2>1. /\ UNCHANGED <<phase, tasks>>
        /\ discards'[j] = discards[j] - 1
    BY <1>0, <1>9 DEF Discard, DiscardNext, TypeOK
  <2>2. discards[j] \in 1..(1 + 2 * UnitSize) /\ UnitSize \in Nat
    BY <1>5, UnitAssumption DEF WillDiscard
  <2>3. discards'[j] \in 1..(1 + 2 * UnitSize)
    BY <1>9, <2>1, <2>2
  <2>4. DownloadUnitPaths' = DownloadUnitPaths
    BY DEF DownloadUnitPaths
  <2>5. \A x \in wiped' : There(x)' => StillToDelete(j, x)'
    <3> SUFFICES ASSUME NEW x \in wiped', There(x)' PROVE StillToDelete(j, x)'
      OBVIOUS
    <3>1. PICK n \in 1..(2 * UnitSize) :
            n > 1 + 2 * UnitSize - discards[j] /\ x = DownloadUnitPaths[n]
      BY <1>7
    <3>2. n >= 1 + 2 * UnitSize - discards'[j]
      BY <2>1, <2>2, <3>1
    <3> QED
      BY <2>4, <3>1, <3>2 DEF StillToDelete
  <2>6. AtWork' = AtWork
    BY <2>1 DEF AtWork
  <2>7. WillDiscard(j)'
    BY <1>4, <1>5, <2>1, <2>3, <2>5, <2>6 DEF WillDiscard
  <2> QED
    BY <2>7 DEF Wiping
<1> QED
  BY <1>8, <1>9

\* HandleCancelDownload(): Discard() is posted behind what is queued.
LEMMA WipingCancel ==
  ASSUME DownloadInv, NEW t \in Tabs, HandleCancelDownload(t)
  PROVE  Wiping'
<1>0. TypeOK /\ QueueShape
  BY InvParts
<1> PICK j : j = job[t]
  OBVIOUS
<1>1. step[t] = "job" /\ j \in Jobs /\ phase[j] \notin {"free", "gone"}
  BY InvParts DEF HandleCancelDownload, JobsAreOwned
<1> SUFFICES ASSUME wiped' # {} PROVE WillDiscard(j)'
  BY <1>1 DEF Wiping
<1>2. AtWork = {j} /\ wiped' = Paths
  BY DEF HandleCancelDownload
<1> DEFINE left == tasks[j] \o <<"discard">>
<1>3. /\ tasks'[j] = left
      /\ phase'[j] = IF left = <<>> THEN "free" ELSE "gone"
      /\ \A l \in Jobs \ {j} : phase'[l] = phase[l]
      /\ discards'[j] = 1 + 2 * UnitSize
  BY <1>0, <1>1 DEF HandleCancelDownload, EndJob, TypeOK
<1>4. <<"discard">> \in Seq(Tasks) /\ tasks[j] \in Seq(Tasks)
  BY <1>0, <1>1 DEF Tasks, TypeOK
<1>5. /\ left \in Seq(Tasks) /\ Len(left) = Len(tasks[j]) + 1
      /\ left[Len(tasks[j]) + 1] = "discard"
      /\ Len(tasks[j]) \in Nat
      /\ \A n \in 1..Len(tasks[j]) : left[n] = tasks[j][n]
  <2>1. /\ left \in Seq(Tasks) /\ Len(left) = Len(tasks[j]) + Len(<<"discard">>)
        /\ \A n \in 1..(Len(tasks[j]) + Len(<<"discard">>)) :
             left[n] = IF n <= Len(tasks[j]) THEN tasks[j][n]
                       ELSE <<"discard">>[n - Len(tasks[j])]
    BY <1>4, ConcatProperties
  <2>2. Len(<<"discard">>) = 1 /\ Len(tasks[j]) \in Nat /\ <<"discard">>[1] = "discard"
    BY <1>4, LenProperties
  <2> QED
    BY <2>1, <2>2
<1>6. \A n \in 1..Len(tasks[j]) : tasks[j][n] # "discard"
  <2>1. tasks[j] \in LiveQueues
    BY <1>0, <1>1, LiveQueue DEF QueueShape
  <2>2. \A q \in {<<>>, <<"open">>, <<"truncate">>, <<"finish">>, <<"truncate", "finish">>} :
          \A n \in 1..Len(q) : q[n] # "discard"
    OBVIOUS
  <2>3. ASSUME NEW b \in Blocks, NEW q, q = <<b>> \/ q = <<"truncate", b>>
        PROVE  \A n \in 1..Len(q) : q[n] # "discard"
    <3>1. b # "discard"
      BY DEF Blocks
    <3> QED
      BY <2>3, <3>1
  <2> QED
    BY <2>1, <2>2, <2>3 DEF LiveQueues
<1> HIDE DEF left
<1>7. left # <<>>
  BY <1>5, Len(<<>>) = 0
<1>8. AtWork' = {j} /\ phase'[j] = "gone"
  BY <1>1, <1>2, <1>3, <1>7 DEF AtWork
<1>9. /\ left[Len(left)] = "discard"
      /\ \A n \in 1..(Len(left) - 1) : left[n] # "discard"
  BY <1>5, <1>6
<1>10. discards'[j] \in 1..(1 + 2 * UnitSize) /\ discards'[j] = 1 + 2 * UnitSize
  BY <1>3, UnitAssumption
<1>11. \A p \in wiped' : StillToDelete(j, p)'
  <2> SUFFICES ASSUME NEW p \in Paths PROVE StillToDelete(j, p)'
    BY <1>2
  <2>1. PICK n \in 1..(2 * UnitSize) : p = DownloadUnitPaths[n]
    BY UnitPathsCover
  <2>2. n >= 1 + 2 * UnitSize - discards'[j]
    BY <1>3, UnitAssumption
  <2>3. DownloadUnitPaths' = DownloadUnitPaths
    BY DEF DownloadUnitPaths
  <2> QED
    BY <2>1, <2>2, <2>3 DEF StillToDelete
<1> QED
  BY <1>3, <1>7, <1>8, <1>9, <1>10, <1>11 DEF WillDiscard

\* Every step preserves Wiping.
LEMMA NextWiping ==
  ASSUME DownloadInv, Wiping, [Next]_vars
  PROVE  Wiping'
<1>0. TypeOK
  BY InvParts
<1>1. ASSUME NEW t \in Tabs, step[t] = "job", UNCHANGED wiped
      PROVE  Wiping'
  BY <1>1, WipingNoJob DEF Wiping
<1>2. ASSUME NEW t \in Tabs, Network(t)
      PROVE  Wiping'
  <2>1. step[t] = "job" /\ UNCHANGED wiped
    BY ZenonT(60), <1>2 DEF Network, OnResponseStarted, OnDataReceived, OnComplete,
       OnNetworkError, Answered, Fail, removalVars
  <2> QED
    BY <1>1, <2>1
<1>3. ASSUME NEW t \in Tabs, OnPartialOpened(t) \/ OnChunkWritten(t) \/ OnFinished(t)
      PROVE  Wiping'
  <2>1. step[t] = "job" /\ UNCHANGED wiped
    BY <1>3 DEF OnPartialOpened, OnChunkWritten, OnFinished, Answered, Fail, removalVars
  <2> QED
    BY <1>1, <2>1
<1>4. ASSUME NEW t \in Tabs, \/ HandleDownloadModel(t) \/ Precheck(t)
                             \/ PrecheckRefused(t) \/ FinishDownload(t)
                             \/ HandleDeleteModel(t)
      PROVE  Wiping'
  BY <1>4, WipingFrame DEF HandleDownloadModel, Precheck, PrecheckRefused,
     FinishDownload, HandleDeleteModel, diskVars, removalVars
<1>5. ASSUME NEW t \in Tabs, OnDownloadPrecheckComplete(t)
      PROVE  Wiping'
  BY <1>5 DEF OnDownloadPrecheckComplete, Wiping
<1>6. ASSUME NEW t \in Tabs, CloseTab(t) \/ OnJavascriptDisallowed(t)
      PROVE  Wiping'
  <2>1. CASE step[t] = "job"
    BY <1>1, <1>6, <2>1 DEF CloseTab, OnJavascriptDisallowed, removalVars
  <2>2. CASE step[t] # "job"
    BY <1>6, <2>2, WipingFrame DEF CloseTab, OnJavascriptDisallowed, DropJob, diskVars,
       removalVars
  <2> QED
    BY <2>1, <2>2
<1>7. CASE DeleteModel
  <2>1. \A f \in Files : /\ partial'[f] = partial[f] \/ partial'[f] = NoInode
                         /\ final'[f] = final[f] \/ final'[f] = NoInode
    BY <1>0, <1>7, DeletePathIsPath, UnlinkShrinks DEF DeleteModel
  <2> QED
    BY <1>7, <2>1, WipingFrame DEF DeleteModel
<1>8. CASE Crash
  BY <1>8 DEF Crash, Wiping
<1>9. ASSUME NEW j \in Jobs, Writer(j)
      PROVE  Wiping'
  <2>1. CASE OpenPartial(j) \/ Truncate(j) \/ Finish(j)
    BY <2>1, WipingTransfers DEF OpenPartial, Truncate, Finish
  <2>2. ASSUME NEW b \in Blocks, AppendBlock(j, b)
        PROVE  Wiping'
    <3>1. b # "discard"
      BY DEF Blocks
    <3> QED
      BY <2>2, <3>1, WipingTransfers DEF AppendBlock
  <2> QED
    BY <1>9, <2>1, <2>2, WipingDiscard DEF Writer
<1>10. CASE UNCHANGED vars
  BY <1>10, WipingFrame DEF vars, diskVars, removalVars
<1> QED
  BY <1>2, <1>3, <1>4, <1>5, <1>6, <1>7, <1>8, <1>9, <1>10, WipingCancel
     DEF Next, Reply

\* A cancelled download leaves nothing of the model but what could not be
\* deleted: Discard() is the last task of its Writer, behind any write or rename
\* that was queued, and comes to every path of the unit.
THEOREM CancelWipes == Spec => []CancelLeavesNothing
<1>1. Init => Wiping
  BY DEF Init, Wiping
<1>2. DownloadInv /\ Wiping /\ [Next]_vars => Wiping'
  BY NextWiping
<1>3. Wiping => CancelLeavesNothing
  BY DEF Wiping, WillDiscard, CancelLeavesNothing
<1> QED
  BY <1>1, <1>2, <1>3, DownloadInvariant, PTL DEF Spec
=============================================================================
