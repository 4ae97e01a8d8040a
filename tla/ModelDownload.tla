--------------------------- MODULE ModelDownload ---------------------------
(***************************************************************************)
(* Downloading one model of the registry:                                  *)
(*   chrome/browser/molt_ai/models/model_download_job.cc  (one file)       *)
(*   chrome/browser/molt_ai/models/model_download_plan.cc, download_policy.cc *)
(*   chrome/browser/ui/webui/molt_ai/molt_ai_chat_handler.cc  (the unit)   *)
(*                                                                         *)
(* A page's handler fetches the files of the unit one after the other, a   *)
(* ModelDownloadJob each.  A job lives on the UI thread; its Writer lives  *)
(* on a file sequence of the job's own, a FIFO of tasks that goes on after *)
(* the job is destroyed.  Two handlers know nothing of each other.         *)
(*                                                                         *)
(* A file is a sequence of blocks.  A block is "good" if it is what the    *)
(* registry's pin has at that place, "bad" if it is not (a hole included). *)
(* SHA-256 is ideal: a digest is the sequence of blocks hashed.  Paths and *)
(* open handles name inodes, as POSIX has it.                              *)
(***************************************************************************)
EXTENDS Naturals, Sequences, FiniteSets

CONSTANTS
  Tabs,        \* the pages' handlers
  UnitSize,    \* the unit's files: 1, the weights, or 2, with a projector
  Pinned,      \* the files with a SHA-256 and an exact size
  Size,        \* the number of blocks of each file
  Excess,      \* bound: the blocks too many a server sends
  Jobs, NoJob, \* bound: the jobs whose Writer still exists
  MaxAtWork,   \* bound: the jobs with something left to do when a download is
               \* asked for, and when a job of it begins
  Inodes, NoInode

\* A file is its index in the unit, as in DownloadPlan::to_fetch.
Files == 1..UnitSize

ASSUME UnitAssumption ==
  /\ UnitSize \in {1, 2}
  /\ Pinned \subseteq Files
  /\ UnitSize = 2 => Pinned = Files  \* CheckUnit()
  /\ Size \in [Files -> Nat \ {0}]
  /\ Excess \in Nat
  /\ Jobs \subseteq Nat /\ NoJob \notin Jobs
  /\ MaxAtWork \in Nat
  /\ Inodes \subseteq Nat /\ NoInode \notin Inodes

Blocks == {"good", "bad"}
PinnedContent(f) == [n \in 1..Size[f] |-> "good"]

VARIABLES
  \* a handler
  busy,     \* downloading_model_id_ is set
  step,     \* what the download under way waits for; "none": there is none
  queue,    \* download_queue_: the files still to fetch
  job,      \* download_job_
  \* a job
  file,     \* params_.final_path
  phase,    \* what the job waits for; "gone": destroyed, its Writer not yet
  reply,    \* the answer of the file sequence on its way to the UI thread
  tasks,    \* the tasks on file_runner_
  handle,   \* the Writer's file_: the inode it has open
  hash,     \* what hasher_ was given; its length is size_
  \* the disk
  content,  \* what an inode holds
  synced,   \* the inodes whose content would survive a power failure
  partial,  \* the inode at the path "<file>.partial"
  final,    \* the inode at the file's final path
  \* removals
  discards, \* the paths a job's Discard() has still to delete
  deletes,  \* the same of the DeleteModel() on a worker; bound: one at a time
  \* history
  mixed,    \* the inodes that were open while another job had the file open
  wiped     \* the paths to be gone when the last job, cancelled while no
            \* other was at work, is done; less those it could not delete

tabVars == <<busy, step, queue, job>>
diskVars == <<content, synced, partial, final, mixed>>
writerVars == <<handle, hash>>
removalVars == <<discards, deletes, wiped>>
vars == <<tabVars, file, phase, reply, tasks, writerVars, diskVars,
          removalVars>>

Init ==
  /\ busy = [t \in Tabs |-> FALSE]
  /\ step = [t \in Tabs |-> "none"]
  /\ queue = [t \in Tabs |-> {}]
  /\ job = [t \in Tabs |-> NoJob]
  /\ file = [j \in Jobs |-> 1]
  /\ phase = [j \in Jobs |-> "free"]
  /\ reply = [j \in Jobs |-> "none"]
  /\ tasks = [j \in Jobs |-> <<>>]
  /\ handle = [j \in Jobs |-> NoInode]
  /\ hash = [j \in Jobs |-> <<>>]
  /\ content = [i \in Inodes |-> <<>>]
  /\ synced = {}
  /\ partial = [f \in Files |-> NoInode]
  /\ final = [f \in Files |-> NoInode]
  /\ mixed = {}
  /\ discards = [j \in Jobs |-> 0]
  /\ deletes = 0
  /\ wiped = {}

------------------------------------------------------------------------------
(* What is on disk, and what a download still has to fetch.                *)

\* IsComplete(): a pinned file has exactly its size, another is not empty.
IsComplete(f) ==
  /\ final[f] # NoInode
  /\ content[final[f]] # <<>>
  /\ f \in Pinned => Len(content[final[f]]) = Size[f]

\* PlanModelDownload(): the files to fetch.
ToFetch == {f \in Files : ~IsComplete(f)}

IsUnitDownloaded == ToFetch = {}

\* The inodes with a name or a handle.  Another is gone, content and all.
Linked == {handle[j] : j \in Jobs} \cup {partial[f] : f \in Files}
            \cup {final[f] : f \in Files}

\* The disk, but for its names, becomes this.
Disk(contents, durable, shared) ==
  /\ content' = [i \in Inodes |-> IF i \in Linked' THEN contents[i] ELSE <<>>]
  /\ synced' = durable \cap Linked'
  /\ mixed' = shared \cap Linked'

\* The paths of the unit, and whether there is a file.
Paths == {"final", "partial"} \X Files
There(p) == IF p[1] = "final" THEN final[p[2]] # NoInode
                              ELSE partial[p[2]] # NoInode

\* base::DeleteFile() and std::filesystem::remove(), whose results nobody looks
\* at: the path p is gone, or it could not be deleted.
Unlink(p) ==
  \/ /\ final' = IF p[1] = "final" THEN [final EXCEPT ![p[2]] = NoInode]
                                   ELSE final
     /\ partial' = IF p[1] = "final" THEN partial
                   ELSE [partial EXCEPT ![p[2]] = NoInode]
  \/ There(p) /\ UNCHANGED <<partial, final>>

\* The jobs with something left to do, on the UI thread or on their sequence.
AtWork == {j \in Jobs : phase[j] # "free"}

------------------------------------------------------------------------------
(* A job's beginning and end on the UI thread.                             *)

\* ModelDownloadJob::Start() for the first file of the queue q: the Writer is
\* to open it.  idle are the jobs there are not.
StartJob(t, q, idle) ==
  /\ Cardinality(Jobs \ idle) < MaxAtWork
  /\ \E j \in idle, f \in q :
       /\ \A g \in q : f <= g
       /\ \A k \in idle : j <= k
       /\ job' = [job EXCEPT ![t] = j]
       /\ file' = [file EXCEPT ![j] = f]
       /\ phase' = [k \in Jobs |-> CASE k = j -> "opening"
                                     [] k # j /\ k \in idle -> "free"
                                     [] OTHER -> phase[k]]
       /\ tasks' = [tasks EXCEPT ![j] = <<"open">>]

\* file_runner_->PostTask().
Posted(j, new) == [tasks EXCEPT ![j] = @ \o new]

\* ~ModelDownloadJob(), tab t's, having posted last.  The Writer is deleted, and
\* its file closed, when what is queued has run (DeleteSoon()).
EndJob(t, last) ==
  LET j == job[t]
      left == tasks[j] \o last
  IN
  /\ phase' = [phase EXCEPT ![j] = IF left = <<>> THEN "free" ELSE "gone"]
  /\ tasks' = [tasks EXCEPT ![j] = left]
  /\ reply' = [reply EXCEPT ![j] = "none"]
  /\ handle' = [handle EXCEPT ![j] = IF left = <<>> THEN NoInode ELSE @]
  /\ hash' = [hash EXCEPT ![j] = IF left = <<>> THEN <<>> ELSE @]
  /\ UNCHANGED <<file, partial, final>>
  /\ Disk(content, synced, mixed)

\* ResetDownloadState(), but for the job.
ResetTab(t) ==
  /\ busy' = [busy EXCEPT ![t] = FALSE]
  /\ step' = [step EXCEPT ![t] = "none"]
  /\ queue' = [queue EXCEPT ![t] = {}]
  /\ job' = [job EXCEPT ![t] = NoJob]

\* Fail(): done_ runs, and OnDownloadFinished() ends the unit's download.
Fail(t, last) ==
  /\ EndJob(t, last)
  /\ ResetTab(t)
  /\ UNCHANGED removalVars

\* Tab t's job is in phase p and the file sequence has answered r.
Answered(t, p, r) ==
  /\ step[t] = "job"
  /\ phase[job[t]] = p
  /\ reply[job[t]] = r

------------------------------------------------------------------------------
(* The handler.                                                            *)

\* HandleDownloadModel(): the registry's view of the model may be stale.
HandleDownloadModel(t) ==
  /\ ~busy[t]
  /\ Cardinality(AtWork) < MaxAtWork
  /\ busy' = [busy EXCEPT ![t] = TRUE]
  /\ step' = [step EXCEPT ![t] = "precheck"]
  /\ UNCHANGED <<queue, job, file, phase, reply, tasks, writerVars,
                 diskVars,
                 removalVars>>

\* A version of Precheck() that looks at the weights only.
PrecheckWeights(t) ==
  /\ step[t] = "precheck"
  /\ step' = [step EXCEPT ![t] = "planned"]
  /\ queue' = [queue EXCEPT ![t] = IF IsComplete(1) THEN {} ELSE ToFetch]
  /\ UNCHANGED <<busy, job, file, phase, reply, tasks, writerVars,
                 diskVars,
                 removalVars>>

\* The precheck on a worker: what is there, what is missing.
Precheck(t) ==
  /\ step[t] = "precheck"
  /\ step' = [step EXCEPT ![t] = "planned"]
  /\ queue' = [queue EXCEPT ![t] = ToFetch]
  /\ UNCHANGED <<busy, job, file, phase, reply, tasks, writerVars,
                 diskVars,
                 removalVars>>

\* A version of PrecheckRefused() without the early return when every file is
\* in place.
PrecheckRefusedWithWork(t) ==
  /\ step[t] = "planned"
  /\ queue[t] # {}
  /\ ResetTab(t)
  /\ UNCHANGED <<file, phase, reply, tasks, writerVars, diskVars,
                 removalVars>>

\* OnDownloadPrecheckComplete(): refused (the license, the disk space, no
\* network), nothing to do, or the first file.
PrecheckRefused(t) ==
  /\ step[t] = "planned"
  /\ ResetTab(t)
  /\ UNCHANGED <<file, phase, reply, tasks, writerVars, diskVars,
                 removalVars>>

OnDownloadPrecheckComplete(t) ==
  /\ step[t] = "planned"
  /\ queue[t] # {}
  /\ step' = [step EXCEPT ![t] = "job"]
  /\ StartJob(t, queue[t], Jobs \ AtWork)
  /\ wiped' = {}
  /\ UNCHANGED <<busy, queue, reply, writerVars, diskVars, discards, deletes>>

\* DownloadUnitPaths(): each file and its .partial.
DownloadUnitPaths ==
  [n \in 1..(2 * UnitSize) |->
     <<IF n % 2 = 1 THEN "final" ELSE "partial", (n + 1) \div 2>>]

\* HandleCancelDownload(): the transfer stops, the rest is up to the Writer.
HandleCancelDownload(t) ==
  /\ step[t] = "job"
  /\ EndJob(t, <<"discard">>)
  /\ ResetTab(t)
  /\ discards' = [discards EXCEPT ![job[t]] = 1 + 2 * UnitSize]
  /\ wiped' = IF AtWork = {job[t]} THEN Paths ELSE {}
  /\ UNCHANGED deletes

\* HandleDeleteModel(), refused while this page downloads the model; other
\* pages are not asked, and a download may begin before the worker does.
HandleDeleteModel(t) ==
  /\ ~busy[t]
  /\ deletes = 0
  /\ deletes' = 2 * UnitSize
  /\ UNCHANGED <<tabVars, file, phase, reply, tasks, writerVars, diskVars,
                 discards, wiped>>

\* What the worker deletes next: BrowserAIRuntime::DeleteModel() the weights and
\* the projector, then its caller the .partial files.
DeletePath ==
  LET n == 2 * UnitSize - deletes + 1 IN
  IF n <= UnitSize THEN <<"final", n>> ELSE <<"partial", n - UnitSize>>

DeleteModel ==
  /\ deletes > 0
  /\ Unlink(DeletePath)
  /\ deletes' = deletes - 1
  /\ UNCHANGED <<tabVars, file, phase, reply, tasks, writerVars, discards, wiped>>
  /\ Disk(content, synced, mixed)

\* download_job_.reset(), if there is one.
DropJob(t) ==
  \/ step[t] = "job" /\ EndJob(t, <<>>)
  \/ step[t] # "job" /\ UNCHANGED <<file, phase, tasks, reply, writerVars,
                                   diskVars>>

\* ~MoltAIChatHandler(): the page closes; the name is free for another page.
CloseTab(t) ==
  /\ busy[t]
  /\ DropJob(t)
  /\ ResetTab(t)
  /\ UNCHANGED removalVars

\* OnJavascriptDisallowed(): the page is reloaded and keeps its handler.
\* The job is destroyed and the weak pointers with the callbacks are gone.
OnJavascriptDisallowed(t) ==
  /\ step[t] # "none"
  /\ DropJob(t)
  /\ step' = [step EXCEPT ![t] = "none"]
  /\ job' = [job EXCEPT ![t] = NoJob]
  /\ UNCHANGED <<busy, queue, removalVars>>

\* FinishDownload(), once RefreshModelStatus() has run on a worker.
FinishDownload(t) ==
  /\ step[t] = "refresh"
  /\ ResetTab(t)
  /\ UNCHANGED <<file, phase, reply, tasks, writerVars, diskVars,
                 removalVars>>

------------------------------------------------------------------------------
(* The job's handlers.                                                     *)

\* OnPartialOpened(): the rest of the file is asked for.
OnPartialOpened(t) ==
  \/ Answered(t, "opening", "failed") /\ Fail(t, <<>>)
  \/ LET j == job[t] IN
     /\ Answered(t, "opening", "ok")
     /\ phase' = [phase EXCEPT ![j] = "requested"]
     /\ reply' = [reply EXCEPT ![j] = "none"]
     /\ UNCHANGED <<tabVars, file, tasks, writerVars, diskVars,
                 removalVars>>

\* DecideResumeAction(), by the status and the start of the range.
DecideResumeAction(requested, status, first) ==
  CASE status = 200 -> IF requested = 0 THEN "append" ELSE "restart"
    [] status = 206 -> IF first = requested THEN "append"
                       ELSE IF first = 0 THEN "restart" ELSE "fail"
    [] OTHER -> "fail"

\* OnResponseStarted(): any answer of any server.  requested_offset_ is the
\* length OnPartialOpened() was told; nothing was queued for the Writer since.
OnResponseStarted(t, status, first) ==
  LET j == job[t]
      action == DecideResumeAction(Len(hash[j]), status, first)
  IN
  /\ Answered(t, "requested", "none")
  /\ \/ /\ action = "fail"
        /\ Fail(t, IF status \in {206, 416} THEN <<"truncate">> ELSE <<>>)
     \/ /\ action # "fail"
        /\ phase' = [phase EXCEPT ![j] = "receiving"]
        /\ tasks' = IF action = "restart" THEN Posted(j, <<"truncate">>)
                    ELSE tasks
        /\ UNCHANGED <<tabVars, file, reply, writerVars, diskVars,
                 removalVars>>

\* OnDataReceived(): the next block; the loader waits until it is written.
OnDataReceived(t, b) ==
  LET j == job[t] IN
  /\ Answered(t, "receiving", "none")
  /\ Len(hash[j]) < Size[file[j]] + Excess
  /\ phase' = [phase EXCEPT ![j] = "writing"]
  /\ tasks' = Posted(j, <<b>>)
  /\ UNCHANGED <<tabVars, file, reply, writerVars, diskVars,
                 removalVars>>

\* OnChunkWritten().
OnChunkWritten(t) ==
  \/ Answered(t, "writing", "failed") /\ Fail(t, <<>>)
  \/ LET j == job[t] IN
     /\ Answered(t, "writing", "ok")
     /\ phase' = [phase EXCEPT ![j] = "receiving"]
     /\ reply' = [reply EXCEPT ![j] = "none"]
     /\ UNCHANGED <<tabVars, file, tasks, writerVars, diskVars,
                 removalVars>>

\* OnComplete(false): a network error, before or during the body.
OnNetworkError(t) ==
  /\ step[t] = "job"
  /\ phase[job[t]] \in {"requested", "receiving"}
  /\ Fail(t, <<>>)

\* OnComplete(true): the server says that was all.
OnComplete(t) ==
  LET j == job[t] IN
  /\ Answered(t, "receiving", "none")
  /\ phase' = [phase EXCEPT ![j] = "finishing"]
  /\ tasks' = Posted(j, <<"finish">>)
  /\ UNCHANGED <<tabVars, file, reply, writerVars, diskVars,
                 removalVars>>

\* OnFinished(), OnDownloadFinished(): the next file, or the registry.
OnFinished(t) ==
  LET j == job[t]
      rest == queue[t] \ {file[j]}
  IN
  \/ Answered(t, "finishing", "failed") /\ Fail(t, <<>>)
  \/ /\ Answered(t, "finishing", "ok")
     /\ reply' = [reply EXCEPT ![j] = "none"]
     /\ queue' = [queue EXCEPT ![t] = rest]
     /\ \/ /\ rest # {}
           /\ StartJob(t, rest, (Jobs \ AtWork) \cup {j})
           /\ UNCHANGED step
        \/ /\ rest = {}
           /\ step' = [step EXCEPT ![t] = "refresh"]
           /\ job' = [job EXCEPT ![t] = NoJob]
           /\ phase' = [phase EXCEPT ![j] = "free"]
           /\ UNCHANGED <<file, tasks>>
     /\ UNCHANGED <<busy, writerVars, diskVars,
                 removalVars>>

------------------------------------------------------------------------------
(* The Writer, on the job's file sequence.                                 *)

\* The task k of job j runs and answers r, if the job is there to hear it.
\* The Writer then has h open, has hashed d, and is deleted if it was waiting
\* for this.
Runs(j, k, r, h, d) ==
  LET deleted == phase[j] = "gone" /\ Len(tasks[j]) = 1 IN
  /\ tasks[j] # <<>>
  /\ Head(tasks[j]) = k
  /\ tasks' = [tasks EXCEPT ![j] = Tail(@)]
  /\ reply' = [reply EXCEPT ![j] = IF phase[j] = "gone" THEN "none" ELSE r]
  /\ phase' = [phase EXCEPT ![j] = IF deleted THEN "free" ELSE @]
  /\ handle' = [handle EXCEPT ![j] = IF deleted THEN NoInode ELSE h]
  /\ hash' = [hash EXCEPT ![j] = IF deleted THEN <<>> ELSE d]
  /\ UNCHANGED <<tabVars, file>>

SamePaths == UNCHANGED <<partial, final>>

\* A task other than Discard() runs.
Transfers(j, k, r, h, d) == Runs(j, k, r, h, d) /\ UNCHANGED removalVars

\* The other Writers that have the file of job j open.
Others(j) == {k \in Jobs \ {j} : handle[k] # NoInode /\ file[k] = file[j]}

\* What is mixed after j has opened the inode i.
MixedBy(j, i) ==
  IF Others(j) = {} THEN mixed \ {i}
  ELSE mixed \cup {i} \cup {handle[k] : k \in Others(j)}

\* Writer::Open(): a leftover is hashed again; one as large as the pinned file,
\* or unreadable, is emptied.  It may fail, and then at most an empty file has
\* been made, which is as good as none.
OpenPartial(j) ==
  LET f == file[j]
      new == partial[f] = NoInode
  IN
  \/ Transfers(j, "open", "failed", NoInode, <<>>) /\ SamePaths
       /\ Disk(content, synced, mixed)
  \/ \E i \in Inodes :
       /\ IF new THEN i \notin Linked /\ (\A k \in Inodes \ Linked : i <= k)
          ELSE i = partial[f]
       /\ partial' = [partial EXCEPT ![f] = i]
       /\ UNCHANGED final
       /\ \/ /\ ~new
             /\ f \in Pinned => Len(content[i]) < Size[f]
             /\ Transfers(j, "open", "ok", i, content[i])
             /\ Disk(content, synced, MixedBy(j, i))
          \/ /\ Transfers(j, "open", "ok", i, <<>>)
             /\ Disk([content EXCEPT ![i] = <<>>], synced \ {i}, MixedBy(j, i))

\* A version of Truncate() that forgets size_ and hasher_.
TruncateKeepsHash(j) ==
  LET i == handle[j] IN
  \/ /\ Transfers(j, "truncate", reply[j], i, hash[j]) /\ SamePaths
     /\ Disk(content, synced, mixed)
  \/ /\ i # NoInode
     /\ Transfers(j, "truncate", reply[j], i, hash[j]) /\ SamePaths
     /\ Disk([content EXCEPT ![i] = <<>>], synced \ {i}, mixed)

\* Writer::Truncate(), its result ignored: done, or not.
Truncate(j) ==
  LET i == handle[j] IN
  \/ /\ Transfers(j, "truncate", reply[j], i, hash[j]) /\ SamePaths
     /\ Disk(content, synced, mixed)
  \/ /\ i # NoInode
     /\ Transfers(j, "truncate", reply[j], i, <<>>) /\ SamePaths
     /\ Disk([content EXCEPT ![i] = <<>>], synced \ {i}, mixed)

\* A block written at place n: what was beyond the end before it is a hole.
Written(c, n, b) ==
  [m \in 1..(IF n > Len(c) THEN n ELSE Len(c)) |->
     IF m = n THEN b ELSE IF m <= Len(c) THEN c[m] ELSE "bad"]

\* Writer::Append(): at the Writer's own end of the file.  A write that fails
\* may have reached the disk; it is not hashed.
AppendBlock(j, b) ==
  LET i == handle[j]
      n == Len(hash[j]) + 1
  IN
  \/ /\ Transfers(j, b, "failed", i, hash[j]) /\ SamePaths
     /\ Disk(content, synced, mixed)
  \/ /\ i # NoInode
     /\ \/ Transfers(j, b, "ok", i, Append(hash[j], b)) /\ SamePaths
        \/ Transfers(j, b, "failed", i, hash[j]) /\ SamePaths
     /\ Disk([content EXCEPT ![i] = Written(@, n, b)], synced \ {i}, mixed)

\* A version of VerifyDownload() that compares the sizes only.
VerifyDownloadSize(j) ==
  file[j] \in Pinned => Len(hash[j]) = Size[file[j]]

\* VerifyDownload(): the size and the running hash against the pin.
VerifyDownload(j) ==
  file[j] \in Pinned => hash[j] = PinnedContent(file[j])

\* A version of Finish() that does not flush.
FinishUnflushed(j) ==
  LET f == file[j]
      i == handle[j]
  IN
  \/ /\ Transfers(j, "finish", "failed", i, hash[j]) /\ SamePaths
     /\ Disk(content, synced, mixed)
  \/ /\ i # NoInode
     /\ VerifyDownload(j)
     /\ partial[f] # NoInode
     /\ Transfers(j, "finish", "ok", NoInode, <<>>)
     /\ final' = [final EXCEPT ![f] = partial[f]]
     /\ partial' = [partial EXCEPT ![f] = NoInode]
     /\ Disk(content, synced, mixed)

\* Writer::Finish(): flush, close, verify, move into place what is at the
\* .partial path.  What does not verify is deleted; either may fail.
Finish(j) ==
  LET f == file[j]
      i == handle[j]
  IN
  \/ /\ Transfers(j, "finish", "failed", i, hash[j]) /\ SamePaths
     /\ Disk(content, synced, mixed)
  \/ /\ i # NoInode
     /\ \/ /\ ~VerifyDownload(j)
           /\ Transfers(j, "finish", "failed", NoInode, <<>>)
           /\ partial' = [partial EXCEPT ![f] = NoInode]
           /\ UNCHANGED final
        \/ Transfers(j, "finish", "failed", NoInode, <<>>) /\ SamePaths
        \/ /\ VerifyDownload(j)
           /\ partial[f] # NoInode
           /\ Transfers(j, "finish", "ok", NoInode, <<>>)
           /\ final' = [final EXCEPT ![f] = partial[f]]
           /\ partial' = [partial EXCEPT ![f] = NoInode]
     /\ Disk(content, synced \cup {i}, mixed)

\* Writer::Discard(): the .partial file, then all of DownloadUnitPaths().
DiscardPath(j) ==
  LET n == 1 + 2 * UnitSize - discards[j] IN
  IF n = 0 THEN <<"partial", file[j]>> ELSE DownloadUnitPaths[n]

\* One path of it.  The file is closed first; the task ends with the last path.
\* Other sequences, and a stop of the browser, come in between.
DiscardNext(j) ==
  /\ discards[j] > 0
  /\ \/ /\ discards[j] = 1
        /\ Runs(j, "discard", "none", NoInode, <<>>)
     \/ /\ discards[j] > 1
        /\ tasks[j] # <<>> /\ Head(tasks[j]) = "discard"
        /\ handle' = [handle EXCEPT ![j] = NoInode]
        /\ hash' = [hash EXCEPT ![j] = <<>>]
        /\ UNCHANGED <<tabVars, file, phase, reply, tasks>>
  /\ discards' = [discards EXCEPT ![j] = @ - 1]
  /\ UNCHANGED deletes

\* A version of Discard() without the other files of the unit.
DiscardPartialOnly(j) ==
  /\ DiscardNext(j)
  /\ IF DiscardPath(j) = <<"partial", file[j]>> THEN Unlink(DiscardPath(j))
     ELSE SamePaths
  /\ UNCHANGED wiped
  /\ Disk(content, synced, mixed)

Discard(j) ==
  /\ DiscardNext(j)
  /\ \E p \in Paths :
       /\ p = DiscardPath(j)
       /\ Unlink(p)
       /\ wiped' = IF There(p)' THEN wiped \ {p} ELSE wiped
  /\ Disk(content, synced, mixed)

------------------------------------------------------------------------------
(* Stops of the browser, and the specification.                            *)

\* The browser exits or dies, its tasks with it (SKIP_ON_SHUTDOWN), or the
\* machine does: then a file that was not flushed may hold anything.
Crash ==
  /\ busy' = [t \in Tabs |-> FALSE]
  /\ step' = [t \in Tabs |-> "none"]
  /\ queue' = [t \in Tabs |-> {}]
  /\ job' = [t \in Tabs |-> NoJob]
  /\ phase' = [j \in Jobs |-> "free"]
  /\ reply' = [j \in Jobs |-> "none"]
  /\ tasks' = [j \in Jobs |-> <<>>]
  /\ handle' = [j \in Jobs |-> NoInode]
  /\ hash' = [j \in Jobs |-> <<>>]
  /\ discards' = [j \in Jobs |-> 0]
  /\ deletes' = 0
  /\ wiped' = {}
  /\ UNCHANGED <<file, partial, final>>
  /\ \/ Disk(content, synced, mixed)
     \/ Disk([i \in Inodes |->
               IF i \in synced THEN content[i]
               ELSE [n \in 1..Len(content[i]) |-> "bad"]], synced, mixed)

\* What the page's job hears from the network.
Network(t) ==
  \/ \E status \in {200, 206, 416, 500}, first \in UNION {0..Size[f] : f \in Files} :
       OnResponseStarted(t, status, first)
  \/ \E b \in Blocks : OnDataReceived(t, b)
  \/ OnComplete(t)
  \/ OnNetworkError(t)

\* What the page's download hears from the workers.
Reply(t) ==
  \/ Precheck(t)
  \/ PrecheckRefused(t)
  \/ OnDownloadPrecheckComplete(t)
  \/ FinishDownload(t)
  \/ OnPartialOpened(t)
  \/ OnChunkWritten(t)
  \/ OnFinished(t)

Writer(j) ==
  \/ OpenPartial(j)
  \/ Truncate(j)
  \/ \E b \in Blocks : AppendBlock(j, b)
  \/ Finish(j)
  \/ Discard(j)

Next ==
  \/ \E t \in Tabs :
       \/ HandleDownloadModel(t)
       \/ HandleCancelDownload(t)
       \/ HandleDeleteModel(t)
       \/ CloseTab(t)
       \/ OnJavascriptDisallowed(t)
       \/ Network(t)
       \/ Reply(t)
  \/ \E j \in Jobs : Writer(j)
  \/ DeleteModel
  \/ Crash

Spec == Init /\ [][Next]_vars

\* The UI thread and the thread pool run what is posted to them.  Nothing is
\* assumed of the network: the loader has no timeout, and a body no end.
FairSpec ==
  /\ Spec
  /\ \A t \in Tabs : WF_vars(Reply(t))
  /\ \A j \in Jobs : WF_vars(Writer(j))

------------------------------------------------------------------------------
(* Properties.                                                             *)

Phases == {"free", "opening", "requested", "receiving", "writing",
           "finishing", "gone"}
Tasks == Blocks \cup {"open", "truncate", "finish", "discard"}

\* Every variable has its type.
TypeOK ==
  /\ busy \in [Tabs -> BOOLEAN]
  /\ step \in [Tabs -> {"none", "precheck", "planned", "job", "refresh"}]
  /\ queue \in [Tabs -> SUBSET Files]
  /\ job \in [Tabs -> Jobs \cup {NoJob}]
  /\ file \in [Jobs -> Files]
  /\ phase \in [Jobs -> Phases]
  /\ reply \in [Jobs -> {"none", "ok", "failed"}]
  /\ tasks \in [Jobs -> Seq(Tasks)]
  /\ handle \in [Jobs -> Inodes \cup {NoInode}]
  /\ hash \in [Jobs -> Seq(Blocks)]
  /\ content \in [Inodes -> Seq(Blocks)]
  /\ synced \subseteq Inodes
  /\ partial \in [Files -> Inodes \cup {NoInode}]
  /\ final \in [Files -> Inodes \cup {NoInode}]
  /\ mixed \subseteq Inodes
  /\ discards \in [Jobs -> Nat]
  /\ deletes \in 0..(2 * UnitSize)
  /\ wiped \subseteq Paths

\* A pinned file in place has the pinned content, after crashes, resumed
\* transfers, servers that answer anything and failing disks, provided that
\* no two jobs had the file open at once.
InPlaceIsPinned ==
  \A f \in Pinned :
    (final[f] # NoInode /\ final[f] \notin mixed) =>
      content[final[f]] = PinnedContent(f)

------------------------------------------------------------------------------
(* Why: the inductive invariant.                                           *)

\* One request of the job to its file sequence is under way at a time, behind
\* at most one Truncate(); what was destroyed has something left to run.
FinishQueues == {<<"finish">>, <<"truncate", "finish">>,
                 <<"finish", "discard">>, <<"truncate", "finish", "discard">>}

JobShape(j) ==
  LET q == tasks[j]
      p == phase[j]
      waits == {"opening", "writing", "finishing"}
  IN
  /\ reply[j] # "none" => p \in waits /\ q = <<>>
  /\ p = "free" => q = <<>> /\ handle[j] = NoInode
  /\ p = "opening" => reply[j] # "none" \/ q = <<"open">>
  /\ p = "requested" => q = <<>>
  /\ p = "receiving" => q = <<>> \/ q = <<"truncate">>
  /\ p = "writing" => reply[j] # "none"
       \/ (\E b \in Blocks : q = <<b>> \/ q = <<"truncate", b>>)
  /\ p = "finishing" => reply[j] # "none"
       \/ q = <<"finish">> \/ q = <<"truncate", "finish">>
  /\ p = "finishing" /\ reply[j] = "ok" => handle[j] = NoInode
  /\ p = "gone" =>
       /\ q # <<>>
       /\ q \in FinishQueues \/ (\A n \in 1..Len(q) : q[n] # "finish")

QueueShape == \A j \in Jobs : JobShape(j)

\* A page's job is there, and its own.
JobsAreOwned ==
  /\ \A t \in Tabs : step[t] = "job" =>
       job[t] \in Jobs /\ phase[job[t]] \notin {"free", "gone"}
  /\ \A t, u \in Tabs : step[t] = "job" /\ step[u] = "job" /\ t # u =>
       job[t] # job[u]

\* The Writer of j has not failed to write, or will not be asked to finish.
Trusted(j) ==
  /\ phase[j] = "writing" => reply[j] # "failed"
  /\ phase[j] = "gone" => tasks[j] \in FinishQueues

\* The running hash is that of the file.
HashIsContent ==
  \A j \in Jobs :
    (handle[j] # NoInode /\ handle[j] \notin mixed /\ Trusted(j)) =>
      hash[j] = content[handle[j]]

\* What a Writer would move into place is what it has open.
PathIsOurs ==
  \A j \in Jobs :
    (handle[j] # NoInode /\ partial[file[j]] # NoInode) =>
      partial[file[j]] = handle[j] \/ partial[file[j]] \in mixed

\* Two Writers of a file are never overlooked.
SharedIsMixed ==
  \A j, k \in Jobs :
    (j # k /\ handle[j] # NoInode /\ handle[k] # NoInode
       /\ file[j] = file[k]) => handle[j] \in mixed

\* An inode is of one file, and in place or not.
OneFile ==
  /\ \A j, k \in Jobs :
       (handle[j] # NoInode /\ handle[j] = handle[k]) => file[j] = file[k]
  /\ \A j \in Jobs, f \in Files : handle[j] # NoInode =>
       /\ handle[j] = partial[f] => f = file[j]
       /\ handle[j] = final[f] => f = file[j]
  /\ \A f, g \in Files :
       /\ (partial[f] # NoInode /\ partial[f] = partial[g]) => f = g
       /\ (final[f] # NoInode /\ final[f] = final[g]) => f = g
       /\ partial[f] # NoInode => partial[f] # final[g]

\* Nobody writes to a file in place, unless it was shared before.
InPlaceIsClosed ==
  \A j \in Jobs, f \in Files :
    (final[f] # NoInode /\ handle[j] = final[f]) => final[f] \in mixed

\* A pinned file in place has the pinned content, on the disk for good.
InPlaceIsDurable ==
  \A f \in Pinned :
    (final[f] # NoInode /\ final[f] \notin mixed) =>
      final[f] \in synced /\ content[final[f]] = PinnedContent(f)

\* The inductive invariant: the queues of the file sequences, the hash of what
\* is open, and who may touch what is in place.
DownloadInv ==
  /\ TypeOK
  /\ QueueShape
  /\ JobsAreOwned
  /\ HashIsContent
  /\ PathIsOurs
  /\ SharedIsMixed
  /\ OneFile
  /\ InPlaceIsClosed
  /\ InPlaceIsDurable

------------------------------------------------------------------------------
(* More properties.                                                        *)

\* The same without the proviso, as model_download_job.h has it.
InPlaceAlwaysPinned ==
  \A f \in Pinned :
    final[f] # NoInode => content[final[f]] = PinnedContent(f)

\* Once the Writer of a cancelled download is gone nothing of the model is left
\* behind but what could not be deleted, whatever was queued at the cancel.
CancelLeavesNothing == AtWork = {} => \A p \in wiped : ~There(p)

\* The page's job waits for the server.
NetworkTurn(t) == step[t] = "job" /\ phase[job[t]] \in {"requested", "receiving"}

\* Every download that was begun ends, or waits for the server again: nothing
\* else can keep it, and once the server has said that this was all, or has
\* failed, it goes on to the next file or to its end.
DownloadEnds ==
  \A t \in Tabs : step[t] # "none" ~> (step[t] = "none" \/ NetworkTurn(t))

\* An honest server and a sound disk, and nobody who interferes.
HonestResponse(t) ==
  LET have == Len(hash[job[t]])
      size == Size[file[job[t]]]
  IN
  /\ step[t] = "job"
  /\ \/ have < size /\ OnResponseStarted(t, IF have = 0 THEN 200 ELSE 206, have)
     \/ have >= size /\ OnResponseStarted(t, 416, 0)

Benign ==
  \/ \E t \in Tabs :
       \/ HandleDownloadModel(t)
       \/ Reply(t) /\ (PrecheckRefused(t) => queue[t] = {})
       \/ HonestResponse(t)
       \/ OnDataReceived(t, "good") /\ Len(hash[job[t]]) < Size[file[job[t]]]
       \/ OnComplete(t) /\ Len(hash[job[t]]) = Size[file[job[t]]]
  \/ \E j \in Jobs :
       /\ Writer(j)
       /\ (reply'[j] = "failed" /\ reply[j] # "failed") =>
            (Head(tasks[j]) = "finish" /\ ~VerifyDownload(j)
               /\ ~There(<<"partial", file[j]>>)')
       /\ Head(tasks[j]) = "truncate" => hash'[j] = <<>>

\* Retries converge: if from some time on servers and disk are sound, nobody
\* interferes and no server is silent for ever, a page that goes on asking ends
\* up with the model; no leftover of an earlier attempt stands in the way.
RetriesConverge ==
  \A t \in Tabs :
    (/\ <>[][Benign]_vars
     /\ []<>(step[t] # "none") /\ []<>~NetworkTurn(t)) => <>[]IsUnitDownloaded

\* What the paths of a pinned file hold, in the terms of ModelStore.
Part ==
  [f \in Pinned |->
     CASE partial[f] = NoInode -> "none"
       [] partial[f] # NoInode /\ partial[f] \in mixed -> "shared"
       [] OTHER -> "sole"]

Place ==
  [f \in Pinned |->
     CASE final[f] = NoInode -> "none"
       [] final[f] # NoInode /\ final[f] \in mixed -> "shared"
       [] final[f] # NoInode /\ final[f] \notin mixed
            /\ content[final[f]] = PinnedContent(f) -> "whole"
       [] OTHER -> "broken"]

\* The user has had the unit removed, and that is under way.
Removing == deletes > 0 \/ \E j \in Jobs : discards[j] > 0

Store == INSTANCE ModelStore
           WITH part <- Part, place <- Place, removing <- Removing

\* ModelDownload implements ModelStore: through failed and resumed transfers,
\* failing writes, pages that close and crashes, a whole file in place stays
\* whole until it is deleted, which only a cancel or the user's own deletion
\* does, or another download replaces it; and what is put in place is whole
\* unless two downloads wrote to it.
ImplementsModelStore == Store!Spec

\* downloading_model_id_ is set only while a download is under way.
BusyMeansDownloading == \A t \in Tabs : busy[t] => step[t] # "none"
=============================================================================
