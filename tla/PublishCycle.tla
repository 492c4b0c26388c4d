---------------------------- MODULE PublishCycle ----------------------------
(***************************************************************************)
(* The threads of one publish cycle and the media files they share.        *)
(*                                                                         *)
(* The cycle hands each post's group of rows to a pool of group threads;   *)
(* a group thread hands each row to a pool of platform threads that all    *)
(* groups share, and waits for its rows.  The platform threads of a group  *)
(* take each attachment from a cache: the first to want it downloads it,   *)
(* under a lock of that attachment's own; when the group's rows are done   *)
(* the cache is emptied and its files are unlinked.                        *)
(*                                                                         *)
(* Source: apps/publisher/engine.py (_SharedMediaCache, poll_and_publish,  *)
(* _publish_post_group, _dispatch_to_provider).                            *)
(***************************************************************************)
EXTENDS Naturals, Sequences, FiniteSets, SequencesExt

CONSTANTS
  Groups,           \* the due posts
  Jobs,             \* their due rows
  GroupOf,          \* the post of each row
  Assets,           \* the posts' attachments
  Wants,            \* per row, the attachments its provider reads from disk, in order
  PoolSizes,        \* the sizes of the two pools to consider
  NoJob

VARIABLES
  size,        \* of the group pool and of the platform pool
  stuck,       \* attachments whose download never ends
  groupQueue,  \* groups submitted, not yet taken by a group thread
  group,       \* where each group's thread is
  jobQueue,    \* rows submitted, not yet taken by a platform thread
  job,         \* where each row's thread is
  got,         \* attachments each row holds a path for
  mapLock,     \* who holds the lock of a group's entry map
  entryLock,   \* who holds the lock of an attachment's entry
  file,        \* per group and attachment, the file on disk
  downloads    \* completed downloads, per group and attachment

env == <<size, stuck>>
vars == <<env, groupQueue, group, jobQueue, job, got, mapLock, entryLock, file, downloads>>

Init ==
  /\ size \in PoolSizes
  /\ stuck \in SUBSET Assets
  /\ groupQueue = SetToSeq(Groups)
  /\ group = [g \in Groups |-> "submitted"]
  /\ jobQueue = <<>>
  /\ job = [j \in Jobs |-> "none"]
  /\ got = [j \in Jobs |-> 0]
  /\ mapLock = [g \in Groups |-> NoJob]
  /\ entryLock = [g \in Groups |-> [a \in Assets |-> NoJob]]
  /\ file = [g \in Groups |-> [a \in Assets |-> "none"]]
  /\ downloads = [g \in Groups |-> [a \in Assets |-> 0]]

JobsOf(g) == {j \in Jobs : GroupOf[j] = g}
GroupsRunning == {g \in Groups : group[g] \notin {"submitted", "done"}}
JobsRunning == {j \in Jobs : job[j] \notin {"none", "submitted", "done"}}

-----------------------------------------------------------------------------
(* The two pools                                                           *)

GroupThreadFree == Cardinality(GroupsRunning) < size.groups

TakeGroup ==
  /\ groupQueue # <<>>
  /\ GroupThreadFree
  /\ group' = [group EXCEPT ![Head(groupQueue)] = "claimed"]
  /\ groupQueue' = Tail(groupQueue)
  /\ UNCHANGED <<env, jobQueue, job, got, mapLock, entryLock, file, downloads>>

SubmitRows(g) ==
  /\ group[g] = "claimed"
  /\ group' = [group EXCEPT ![g] = "waiting"]
  /\ jobQueue' = jobQueue \o SetToSeq(JobsOf(g))
  /\ job' = [j \in Jobs |-> IF j \in JobsOf(g) THEN "submitted" ELSE job[j]]
  /\ UNCHANGED <<env, groupQueue, got, mapLock, entryLock, file, downloads>>

\* One pool for both kinds of thread.
PlatformThreadFree_OnePool ==
  Cardinality(JobsRunning) + Cardinality(GroupsRunning) < size.platforms
PlatformThreadFree == Cardinality(JobsRunning) < size.platforms

TakeRow ==
  /\ jobQueue # <<>>
  /\ PlatformThreadFree
  /\ job' = [job EXCEPT ![Head(jobQueue)] = "media"]
  /\ jobQueue' = Tail(jobQueue)
  /\ UNCHANGED <<env, groupQueue, group, got, mapLock, entryLock, file, downloads>>

-----------------------------------------------------------------------------
(* path_for                                                                *)

Wanted(j) == Wants[j][got[j] + 1]
Entry(j) == file[GroupOf[j]][Wanted(j)]
At(j, label) == job[j] = label
Goto(j, label) == job' = [job EXCEPT ![j] = label]

\* The entry is looked up, and made, under the lock of the map; or that lock is
\* kept for the download.
LeaveMap_Keep(j) == mapLock' = [mapLock EXCEPT ![GroupOf[j]] = j]
LeaveMap(j) == UNCHANGED mapLock

FindEntry(j) ==
  /\ At(j, "media")
  /\ got[j] < Len(Wants[j])
  /\ mapLock[GroupOf[j]] = NoJob
  /\ Goto(j, "entry")
  /\ LeaveMap(j)
  /\ UNCHANGED <<env, groupQueue, group, jobQueue, got, entryLock, file, downloads>>

\* The lock is free; or nobody asks.
EntryFree_Unasked(j) == TRUE
EntryFree(j) == entryLock[GroupOf[j]][Wanted(j)] = NoJob

LockEntry(j) ==
  /\ At(j, "entry")
  /\ EntryFree(j)
  /\ entryLock' = [entryLock EXCEPT ![GroupOf[j]][Wanted(j)] = j]
  /\ Goto(j, "locked")
  /\ UNCHANGED <<env, groupQueue, group, jobQueue, got, mapLock, file, downloads>>

Unlock(j) ==
  /\ entryLock' = [entryLock EXCEPT ![GroupOf[j]][Wanted(j)] = NoJob]
  /\ mapLock' = [g \in Groups |-> IF mapLock[g] = j THEN NoJob ELSE mapLock[g]]

\* Is there a path already?
Downloaded(j) == Entry(j) = "there"

UsePath(j) ==
  /\ At(j, "locked")
  /\ Downloaded(j)
  /\ got' = [got EXCEPT ![j] = @ + 1]
  /\ Goto(j, "media")
  /\ Unlock(j)
  /\ UNCHANGED <<env, groupQueue, group, jobQueue, file, downloads>>

BeginDownload(j) ==
  /\ At(j, "locked")
  /\ ~Downloaded(j)
  /\ Goto(j, "downloading")
  /\ UNCHANGED <<env, groupQueue, group, jobQueue, got, mapLock, entryLock, file, downloads>>

Download(j) ==
  /\ At(j, "downloading")
  /\ Wanted(j) \notin stuck
  /\ file' = [file EXCEPT ![GroupOf[j]][Wanted(j)] = "there"]
  /\ downloads' = [downloads EXCEPT ![GroupOf[j]][Wanted(j)] = @ + 1]
  /\ got' = [got EXCEPT ![j] = @ + 1]
  /\ Goto(j, "media")
  /\ Unlock(j)
  /\ UNCHANGED <<env, groupQueue, group, jobQueue>>

\* The partial file is unlinked, the entry left without a path: the next
\* thread that wants it tries again.
DownloadFails(j) ==
  /\ At(j, "downloading")
  /\ Wanted(j) \notin stuck
  /\ Goto(j, "done")
  /\ Unlock(j)
  /\ UNCHANGED <<env, groupQueue, group, jobQueue, got, file, downloads>>

-----------------------------------------------------------------------------
(* The upload, and the end of the group                                    *)

StartUpload(j) ==
  /\ At(j, "media")
  /\ got[j] = Len(Wants[j])
  /\ Goto(j, "uploading")
  /\ UNCHANGED <<env, groupQueue, group, jobQueue, got, mapLock, entryLock, file, downloads>>

EndUpload(j) ==
  /\ At(j, "uploading")
  /\ Goto(j, "done")
  /\ UNCHANGED <<env, groupQueue, group, jobQueue, got, mapLock, entryLock, file, downloads>>

\* The group thread joins on all of its rows; or on the first that is done.
RowsDone_First(g) == \E j \in JobsOf(g) : job[j] = "done"
RowsDone(g) == \A j \in JobsOf(g) : job[j] = "done"

Cleanup(g) ==
  /\ group[g] = "waiting"
  /\ RowsDone(g)
  /\ \A a \in Assets : entryLock[g][a] = NoJob
  /\ file' = [file EXCEPT ![g] = [a \in Assets |-> IF @[a] = "there" THEN "unlinked" ELSE @[a]]]
  /\ group' = [group EXCEPT ![g] = "done"]
  /\ UNCHANGED <<env, groupQueue, jobQueue, job, got, mapLock, entryLock, downloads>>

-----------------------------------------------------------------------------
JobStep(j) ==
  \/ FindEntry(j) \/ LockEntry(j) \/ UsePath(j)
  \/ BeginDownload(j) \/ Download(j) \/ DownloadFails(j)
  \/ StartUpload(j) \/ EndUpload(j)

CycleEnded == \A g \in Groups : group[g] = "done"

Next ==
  \/ TakeGroup \/ TakeRow
  \/ \E g \in Groups : SubmitRows(g) \/ Cleanup(g)
  \/ \E j \in Jobs : JobStep(j)

Spec == Init /\ [][Next]_vars

\* Threads run; uploads, and the downloads that are not stuck, end (the storage
\* and platform clients time out).
Fairness ==
  /\ WF_vars(TakeGroup) /\ WF_vars(TakeRow)
  /\ \A g \in Groups : WF_vars(SubmitRows(g)) /\ WF_vars(Cleanup(g))
  /\ \A j \in Jobs : WF_vars(JobStep(j))

FairSpec == Spec /\ Fairness

-----------------------------------------------------------------------------
(* Properties                                                              *)

TypeOK ==
  /\ size \in PoolSizes
  /\ stuck \subseteq Assets
  /\ Range(groupQueue) \subseteq Groups
  /\ group \in [Groups -> {"submitted", "claimed", "waiting", "done"}]
  /\ Range(jobQueue) \subseteq Jobs
  /\ job \in [Jobs -> {"none", "submitted", "media", "entry", "locked", "downloading",
                    "uploading", "done"}]
  /\ got \in [Jobs -> Nat]
  /\ mapLock \in [Groups -> Jobs \cup {NoJob}]
  /\ entryLock \in [Groups -> [Assets -> Jobs \cup {NoJob}]]
  /\ file \in [Groups -> [Assets -> {"none", "there", "unlinked"}]]
  /\ downloads \in [Groups -> [Assets -> Nat]]

Paths(j) == {Wants[j][i] : i \in 1..got[j]}

(* A row being uploaded has every file it was given a path for on disk,    *)
(* and no attachment of a post is downloaded twice, whatever downloads     *)
(* fail and whichever thread wants it first (engine.py 210-222: "the lock  *)
(* is what makes 'at most once' true rather than 'usually once'").         *)
FilesSharedWhileUsed ==
  /\ \A j \in JobsRunning : \A a \in Paths(j) : file[GroupOf[j]][a] = "there"
  /\ \A g \in Groups, a \in Assets : downloads[g][a] <= 1

(* With no download stuck, every group and so the cycle ends, however the  *)
(* two pools are sized: group threads wait for platform threads, platform  *)
(* threads for nobody but the one that downloads what they want            *)
(* (engine.py 363-372).                                                    *)
CycleEnds == stuck = {} => <>CycleEnded

(* A stuck download keeps only the rows that want that file: with a        *)
(* platform thread to spare every other row is done, those of the same     *)
(* post among them (engine.py 236-241: "one wedged download cannot block   *)
(* every other platform in the group").                                    *)
NeedsStuck(j) == Range(Wants[j]) \cap stuck # {}
OthersAreDone ==
  (/\ Cardinality({j \in Jobs : NeedsStuck(j)}) < size.platforms
   /\ Cardinality(Groups) <= size.groups)
    => \A j \in Jobs : ~NeedsStuck(j) => <>(job[j] = "done")
=============================================================================
