--------------------------- MODULE MCPublishTasks ---------------------------
(***************************************************************************)
(* The threads of a publish cycle, or the worker with the first comment of *)
(* a row: they share no state, and one of them is at rest throughout.      *)
(***************************************************************************)
EXTENDS FirstComment, TLC

CONSTANTS
  PostA, PostB,                            \* two posts
  Groups, Jobs, GroupOf, Assets, Wants,    \* a cycle's posts, rows and attachments
  PoolSizes, NoJob

VARIABLES size, stuck, groupQueue, group, jobQueue, job, got, mapLock, entryLock, file, downloads

\* A post with three due rows and one with one, and what they attach.
FourRows == 1..4
PostOfRow == [j \in FourRows |-> IF j = 4 THEN PostB ELSE PostA]
Attached == <<<<"b", "a">>, <<"a", "b">>, <<"b">>, <<"b">>>>
SmallPools == [groups : 1..2, platforms : 1..3]

Cycle == INSTANCE PublishCycle

CycleAtRest ==
  /\ size = [groups |-> 1, platforms |-> 1]
  /\ stuck = {}
  /\ groupQueue = <<>> /\ jobQueue = <<>>
  /\ group = [g \in Groups |-> "done"]
  /\ job = [j \in Jobs |-> "done"] /\ got = [j \in Jobs |-> 0]
  /\ mapLock = [g \in Groups |-> NoJob]
  /\ entryLock = [g \in Groups |-> [a \in Assets |-> NoJob]]
  /\ file = [g \in Groups |-> [a \in Assets |-> "none"]]
  /\ downloads = [g \in Groups |-> [a \in Assets |-> 0]]

\* A row without a first comment is queued for nothing.
CommentAtRest == text = NoText /\ ~reconciles

TasksInit == \/ Init /\ CycleAtRest
             \/ Init /\ CommentAtRest /\ Cycle!Init

cycle == <<size, stuck, groupQueue, group, jobQueue, job, got, mapLock, entryLock, file, downloads>>

TasksNext == \/ CycleAtRest /\ Next /\ UNCHANGED cycle
             \/ CommentAtRest /\ Cycle!Next /\ UNCHANGED vars

TasksSpec == TasksInit /\ [][TasksNext]_<<vars, cycle>> /\ WF_vars(Work) /\ Cycle!Fairness

-----------------------------------------------------------------------------
(* The properties of the cycle, stated and explained in PublishCycle.      *)

FilesSharedWhileUsed == Cycle!FilesSharedWhileUsed
CycleEnds == Cycle!CycleEnds
OthersAreDone == Cycle!OthersAreDone
=============================================================================
