------------------------ MODULE MCPublishTasks_proofs ------------------------
(***************************************************************************)
(* The media files of a publish cycle, for any posts, rows, attachments    *)
(* and pools: an attachment is downloaded once for a post, and its file    *)
(* stays while a row of the post may read it.                              *)
(***************************************************************************)
EXTENDS MCPublishTasks, Sequences, FiniteSetTheorems, TLAPS

CycleLimits ==
  /\ IsFiniteSet(Groups) /\ IsFiniteSet(Jobs)
  /\ NoJob \notin Jobs
  /\ GroupOf \in [Jobs -> Groups]
  /\ Wants \in [Jobs -> Seq(Assets)]

-----------------------------------------------------------------------------
(* Queues without repetition.                                              *)

Apart(q) == \A i, k \in 1..Len(q) : i # k => q[i] # q[k]

LEMMA SameCardinality ==
  ASSUME NEW S
  PROVE  Cycle!Cardinality(S) = Cardinality(S)
  BY DEF Cycle!Cardinality, Cardinality

LEMMA ListedApart ==
  ASSUME NEW S, IsFiniteSet(S)
  PROVE  /\ Cycle!SetToSeq(S) \in Seq(S)
         /\ Apart(Cycle!SetToSeq(S))
<1> DEFINE N == Cardinality(S)
           f == Cycle!SetToSeq(S)
<1>1. N \in Nat /\ ExistsBijection(1..N, S)
  BY FS_CardinalityType
<1>2. \E g \in [1..N -> S] : Cycle!IsInjective(g)
  BY <1>1 DEF ExistsBijection, Bijection, Injection, IsInjective, Cycle!IsInjective
<1>3. f \in [1..N -> S] /\ Cycle!IsInjective(f)
  <2>1. f = CHOOSE g \in [1..N -> S] : Cycle!IsInjective(g)
    BY SameCardinality DEF Cycle!SetToSeq
  <2> QED
    BY <1>2, <2>1
<1> HIDE DEF f, N
<1>4. f \in Seq(S) /\ Len(f) = N /\ DOMAIN f = 1..N
  BY <1>1, <1>3
<1>5. Apart(f)
  BY <1>3, <1>4 DEF Apart, Cycle!IsInjective
<1> QED
  BY <1>4, <1>5 DEF f

LEMMA TailApart ==
  ASSUME NEW S, NEW q \in Seq(S), q # <<>>, Apart(q)
  PROVE  /\ Tail(q) \in Seq(S) /\ Apart(Tail(q)) /\ Head(q) \in S
         /\ \A i \in 1..Len(Tail(q)) : \E k \in 1..Len(q) : Tail(q)[i] = q[k] /\ q[k] # Head(q)
<1>1. /\ Tail(q) \in Seq(S) /\ Len(q) \in Nat /\ Len(q) > 0
      /\ Len(Tail(q)) = Len(q) - 1 /\ Head(q) = q[1] /\ q[1] \in S
      /\ \A i \in 1..Len(Tail(q)) : Tail(q)[i] = q[i + 1]
  OBVIOUS
<1>2. \A i \in 1..Len(Tail(q)) : i + 1 \in 1..Len(q) /\ i + 1 # 1
  BY <1>1
<1>3. Apart(Tail(q))
  BY <1>1, <1>2 DEF Apart
<1>4. \A i \in 1..Len(Tail(q)) : Tail(q)[i] = q[i + 1] /\ q[i + 1] # Head(q)
  BY <1>1, <1>2 DEF Apart
<1> QED
  BY <1>1, <1>2, <1>3, <1>4

LEMMA JoinedApart ==
  ASSUME NEW S, NEW q \in Seq(S), NEW p \in Seq(S), Apart(q), Apart(p),
         \A i \in 1..Len(q), k \in 1..Len(p) : q[i] # p[k]
  PROVE  /\ q \o p \in Seq(S) /\ Apart(q \o p)
         /\ \A i \in 1..Len(q \o p) : \/ \E k \in 1..Len(q) : (q \o p)[i] = q[k]
                                      \/ \E k \in 1..Len(p) : (q \o p)[i] = p[k]
<1> DEFINE u == q \o p
<1>1. /\ u \in Seq(S) /\ Len(q) \in Nat /\ Len(p) \in Nat /\ Len(u) = Len(q) + Len(p)
      /\ \A i \in 1..Len(u) : u[i] = IF i <= Len(q) THEN q[i] ELSE p[i - Len(q)]
  OBVIOUS
<1> HIDE DEF u
<1>2. \A i \in 1..Len(u) : IF i <= Len(q) THEN i \in 1..Len(q) /\ u[i] = q[i]
                           ELSE i - Len(q) \in 1..Len(p) /\ u[i] = p[i - Len(q)]
  BY <1>1
<1>3. ASSUME NEW i \in 1..Len(u), NEW k \in 1..Len(u), i # k
      PROVE  u[i] # u[k]
  <2>1. CASE i <= Len(q) /\ k <= Len(q)
    BY <1>2, <1>3, <2>1 DEF Apart
  <2>2. CASE i <= Len(q) /\ ~(k <= Len(q))
    BY <1>2, <2>2
  <2>3. CASE ~(i <= Len(q)) /\ k <= Len(q)
    BY <1>2, <2>3
  <2>4. CASE ~(i <= Len(q)) /\ ~(k <= Len(q))
    <3>1. i - Len(q) # k - Len(q)
      BY <1>1, <1>3
    <3> QED
      BY <1>2, <2>4, <3>1 DEF Apart
  <2> QED
    BY <2>1, <2>2, <2>3, <2>4
<1> QED
  BY <1>1, <1>2, <1>3 DEF Apart, u

-----------------------------------------------------------------------------
(* The cycle.  What is queued is there once and has not begun; a group's   *)
(* rows begin after it and end before it.  A thread that downloads holds   *)
(* the attachment's lock, so nobody else does, and the file it found       *)
(* missing is still missing when it arrives.                               *)

CycleTypes ==
  /\ group \in [Groups -> {"submitted", "claimed", "waiting", "done"}]
  /\ job \in [Jobs -> {"none", "submitted", "media", "entry", "locked", "downloading",
                       "uploading", "done"}]
  /\ got \in [Jobs -> Nat]
  /\ entryLock \in [Groups -> [Assets -> Jobs \cup {NoJob}]]
  /\ file \in [Groups -> [Assets -> {"none", "there", "unlinked"}]]
  /\ downloads \in [Groups -> [Assets -> Nat]]

Queues ==
  /\ groupQueue \in Seq(Groups) /\ Apart(groupQueue)
  /\ \A i \in 1..Len(groupQueue) : group[groupQueue[i]] = "submitted"
  /\ jobQueue \in Seq(Jobs) /\ Apart(jobQueue)
  /\ \A i \in 1..Len(jobQueue) : job[jobQueue[i]] = "submitted"

\* A row begins after its group and ends before it.
InTurn ==
  \A j \in Jobs :
    /\ group[GroupOf[j]] \in {"submitted", "claimed"} => job[j] = "none"
    /\ group[GroupOf[j]] = "done" => job[j] = "done"

\* Until the group is done a file is there or has not been downloaded.
Filed ==
  \A g \in Groups, a \in Assets :
    /\ downloads[g][a] <= 1
    /\ group[g] # "done" =>
         downloads[g][a] = IF file[g][a] = "there" THEN 1 ELSE 0

\* What a row's thread holds and has.
Holds(j) ==
  /\ job[j] \in {"entry", "locked", "downloading"} =>
       got[j] < Len(Wants[j]) /\ Cycle!Wanted(j) \in Assets
  /\ job[j] \in {"locked", "downloading"} => entryLock[GroupOf[j]][Cycle!Wanted(j)] = j
  /\ job[j] = "downloading" => Cycle!Entry(j) # "there"

HasFiles(j) ==
  job[j] # "done" =>
    /\ got[j] <= Len(Wants[j])
    /\ \A i \in 1..got[j] : file[GroupOf[j]][Wants[j][i]] = "there"

CycleInv ==
  /\ CycleTypes /\ Queues /\ InTurn /\ Filed
  /\ \A j \in Jobs : Holds(j) /\ HasFiles(j)

LEMMA CycleStarts ==
  ASSUME CycleLimits, Cycle!Init
  PROVE  CycleInv
<1>1. CycleTypes
  BY DEF Cycle!Init, CycleTypes
<1>2. Queues
  BY ListedApart DEF CycleLimits, Cycle!Init, Queues, Apart
<1> QED
  BY <1>1, <1>2 DEF CycleLimits, Cycle!Init, CycleInv, InTurn, Filed, Holds, HasFiles

Begun == {"media", "entry", "locked", "downloading", "uploading"}

\* A thread's step: its row goes on or ends; what it changes is its own.
LEMMA ThreadsKeep ==
  ASSUME CycleLimits, CycleInv, NEW j \in Jobs, job[j] \in Begun,
         NEW label \in Begun \cup {"done"}, Cycle!Goto(j, label),
         UNCHANGED <<groupQueue, jobQueue, group>>,
         CycleTypes', Filed', Holds(j)', HasFiles(j)',
         \A k \in Jobs \ {j} :
           /\ got'[k] = got[k]
           /\ Holds(k) => Holds(k)',
         \A g \in Groups, a \in Assets : file[g][a] = "there" => file'[g][a] = "there"
  PROVE  CycleInv'
<1>1. \A k \in Jobs : job'[k] = IF k = j THEN label ELSE job[k]
  BY DEF Cycle!Goto, CycleInv, CycleTypes
<1>2. Queues'
  BY <1>1 DEF CycleInv, Queues, Begun
<1>3. InTurn'
  BY <1>1 DEF CycleInv, InTurn, Begun
<1>4. ASSUME NEW k \in Jobs \ {j} PROVE HasFiles(k)'
  <2>1. job'[k] = job[k] /\ got'[k] = got[k] /\ got[k] \in Nat
    BY <1>1 DEF CycleInv, CycleTypes
  <2>2. GroupOf[k] \in Groups /\ Wants[k] \in Seq(Assets) /\ HasFiles(k)
    BY DEF CycleLimits, CycleInv
  <2>3. \A i \in 1..Len(Wants[k]) : Wants[k][i] \in Assets
    BY <2>2
  <2> QED
    BY <2>1, <2>2, <2>3 DEF HasFiles
<1> QED
  BY <1>2, <1>3, <1>4 DEF CycleInv

\* Whoever else holds a lock keeps it when j gives up its own.
LEMMA UnlockKeeps ==
  ASSUME CycleLimits, CycleInv, NEW j \in Jobs, job[j] \in {"locked", "downloading"},
         Cycle!Unlock(j)
  PROVE  /\ entryLock' \in [Groups -> [Assets -> Jobs \cup {NoJob}]]
         /\ \A k \in Jobs \ {j} : job[k] \in {"locked", "downloading"} =>
              /\ entryLock'[GroupOf[k]][Cycle!Wanted(k)] = k
              /\ GroupOf[k] # GroupOf[j] \/ Cycle!Wanted(k) # Cycle!Wanted(j)
<1> DEFINE g == GroupOf[j]
           a == Cycle!Wanted(j)
<1>1. /\ g \in Groups /\ a \in Assets /\ entryLock[g][a] = j
      /\ entryLock \in [Groups -> [Assets -> Jobs \cup {NoJob}]]
      /\ entryLock' = [entryLock EXCEPT ![g][a] = NoJob]
  BY DEF CycleLimits, CycleInv, Holds, CycleTypes, Cycle!Unlock
<1> HIDE DEF g, a
<1>2. /\ entryLock' \in [Groups -> [Assets -> Jobs \cup {NoJob}]]
      /\ \A h \in Groups, b \in Assets : h # g \/ b # a => entryLock'[h][b] = entryLock[h][b]
  BY <1>1
<1>3. ASSUME NEW k \in Jobs \ {j}, job[k] \in {"locked", "downloading"}
      PROVE  /\ entryLock'[GroupOf[k]][Cycle!Wanted(k)] = k
             /\ GroupOf[k] # g \/ Cycle!Wanted(k) # a
  <2>1. /\ GroupOf[k] \in Groups /\ Cycle!Wanted(k) \in Assets
        /\ entryLock[GroupOf[k]][Cycle!Wanted(k)] = k
    BY <1>3 DEF CycleLimits, CycleInv, Holds
  <2> QED
    BY <1>1, <1>2, <2>1
<1> QED
  BY <1>2, <1>3 DEF g, a

LEMMA Begins ==
  ASSUME CycleLimits, CycleInv, NEW j \in Jobs, Cycle!FindEntry(j) \/ Cycle!StartUpload(j) \/ Cycle!EndUpload(j)
  PROVE  CycleInv'
<1>1. PICK label \in {"entry", "uploading", "done"} :
        /\ Cycle!Goto(j, label)
        /\ label = "entry" => got[j] < Len(Wants[j])
        /\ job[j] \in Begun
        /\ UNCHANGED <<groupQueue, group, jobQueue, got, entryLock, file, downloads>>
  BY DEF Cycle!FindEntry, Cycle!StartUpload, Cycle!EndUpload, Cycle!At, Begun
<1>2. /\ job' = [job EXCEPT ![j] = label] /\ CycleTypes'
  BY <1>1 DEF Cycle!Goto, CycleInv, CycleTypes
<1>3. Filed'
  BY <1>1 DEF CycleInv, Filed
<1>4. HasFiles(j)'
  BY <1>1, <1>2 DEF CycleInv, HasFiles, Begun, CycleTypes
<1>5. Holds(j)'
  <2>1. got[j] \in Nat /\ Wants[j] \in Seq(Assets)
    BY DEF CycleLimits, CycleInv, CycleTypes
  <2>2. got[j] < Len(Wants[j]) => Wants[j][got[j] + 1] \in Assets
    BY <2>1
  <2> QED
    BY <1>1, <1>2, <2>2 DEF Holds, CycleInv, CycleTypes, Cycle!Wanted
<1>6. \A k \in Jobs \ {j} : got'[k] = got[k] /\ (Holds(k) => Holds(k)')
  BY <1>1, <1>2 DEF Holds, Cycle!Wanted, Cycle!Entry, CycleInv, CycleTypes
<1> QED
  BY <1>1, <1>2, <1>3, <1>4, <1>5, <1>6, ThreadsKeep DEF Begun

LEMMA Locks ==
  ASSUME CycleLimits, CycleInv, NEW j \in Jobs, Cycle!LockEntry(j)
  PROVE  CycleInv'
<1> DEFINE g == GroupOf[j]
           a == Cycle!Wanted(j)
<1>1. /\ job[j] = "entry" /\ entryLock[g][a] = NoJob /\ Cycle!Goto(j, "locked")
      /\ entryLock' = [entryLock EXCEPT ![g][a] = j]
      /\ UNCHANGED <<groupQueue, group, jobQueue, got, file, downloads>>
      /\ g \in Groups /\ a \in Assets /\ got[j] < Len(Wants[j])
      /\ a' = a
  BY DEF Cycle!LockEntry, Cycle!At, Cycle!EntryFree, Cycle!Wanted, CycleLimits, CycleInv, Holds
<1> HIDE DEF g, a
<1>2. /\ job' = [job EXCEPT ![j] = "locked"] /\ CycleTypes'
      /\ entryLock'[g][a] = j
      /\ \A h \in Groups, b \in Assets : h # g \/ b # a => entryLock'[h][b] = entryLock[h][b]
  BY <1>1 DEF Cycle!Goto, CycleInv, CycleTypes
<1>3. Filed' /\ HasFiles(j)'
  BY <1>1, <1>2 DEF CycleInv, Filed, HasFiles, CycleTypes
<1>4. Holds(j)'
  BY <1>1, <1>2 DEF Holds, CycleInv, CycleTypes, g, a
<1>5. ASSUME NEW k \in Jobs \ {j}
      PROVE  got'[k] = got[k] /\ (Holds(k) => Holds(k)')
  <2>1. job'[k] = job[k] /\ GroupOf[k] \in Groups /\ k # NoJob /\ Cycle!Wanted(k)' = Cycle!Wanted(k)
        /\ Cycle!Entry(k)' = Cycle!Entry(k) /\ got' = got
    BY <1>1, <1>2 DEF CycleLimits, CycleInv, CycleTypes, Cycle!Wanted, Cycle!Entry
  <2> QED
    BY <1>1, <1>2, <2>1 DEF Holds
<1> QED
  BY <1>1, <1>2, <1>3, <1>4, <1>5, ThreadsKeep DEF Begun

LEMMA Uses ==
  ASSUME CycleLimits, CycleInv, NEW j \in Jobs, Cycle!UsePath(j)
  PROVE  CycleInv'
<1>1. /\ job[j] = "locked" /\ Cycle!Goto(j, "media") /\ Cycle!Entry(j) = "there"
      /\ got' = [got EXCEPT ![j] = @ + 1] /\ Cycle!Unlock(j)
      /\ UNCHANGED <<groupQueue, group, jobQueue, file, downloads>>
      /\ got[j] < Len(Wants[j]) /\ got[j] \in Nat /\ Len(Wants[j]) \in Nat
  BY DEF Cycle!UsePath, Cycle!At, Cycle!Downloaded, CycleLimits, CycleInv, CycleTypes, Holds
<1>2. /\ entryLock' \in [Groups -> [Assets -> Jobs \cup {NoJob}]]
      /\ \A k \in Jobs \ {j} : job[k] \in {"locked", "downloading"} =>
           entryLock'[GroupOf[k]][Cycle!Wanted(k)] = k
  BY <1>1, UnlockKeeps
<1>3. job' = [job EXCEPT ![j] = "media"] /\ CycleTypes' /\ Filed'
  BY <1>1, <1>2 DEF Cycle!Goto, CycleInv, CycleTypes, Filed
<1>4. Holds(j)'
  BY <1>1, <1>3 DEF Holds, CycleInv, CycleTypes
<1>5. HasFiles(j)'
  <2>1. got'[j] = got[j] + 1 /\ \A i \in 1..got[j] : file[GroupOf[j]][Wants[j][i]] = "there"
    BY <1>1 DEF CycleInv, CycleTypes, HasFiles
  <2>2. file[GroupOf[j]][Wants[j][got[j] + 1]] = "there"
    BY <1>1 DEF Cycle!Entry, Cycle!Wanted
  <2> QED
    BY <1>1, <2>1, <2>2 DEF HasFiles
<1>6. ASSUME NEW k \in Jobs \ {j} PROVE got'[k] = got[k] /\ (Holds(k) => Holds(k)')
  <2>1. got'[k] = got[k] /\ job'[k] = job[k] /\ Cycle!Wanted(k)' = Cycle!Wanted(k)
        /\ Cycle!Entry(k)' = Cycle!Entry(k)
    BY <1>1, <1>3 DEF CycleInv, CycleTypes, Cycle!Wanted, Cycle!Entry
  <2> QED
    BY <1>2, <2>1 DEF Holds
<1> QED
  BY <1>1, <1>3, <1>4, <1>5, <1>6, ThreadsKeep DEF Begun

LEMMA BeginsToLoad ==
  ASSUME CycleLimits, CycleInv, NEW j \in Jobs, Cycle!BeginDownload(j)
  PROVE  CycleInv'
<1>1. /\ job[j] = "locked" /\ Cycle!Goto(j, "downloading") /\ Cycle!Entry(j) # "there"
      /\ UNCHANGED <<groupQueue, group, jobQueue, got, entryLock, file, downloads>>
  BY DEF Cycle!BeginDownload, Cycle!At, Cycle!Downloaded
<1>2. job' = [job EXCEPT ![j] = "downloading"] /\ CycleTypes' /\ Filed' /\ HasFiles(j)'
  BY <1>1 DEF Cycle!Goto, CycleInv, CycleTypes, Filed, HasFiles
<1>3. \A k \in Jobs : Cycle!Wanted(k)' = Cycle!Wanted(k) /\ Cycle!Entry(k)' = Cycle!Entry(k)
  BY <1>1 DEF Cycle!Wanted, Cycle!Entry
<1>4. Holds(j)'
  BY <1>1, <1>2, <1>3 DEF Holds, CycleInv, CycleTypes
<1>5. \A k \in Jobs \ {j} : got'[k] = got[k] /\ (Holds(k) => Holds(k)')
  BY <1>1, <1>2, <1>3 DEF Holds, CycleInv, CycleTypes
<1> QED
  BY <1>1, <1>2, <1>4, <1>5, ThreadsKeep DEF Begun

LEMMA Loads ==
  ASSUME CycleLimits, CycleInv, NEW j \in Jobs, Cycle!Download(j)
  PROVE  CycleInv'
<1> DEFINE g == GroupOf[j]
           a == Cycle!Wanted(j)
<1>1. /\ job[j] = "downloading" /\ Cycle!Goto(j, "media")
      /\ got' = [got EXCEPT ![j] = @ + 1] /\ Cycle!Unlock(j)
      /\ file' = [file EXCEPT ![g][a] = "there"]
      /\ downloads' = [downloads EXCEPT ![g][a] = @ + 1]
      /\ UNCHANGED <<groupQueue, group, jobQueue>>
      /\ got[j] < Len(Wants[j]) /\ got[j] \in Nat /\ Len(Wants[j]) \in Nat
      /\ g \in Groups /\ a \in Assets /\ file[g][a] # "there" /\ group[g] # "done"
  BY DEF Cycle!Download, Cycle!At, Cycle!Entry, CycleLimits, CycleInv, CycleTypes, Holds, InTurn
<1>2. /\ entryLock' \in [Groups -> [Assets -> Jobs \cup {NoJob}]]
      /\ \A k \in Jobs \ {j} : job[k] \in {"locked", "downloading"} =>
           /\ entryLock'[GroupOf[k]][Cycle!Wanted(k)] = k
           /\ GroupOf[k] # g \/ Cycle!Wanted(k) # a
  BY <1>1, UnlockKeeps
<1>w. Wants[j][got[j] + 1] = a
  BY DEF Cycle!Wanted
<1> HIDE DEF g, a
<1>3. /\ file' \in [Groups -> [Assets -> {"none", "there", "unlinked"}]]
      /\ downloads' \in [Groups -> [Assets -> Nat]]
      /\ file'[g][a] = "there" /\ downloads'[g][a] = downloads[g][a] + 1
      /\ \A h \in Groups, b \in Assets : h # g \/ b # a =>
           file'[h][b] = file[h][b] /\ downloads'[h][b] = downloads[h][b]
  BY <1>1 DEF CycleInv, CycleTypes
<1>4. job' = [job EXCEPT ![j] = "media"] /\ CycleTypes'
  BY <1>1, <1>2, <1>3 DEF Cycle!Goto, CycleInv, CycleTypes
<1>5. Filed'
  <2>1. downloads[g][a] = 0
    BY <1>1 DEF CycleInv, Filed
  <2> QED
    BY <1>1, <1>3, <2>1 DEF CycleInv, Filed
<1>6. Holds(j)'
  BY <1>1, <1>4 DEF Holds, CycleInv, CycleTypes
<1>7. HasFiles(j)'
  <2>1. got'[j] = got[j] + 1 /\ \A i \in 1..got[j] : file[g][Wants[j][i]] = "there"
    BY <1>1 DEF CycleInv, CycleTypes, HasFiles, g
  <2>2. \A i \in 1..got[j] : Wants[j][i] \in Assets
    BY <1>1 DEF CycleLimits
  <2>3. \A i \in 1..got[j] : file'[g][Wants[j][i]] = "there"
    BY <1>1, <1>3, <2>1, <2>2
  <2>4. file'[g][Wants[j][got[j] + 1]] = "there"
    BY <1>3, <1>w
  <2> QED
    BY <1>1, <2>1, <2>3, <2>4 DEF HasFiles, g
<1>8. ASSUME NEW k \in Jobs \ {j} PROVE got'[k] = got[k] /\ (Holds(k) => Holds(k)')
  <2>1. got'[k] = got[k] /\ job'[k] = job[k] /\ Cycle!Wanted(k)' = Cycle!Wanted(k)
        /\ GroupOf[k] \in Groups
    BY <1>1, <1>4 DEF CycleLimits, CycleInv, CycleTypes, Cycle!Wanted
  <2>2. job[k] = "downloading" /\ Holds(k) => Cycle!Entry(k)' # "there"
    BY <1>2, <1>3, <2>1 DEF Holds, Cycle!Entry
  <2> QED
    BY <1>2, <2>1, <2>2 DEF Holds
<1> QED
  BY <1>1, <1>3, <1>4, <1>5, <1>6, <1>7, <1>8, ThreadsKeep DEF Begun

LEMMA LoadFails ==
  ASSUME CycleLimits, CycleInv, NEW j \in Jobs, Cycle!DownloadFails(j)
  PROVE  CycleInv'
<1>1. /\ job[j] = "downloading" /\ Cycle!Goto(j, "done") /\ Cycle!Unlock(j)
      /\ UNCHANGED <<groupQueue, group, jobQueue, got, file, downloads>>
  BY DEF Cycle!DownloadFails, Cycle!At
<1>2. /\ entryLock' \in [Groups -> [Assets -> Jobs \cup {NoJob}]]
      /\ \A k \in Jobs \ {j} : job[k] \in {"locked", "downloading"} =>
           entryLock'[GroupOf[k]][Cycle!Wanted(k)] = k
  BY <1>1, UnlockKeeps
<1>3. job' = [job EXCEPT ![j] = "done"] /\ CycleTypes' /\ Filed' /\ Holds(j)' /\ HasFiles(j)'
  BY <1>1, <1>2 DEF Cycle!Goto, CycleInv, CycleTypes, Filed, Holds, HasFiles
<1>4. \A k \in Jobs : Cycle!Wanted(k)' = Cycle!Wanted(k) /\ Cycle!Entry(k)' = Cycle!Entry(k)
  BY <1>1 DEF Cycle!Wanted, Cycle!Entry
<1>5. \A k \in Jobs \ {j} : got'[k] = got[k] /\ (Holds(k) => Holds(k)')
  BY <1>1, <1>2, <1>3, <1>4 DEF Holds, CycleInv, CycleTypes
<1> QED
  BY <1>1, <1>3, <1>5, ThreadsKeep DEF Begun

\* What the threads hold does not depend on the queues and the groups.
LEMMA ThreadsUntouched ==
  ASSUME CycleInv, UNCHANGED <<job, got, entryLock, file>>
  PROVE  \A j \in Jobs : Holds(j)' /\ HasFiles(j)'
  BY DEF CycleInv, Holds, HasFiles, Cycle!Wanted, Cycle!Entry

LEMMA GroupIsTaken ==
  ASSUME CycleLimits, CycleInv, Cycle!TakeGroup
  PROVE  CycleInv'
<1> DEFINE g == Head(groupQueue)
<1>1. /\ groupQueue \in Seq(Groups) /\ groupQueue # <<>> /\ Apart(groupQueue)
      /\ \A i \in 1..Len(groupQueue) : group[groupQueue[i]] = "submitted"
      /\ group' = [group EXCEPT ![g] = "claimed"] /\ groupQueue' = Tail(groupQueue)
      /\ UNCHANGED <<jobQueue, job, got, entryLock, file, downloads>>
  BY DEF Cycle!TakeGroup, CycleInv, Queues
<1>2. /\ Tail(groupQueue) \in Seq(Groups) /\ Apart(Tail(groupQueue)) /\ g \in Groups
      /\ \A i \in 1..Len(Tail(groupQueue)) :
           \E k \in 1..Len(groupQueue) : Tail(groupQueue)[i] = groupQueue[k] /\ groupQueue[k] # g
  BY <1>1, TailApart
<1>3. group[g] = "submitted"
  BY <1>1
<1> HIDE DEF g
<1>4. CycleTypes'
  BY <1>1, <1>2 DEF CycleInv, CycleTypes
<1>5. \A h \in Groups : group'[h] = IF h = g THEN "claimed" ELSE group[h]
  BY <1>1, <1>2 DEF CycleInv, CycleTypes
<1>6. \A i \in 1..Len(groupQueue) : groupQueue[i] \in Groups
  BY <1>1
<1>7. Queues'
  BY <1>1, <1>2, <1>5, <1>6 DEF CycleInv, Queues
<1>8. InTurn' /\ Filed'
  BY <1>1, <1>2, <1>3, <1>5 DEF CycleLimits, CycleInv, InTurn, Filed
<1> QED
  BY <1>1, <1>4, <1>7, <1>8, ThreadsUntouched DEF CycleInv

LEMMA RowsAreSubmitted ==
  ASSUME CycleLimits, CycleInv, NEW g \in Groups, Cycle!SubmitRows(g)
  PROVE  CycleInv'
<1> DEFINE R == Cycle!JobsOf(g)
           added == Cycle!SetToSeq(R)
<1>1. /\ group[g] = "claimed" /\ group' = [group EXCEPT ![g] = "waiting"]
      /\ jobQueue' = jobQueue \o added
      /\ job' = [j \in Jobs |-> IF j \in R THEN "submitted" ELSE job[j]]
      /\ UNCHANGED <<groupQueue, got, entryLock, file, downloads>>
  BY DEF Cycle!SubmitRows
<1>2. R \subseteq Jobs /\ IsFiniteSet(R) /\ \A j \in Jobs : j \in R <=> GroupOf[j] = g
  BY FS_Subset DEF Cycle!JobsOf, CycleLimits
<1>3. added \in Seq(R) /\ Apart(added)
  BY <1>2, ListedApart
<1>4. \A j \in R : job[j] = "none"
  BY <1>1, <1>2 DEF CycleInv, InTurn
<1> HIDE DEF R, added
<1>5. \A k \in 1..Len(added) : added[k] \in R
  BY <1>3
<1>6. added \in Seq(Jobs)
  BY <1>2, <1>3
<1>7. /\ jobQueue \in Seq(Jobs) /\ Apart(jobQueue)
      /\ \A i \in 1..Len(jobQueue) : job[jobQueue[i]] = "submitted" /\ jobQueue[i] \in Jobs
  BY DEF CycleInv, Queues
<1>8. \A i \in 1..Len(jobQueue), k \in 1..Len(added) : jobQueue[i] # added[k]
  BY <1>4, <1>5, <1>7
<1>9. /\ jobQueue' \in Seq(Jobs) /\ Apart(jobQueue')
      /\ \A i \in 1..Len(jobQueue') : \/ \E k \in 1..Len(jobQueue) : jobQueue'[i] = jobQueue[k]
                                      \/ \E k \in 1..Len(added) : jobQueue'[i] = added[k]
  BY <1>1, <1>3, <1>6, <1>7, <1>8, JoinedApart
<1>10. \A j \in Jobs : job'[j] = IF j \in R THEN "submitted" ELSE job[j]
  BY <1>1
<1>11. \A i \in 1..Len(jobQueue') : job'[jobQueue'[i]] = "submitted"
  BY <1>2, <1>5, <1>7, <1>9, <1>10
<1>12. \A h \in Groups : group'[h] = IF h = g THEN "waiting" ELSE group[h]
  BY <1>1 DEF CycleInv, CycleTypes
<1>13. CycleTypes'
  BY <1>1 DEF CycleInv, CycleTypes
<1>14. Queues'
  <2>1. \A i \in 1..Len(groupQueue) : groupQueue[i] \in Groups /\ group[groupQueue[i]] = "submitted"
    BY DEF CycleInv, Queues
  <2>2. groupQueue' \in Seq(Groups) /\ Apart(groupQueue')
    BY <1>1 DEF CycleInv, Queues
  <2>3. \A i \in 1..Len(groupQueue') : group'[groupQueue'[i]] = "submitted"
    BY <1>1, <1>12, <2>1
  <2> QED
    BY <1>9, <1>11, <2>2, <2>3 DEF Queues
<1>15. InTurn' /\ Filed'
  BY <1>1, <1>2, <1>10, <1>12 DEF CycleLimits, CycleInv, InTurn, Filed
<1>16. \A j \in Jobs : Holds(j)' /\ HasFiles(j)'
  <2> SUFFICES ASSUME NEW j \in Jobs PROVE Holds(j)' /\ HasFiles(j)'
    OBVIOUS
  <2>1. job'[j] = job[j] \/ (job[j] = "none" /\ job'[j] = "submitted")
    BY <1>4, <1>10
  <2>2. Cycle!Wanted(j)' = Cycle!Wanted(j) /\ Cycle!Entry(j)' = Cycle!Entry(j)
    BY <1>1 DEF Cycle!Wanted, Cycle!Entry
  <2> QED
    BY <1>1, <2>1, <2>2 DEF CycleInv, Holds, HasFiles
<1> QED
  BY <1>13, <1>14, <1>15, <1>16 DEF CycleInv

LEMMA RowIsTaken ==
  ASSUME CycleLimits, CycleInv, Cycle!TakeRow
  PROVE  CycleInv'
<1> DEFINE j == Head(jobQueue)
<1>1. /\ jobQueue \in Seq(Jobs) /\ jobQueue # <<>> /\ Apart(jobQueue)
      /\ \A i \in 1..Len(jobQueue) : job[jobQueue[i]] = "submitted"
      /\ job' = [job EXCEPT ![j] = "media"] /\ jobQueue' = Tail(jobQueue)
      /\ UNCHANGED <<groupQueue, group, got, entryLock, file, downloads>>
  BY DEF Cycle!TakeRow, CycleInv, Queues
<1>2. /\ Tail(jobQueue) \in Seq(Jobs) /\ Apart(Tail(jobQueue)) /\ j \in Jobs
      /\ \A i \in 1..Len(Tail(jobQueue)) :
           \E k \in 1..Len(jobQueue) : Tail(jobQueue)[i] = jobQueue[k] /\ jobQueue[k] # j
  BY <1>1, TailApart
<1>3. job[j] = "submitted"
  BY <1>1
<1> HIDE DEF j
<1>4. CycleTypes' /\ \A k \in Jobs : job'[k] = IF k = j THEN "media" ELSE job[k]
  BY <1>1, <1>2 DEF CycleInv, CycleTypes
<1>5. \A i \in 1..Len(jobQueue) : jobQueue[i] \in Jobs
  BY <1>1
<1>6. Queues'
  BY <1>1, <1>2, <1>4, <1>5 DEF CycleInv, Queues
<1>7. InTurn' /\ Filed'
  BY <1>1, <1>2, <1>3, <1>4 DEF CycleInv, InTurn, Filed
<1>8. \A k \in Jobs : Holds(k)' /\ HasFiles(k)'
  <2> SUFFICES ASSUME NEW k \in Jobs PROVE Holds(k)' /\ HasFiles(k)'
    OBVIOUS
  <2>1. job'[k] = job[k] \/ (job[k] = "submitted" /\ job'[k] = "media")
    BY <1>3, <1>4
  <2>2. Cycle!Wanted(k)' = Cycle!Wanted(k) /\ Cycle!Entry(k)' = Cycle!Entry(k)
    BY <1>1 DEF Cycle!Wanted, Cycle!Entry
  <2> QED
    BY <1>1, <2>1, <2>2 DEF CycleInv, Holds, HasFiles
<1> QED
  BY <1>4, <1>6, <1>7, <1>8 DEF CycleInv

LEMMA GroupIsDone ==
  ASSUME CycleLimits, CycleInv, NEW g \in Groups, Cycle!Cleanup(g)
  PROVE  CycleInv'
<1>1. /\ group[g] = "waiting" /\ group' = [group EXCEPT ![g] = "done"]
      /\ \A j \in Jobs : GroupOf[j] = g => job[j] = "done"
      /\ UNCHANGED <<groupQueue, jobQueue, job, got, entryLock, downloads>>
  BY DEF Cycle!Cleanup, Cycle!RowsDone, Cycle!JobsOf
<1>2. /\ file' \in [Groups -> [Assets -> {"none", "there", "unlinked"}]]
      /\ \A h \in Groups \ {g} : file'[h] = file[h]
  BY DEF Cycle!Cleanup, CycleInv, CycleTypes
<1>3. CycleTypes' /\ \A h \in Groups : group'[h] = IF h = g THEN "done" ELSE group[h]
  BY <1>1, <1>2 DEF CycleInv, CycleTypes
<1>4. Queues'
  <2>1. \A i \in 1..Len(groupQueue) : groupQueue[i] \in Groups /\ group[groupQueue[i]] = "submitted"
    BY DEF CycleInv, Queues
  <2> QED
    BY <1>1, <1>3, <2>1 DEF CycleInv, Queues
<1>5. InTurn' /\ Filed'
  BY <1>1, <1>2, <1>3 DEF CycleLimits, CycleInv, InTurn, Filed
<1>6. \A j \in Jobs : Holds(j)' /\ HasFiles(j)'
  <2> SUFFICES ASSUME NEW j \in Jobs PROVE Holds(j)' /\ HasFiles(j)'
    OBVIOUS
  <2>1. CASE GroupOf[j] = g
    BY <1>1, <2>1 DEF Holds, HasFiles
  <2>2. CASE GroupOf[j] # g
    <3>1. file'[GroupOf[j]] = file[GroupOf[j]] /\ Cycle!Wanted(j)' = Cycle!Wanted(j)
          /\ Cycle!Entry(j)' = Cycle!Entry(j)
      BY <1>1, <1>2, <2>2 DEF CycleLimits, Cycle!Wanted, Cycle!Entry
    <3> QED
      BY <1>1, <3>1 DEF CycleInv, Holds, HasFiles
  <2> QED
    BY <2>1, <2>2
<1> QED
  BY <1>3, <1>4, <1>5, <1>6 DEF CycleInv

LEMMA CycleSteps ==
  ASSUME CycleLimits, CycleInv, Cycle!Next \/ UNCHANGED cycle
  PROVE  CycleInv'
<1>1. ASSUME NEW j \in Jobs, Cycle!JobStep(j) PROVE CycleInv'
  BY <1>1, Begins, Locks, Uses, BeginsToLoad, Loads, LoadFails DEF Cycle!JobStep
<1>2. CASE UNCHANGED cycle
  <2>1. UNCHANGED <<groupQueue, group, jobQueue, job, got, entryLock, file, downloads>>
    BY <1>2 DEF cycle
  <2>2. CycleTypes' /\ Queues' /\ InTurn' /\ Filed'
    BY <2>1 DEF CycleInv, CycleTypes, Queues, InTurn, Filed
  <2> QED
    BY <2>1, <2>2, ThreadsUntouched DEF CycleInv
<1> QED
  BY <1>1, <1>2, GroupIsTaken, RowIsTaken, RowsAreSubmitted, GroupIsDone DEF Cycle!Next

LEMMA FilesAreShared ==
  ASSUME CycleLimits, CycleInv
  PROVE  FilesSharedWhileUsed
<1>1. ASSUME NEW j \in Cycle!JobsRunning, NEW a \in Cycle!Paths(j)
      PROVE  file[GroupOf[j]][a] = "there"
  BY <1>1 DEF CycleInv, HasFiles, Cycle!JobsRunning, Cycle!Paths
<1>2. \A g \in Groups, a \in Assets : downloads[g][a] <= 1
  BY DEF CycleInv, Filed
<1> QED
  BY <1>1, <1>2 DEF FilesSharedWhileUsed, Cycle!FilesSharedWhileUsed

(* Whatever the sizes of the pools, the attachments the rows want and the  *)
(* downloads that fail or hang, no attachment of a post is downloaded      *)
(* twice and no file a row was given is gone while the row uses it         *)
(* (engine.py 210-222, 265-275).                                           *)
THEOREM FilesStayShared ==
  ASSUME CycleLimits
  PROVE  TasksSpec => []FilesSharedWhileUsed
<1> DEFINE Inv == CycleInv
<1>1. TasksInit => Inv
  <2>1. CASE CycleAtRest
    BY <2>1 DEF CycleAtRest, CycleInv, CycleTypes, Queues, InTurn, Filed, Holds, HasFiles, Apart, CycleLimits
  <2> QED
    BY <2>1, CycleStarts DEF TasksInit
<1>2. Inv /\ [TasksNext]_<<vars, cycle>> => Inv'
  BY CycleSteps DEF TasksNext
<1>3. Inv => FilesSharedWhileUsed
  BY FilesAreShared
<1> QED
  BY <1>1, <1>2, <1>3, PTL DEF TasksSpec
=============================================================================
