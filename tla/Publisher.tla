----------------------------- MODULE Publisher -----------------------------
(***************************************************************************)
(* The publish engine over the PlatformPost rows of one post.              *)
(*                                                                         *)
(* A worker process runs two recurring tasks one after the other: the      *)
(* publish cycle (poll, claim the post's due rows under a lock, dispatch   *)
(* each to its platform on a thread of its own, then the rows whose retry  *)
(* backoff is over, one by one) and the confirmation sweep.  Web requests  *)
(* schedule, move, unschedule, hold and resume rows meanwhile; the         *)
(* platform finishes asynchronous uploads in its own time; a worker can be *)
(* killed between any two steps.  Every database statement and every       *)
(* platform call is a step of its own.                                     *)
(*                                                                         *)
(* Source: apps/publisher/engine.py; the requests are those of             *)
(* apps/composer/views.py, apps/composer/services.py,                      *)
(* apps/calendar/views.py and apps/approvals/services.py.                  *)
(***************************************************************************)
EXTENDS PlatformPostStatus, Sequences

CONSTANTS
  Rows,            \* the PlatformPost rows of the post
  AsyncRows,       \* those whose platform publishes asynchronously
  BrokenRows,      \* those whose provider cannot be built any more
  Workers,         \* processes that run the engine
  MAX_RETRIES,
  Overtaking,      \* may a web request be overtaken between its read and its write?
  WriteErrors,     \* may the insert of a PublishLog row fail?
  MaxSchedules,    \* bound on deliberate schedules of a row
  MaxUploads,      \* bound on uploads the platform accepts for a row
  MaxCrashes       \* bound on worker kills

ASSUME PublisherAssumption ==
  /\ AsyncRows \subseteq Rows
  /\ BrokenRows \subseteq Rows
  /\ MAX_RETRIES \in Nat
  /\ Overtaking \in BOOLEAN
  /\ WriteErrors \in BOOLEAN
  /\ MaxSchedules \in Nat
  /\ MaxUploads \in Nat
  /\ MaxCrashes \in Nat

VARIABLES
  rows,      \* the database rows
  uploads,   \* per row, every upload the platform accepted, in order
  phase,     \* per worker, where it is in its task
  batch,     \* per worker, the rows its due query returned
  job,       \* per worker and row, the thread (or loop turn) working on the row
  read,      \* per row, the object a web request in progress has read, or NoRow
  crashes,   \* kills so far
  epoch,     \* per row, how many times it was deliberately scheduled
  unclear,   \* per row, uploads the platform accepted but reported as an error
  calls,     \* per row, attempts made since it was last deliberately scheduled
  declared,  \* rows a user has marked published by hand
  overridden \* rows in flight that a user has written over

ghosts == <<epoch, unclear, calls, declared, overridden>>
vars == <<rows, uploads, phase, batch, job, read, crashes, ghosts>>

-----------------------------------------------------------------------------
(* Data                                                                    *)

RowStatus == {"draft", "approved", "on_hold", "scheduled", "publishing",
              "published", "failed"}

\* handle is platform_post_id: 0 is blank, n the n-th accepted upload.
\* backoff is next_retry_at: none, later than now, or past.
\* due: the effective time has come.  age: how many of the three timeouts
\* (stale, confirm, unconfirmed) updated_at is behind.
Age == 0..3
Row == [status  : RowStatus,
        retry   : Nat,
        backoff : {"none", "waiting", "over"},
        due     : BOOLEAN,
        handle  : Nat,
        age     : Age]

Upload == [state : {"processing", "live", "refused"}, epoch : Nat]

JobPc == {"none", "queued", "checked", "dispatch", "accepted", "logging",
          "retryable", "permanent", "sweep"}
Job == [pc : JobPc, obj : Row, upload : Nat]

Phase == {"idle", "batch", "publishing", "retryquery", "retrying", "sweeping"}

FreshRow == [status |-> "draft", retry |-> 0, backoff |-> "none",
             due |-> FALSE, handle |-> 0, age |-> 0]
NoJob == [pc |-> "none", obj |-> FreshRow, upload |-> 0]

CONSTANT NoRow
ASSUME NoRowAssumption == NoRow \notin Row

StaleAge == 1
ConfirmAge == 2
UnconfirmedAge == 3

Held == \E r \in Rows : rows[r].status = "on_hold"
Busy(w) == {r \in Rows : job[w][r].pc # "none"}
Running(w) == {r \in Rows : job[w][r].pc \notin {"none", "queued"}}

SetJob(w, r, j) == job' = [job EXCEPT ![w][r] = j]
EndJob(w, r) == SetJob(w, r, NoJob)

-----------------------------------------------------------------------------
Init ==
  /\ rows \in [Rows -> {[FreshRow EXCEPT !.status = s] : s \in {"draft", "approved"}}]
  /\ uploads = [r \in Rows |-> <<>>]
  /\ phase = [w \in Workers |-> "idle"]
  /\ batch = [w \in Workers |-> {}]
  /\ job = [w \in Workers |-> [r \in Rows |-> NoJob]]
  /\ read = [r \in Rows |-> NoRow]
  /\ crashes = 0
  /\ epoch = [r \in Rows |-> 0]
  /\ unclear = [r \in Rows |-> 0]
  /\ calls = [r \in Rows |-> 0]
  /\ declared = {}
  /\ overridden = {}

-----------------------------------------------------------------------------
(* The publish cycle: claims                                               *)

\* Two ways to get the exclusion wrong: to forget it, and to write it as a
\* filter, which drops every row whose next_retry_at is null.
IsDueIgnoringBackoff(r) == rows[r].status = "scheduled" /\ rows[r].due
IsDueNullUnsafe(r) ==
  rows[r].status = "scheduled" /\ rows[r].due /\ rows[r].backoff = "over"

IsDue(r) ==
  /\ rows[r].status = "scheduled"
  /\ rows[r].due
  /\ ~(rows[r].retry > 0 /\ rows[r].backoff = "waiting")

GetDuePlatformPosts == IF Held THEN {} ELSE {r \in Rows : IsDue(r)}

Poll(w) ==
  /\ phase[w] = "idle"
  /\ batch' = [batch EXCEPT ![w] = GetDuePlatformPosts]
  /\ phase' = [phase EXCEPT ![w] = IF GetDuePlatformPosts = {} THEN "retryquery" ELSE "batch"]
  /\ UNCHANGED <<rows, uploads, job, read, crashes, ghosts>>

\* Each of the two checks made under the lock, left out.
ClaimableUnchecked(w) == {r \in batch[w] : rows[r].status = "scheduled"}
ClaimableAsRead(w) == IF Held THEN {} ELSE batch[w]

\* Under the lock on every row of the post: nothing if one of them is held,
\* else the batch rows that are still scheduled.
Claimable(w) ==
  IF Held THEN {} ELSE {r \in batch[w] : rows[r].status = "scheduled"}

Claimed(r) == [rows[r] EXCEPT !.status = "publishing", !.age = 0]

ClaimGroup(w) ==
  /\ phase[w] = "batch"
  /\ rows' = [r \in Rows |-> IF r \in Claimable(w) THEN Claimed(r) ELSE rows[r]]
  /\ job' = [job EXCEPT ![w] =
       [r \in Rows |-> IF r \in Claimable(w)
                         THEN [pc |-> "dispatch", obj |-> rows[r], upload |-> 0]
                         ELSE NoJob]]
  /\ batch' = [batch EXCEPT ![w] = {}]
  /\ phase' = [phase EXCEPT ![w] = IF Claimable(w) = {} THEN "retryquery" ELSE "publishing"]
  /\ UNCHANGED <<uploads, read, crashes, ghosts>>

\* Every thread of the group has returned.
JoinGroup(w) ==
  /\ phase[w] = "publishing"
  /\ Busy(w) = {}
  /\ phase' = [phase EXCEPT ![w] = "retryquery"]
  /\ UNCHANGED <<rows, uploads, batch, job, read, crashes, ghosts>>

(* The publish cycle: retries, one row after the other                     *)

RetryDue(r) ==
  /\ ~Held
  /\ rows[r].status = "scheduled"
  /\ rows[r].retry \in 1..MAX_RETRIES
  /\ rows[r].backoff = "over"

QueryRetries(w) ==
  /\ phase[w] = "retryquery"
  /\ job' = [job EXCEPT ![w] =
       [r \in Rows |-> IF RetryDue(r)
                         THEN [pc |-> "queued", obj |-> rows[r], upload |-> 0]
                         ELSE NoJob]]
  /\ phase' = [phase EXCEPT ![w] = "retrying"]
  /\ UNCHANGED <<rows, uploads, batch, read, crashes, ghosts>>

CheckHold(w, r) ==
  /\ phase[w] = "retrying"
  /\ job[w][r].pc = "queued"
  /\ Running(w) = {}
  /\ IF Held THEN EndJob(w, r) ELSE job' = [job EXCEPT ![w][r].pc = "checked"]
  /\ UNCHANGED <<rows, uploads, phase, batch, read, crashes, ghosts>>

\* Writes the status of the row as it was read by the query, whatever the
\* row has become since.
ClaimRetry(w, r) ==
  /\ job[w][r].pc = "checked"
  /\ rows' = [rows EXCEPT ![r] = Claimed(r)]
  /\ job' = [job EXCEPT ![w][r].pc = "dispatch"]
  /\ UNCHANGED <<uploads, phase, batch, read, crashes, ghosts>>

CycleDone(w) ==
  /\ phase[w] \in {"retrying", "sweeping"}
  /\ Busy(w) = {}
  /\ phase' = [phase EXCEPT ![w] = "idle"]
  /\ UNCHANGED <<rows, uploads, batch, job, read, crashes, ghosts>>

-----------------------------------------------------------------------------
(* Dispatch to the platform                                                *)

\* The ghost counts as far as RetryBudget looks, and one further.
CallsCounted == MAX_RETRIES + 2
Attempt(r) ==
  calls' = [calls EXCEPT ![r] = IF @ < CallsCounted THEN @ + 1 ELSE @]

\* The account is rate limited, or the platform (or the client library, or
\* the media download) refuses before anything is accepted.
Refused(w, r) ==
  /\ job[w][r].pc = "dispatch"
  /\ \E kind \in {"retryable", "permanent"} : job' = [job EXCEPT ![w][r].pc = kind]
  /\ Attempt(r)
  /\ UNCHANGED <<rows, uploads, phase, batch, read, crashes, epoch, unclear, declared, overridden>>

Accept(r) ==
  /\ Len(uploads[r]) < MaxUploads
  /\ uploads' = [uploads EXCEPT ![r] =
       Append(@, [state |-> IF r \in AsyncRows THEN "processing" ELSE "live",
                  epoch |-> epoch[r]])]

Accepted(w, r) ==
  /\ job[w][r].pc = "dispatch"
  /\ Accept(r)
  /\ job' = [job EXCEPT ![w][r].pc = "accepted", ![w][r].upload = Len(uploads[r]) + 1]
  /\ Attempt(r)
  /\ UNCHANGED <<rows, phase, batch, read, crashes, epoch, unclear, declared, overridden>>

\* The platform took the post but the call raised: a timeout on the answer.
AcceptedUnclear(w, r) ==
  /\ job[w][r].pc = "dispatch"
  /\ Accept(r)
  /\ \E kind \in {"retryable", "permanent"} : job' = [job EXCEPT ![w][r].pc = kind]
  /\ unclear' = [unclear EXCEPT ![r] = @ + 1]
  /\ Attempt(r)
  /\ UNCHANGED <<rows, phase, batch, read, crashes, epoch, declared, overridden>>

-----------------------------------------------------------------------------
(* The outcome is written                                                  *)

\* The slips the comments of the save warn of: the status of the row as it was
\* loaded is written back; an upload delivered is taken for a post published.
SuccessRow_StaleStatus(r, obj, n) ==
  [obj EXCEPT !.status = IF r \in AsyncRows THEN obj.status ELSE "published",
              !.retry = 0, !.backoff = "none", !.handle = n, !.age = 0]
SuccessRow_AsyncPublished(r, obj, n) ==
  [obj EXCEPT !.status = "published", !.retry = 0, !.backoff = "none",
              !.handle = n, !.age = 0]

\* A full save of the object the thread holds: an asynchronous upload stays
\* publishing until the sweep confirms it.
SuccessRow(r, obj, n) ==
  [obj EXCEPT !.status = IF r \in AsyncRows THEN "publishing" ELSE "published",
              !.retry = 0, !.backoff = "none", !.handle = n, !.age = 0]

SaveSuccess(w, r) ==
  LET new == SuccessRow(r, job[w][r].obj, job[w][r].upload)
  IN  /\ job[w][r].pc = "accepted"
      /\ rows' = [rows EXCEPT ![r] = new]
      /\ IF WriteErrors
           THEN SetJob(w, r, [job[w][r] EXCEPT !.pc = "logging", !.obj = new])
           ELSE EndJob(w, r)
      /\ UNCHANGED <<uploads, phase, batch, read, crashes, ghosts>>

\* The PublishLog insert after a success: it goes through, or it raises and
\* the exception handler takes the publish for a failure.
WriteLog(w, r) ==
  /\ job[w][r].pc = "logging"
  /\ \/ EndJob(w, r)
     \/ job' = [job EXCEPT ![w][r].pc = "retryable"]
  /\ UNCHANGED <<rows, uploads, phase, batch, read, crashes, ghosts>>

\* The insert after a failure raises: the thread ends, the row stays as it is.
FailureUnlogged(w, r) ==
  /\ WriteErrors
  /\ job[w][r].pc \in {"retryable", "permanent"}
  /\ EndJob(w, r)
  /\ UNCHANGED <<rows, uploads, phase, batch, read, crashes, ghosts>>

\* The platform's word for the outcome, where the row's own belongs.
FailedRow_PlatformState(row) == [row EXCEPT !.status = "refused", !.age = 0]
FailedRow(row) == [row EXCEPT !.status = "failed", !.age = 0]

FailUnguarded(r) == rows' = [rows EXCEPT ![r] = FailedRow(rows[r])]
\* The guarded UPDATE: only a row that is still publishing is failed (and its
\* author told).
FailPermanently(r) ==
  rows' = IF rows[r].status = "publishing"
            THEN [rows EXCEPT ![r] = FailedRow(rows[r])] ELSE rows

RetryRow(obj) ==
  [obj EXCEPT !.status = "scheduled", !.retry = obj.retry + 1, !.backoff = "waiting", !.age = 0]

ExhaustedOffByOne(obj) == obj.retry > MAX_RETRIES
Exhausted(obj) == obj.retry >= MAX_RETRIES

\* A full save of the thread's object, unless the budget is spent.
ScheduleRetry(w, r) ==
  /\ job[w][r].pc = "retryable"
  /\ IF Exhausted(job[w][r].obj) THEN FailPermanently(r)
     ELSE rows' = [rows EXCEPT ![r] = RetryRow(job[w][r].obj)]
  /\ EndJob(w, r)
  /\ UNCHANGED <<uploads, phase, batch, read, crashes, ghosts>>

GiveUp(w, r) ==
  /\ job[w][r].pc = "permanent"
  /\ FailPermanently(r)
  /\ EndJob(w, r)
  /\ UNCHANGED <<uploads, phase, batch, read, crashes, ghosts>>

-----------------------------------------------------------------------------
(* The confirmation sweep                                                  *)

StartSweep(w) ==
  /\ phase[w] = "idle"
  /\ \E r \in Rows : rows[r].status = "publishing"
  /\ job' = [job EXCEPT ![w] =
       [r \in Rows |-> IF rows[r].status = "publishing"
                         THEN [pc |-> "sweep", obj |-> rows[r], upload |-> 0]
                         ELSE NoJob]]
  /\ phase' = [phase EXCEPT ![w] = "sweeping"]
  /\ UNCHANGED <<rows, uploads, batch, read, crashes, ghosts>>

MarkConfirmedPublished(r, obj) ==
  rows' = [rows EXCEPT ![r] = [obj EXCEPT !.status = "published", !.age = 0]]

\* What one look at a row concludes: "publish" it, "fail" it, or "leave" it for
\* the next sweep.
After(timeout, obj) == IF obj.age >= timeout THEN "fail" ELSE "leave"

\* A platform that publishes at once has no status to ask for, and a handle is
\* no proof that this attempt succeeded.
SyncVerdict(obj) == After(StaleAge, obj)

\* The platform could not be asked.
UnreachableVerdict_NeverGivesUp(obj) == "leave"
UnreachableVerdict(obj) == After(UnconfirmedAge, obj)

\* The platform's answer about an upload.
AnswerVerdict(obj, state) ==
  CASE state = "live"    -> "publish"
    [] state = "refused" -> "fail"
    [] OTHER             -> After(ConfirmAge, obj)

ConfirmVerdicts(r, obj) ==
  CASE obj.handle = 0   -> {After(StaleAge, obj)}
    [] r \in BrokenRows /\ obj.handle # 0 -> {"leave"}
    [] r \notin BrokenRows \cup AsyncRows /\ obj.handle # 0 -> {SyncVerdict(obj)}
    [] OTHER -> {UnreachableVerdict(obj), AnswerVerdict(obj, uploads[r][obj.handle].state)}

ConfirmOne(w, r) ==
  /\ job[w][r].pc = "sweep"
  /\ \E verdict \in ConfirmVerdicts(r, job[w][r].obj) :
       CASE verdict = "publish" -> MarkConfirmedPublished(r, job[w][r].obj)
         [] verdict = "fail"    -> FailPermanently(r)
         [] OTHER               -> UNCHANGED rows
  /\ EndJob(w, r)
  /\ UNCHANGED <<uploads, phase, batch, read, crashes, ghosts>>

-----------------------------------------------------------------------------
(* Web requests.  obj is the row as the request read it.                   *)

\* Entering the queue starts afresh: no retries, no backoff, no handle.
Requeued_KeepsHandle(obj) ==
  [obj EXCEPT !.status = "scheduled", !.retry = 0, !.backoff = "none"]
Requeued(obj) ==
  [obj EXCEPT !.status = "scheduled", !.retry = 0, !.backoff = "none", !.handle = 0]

TransitionTo(obj, to) ==
  IF to = "scheduled" THEN Requeued(obj) ELSE [obj EXCEPT !.status = to]

\* TRANSITION_FIELDS and updated_at are written, and the time where the request
\* sets one.
Write(r, obj, due) == rows' = [rows EXCEPT ![r] = [obj EXCEPT !.due = due, !.age = 0]]

\* The composer reaches "scheduled" by way of "draft" where there is no edge.
CanSchedule(from) ==
  \/ CanTransition(from, "scheduled")
  \/ CanTransition(from, "draft") /\ CanTransition("draft", "scheduled")

\* Schedule, publish now, retry a failed row, add to a queue.
Schedule(r, obj) ==
  /\ CanSchedule(obj.status)
  /\ epoch[r] < MaxSchedules
  /\ \E due \in BOOLEAN : Write(r, TransitionTo(obj, "scheduled"), due)
  /\ epoch' = [epoch EXCEPT ![r] = @ + 1]
  /\ calls' = [calls EXCEPT ![r] = 0]
  /\ overridden' = IF rows[r].status = "publishing" THEN overridden \cup {r} ELSE overridden
  /\ UNCHANGED declared

PROTECTED_STATUSES == {"published", "publishing"}

\* The composer is saved, or a row dragged to another time: every field is
\* written back as read, the time is the request's.  A post whose rows are all
\* protected takes no save.
Edit(r, obj) ==
  /\ \/ obj.status \notin PROTECTED_STATUSES
     \/ \E q \in Rows \ {r} : rows[q].status \notin PROTECTED_STATUSES
  /\ \E due \in BOOLEAN : Write(r, obj, due)
  /\ UNCHANGED <<epoch, calls, declared, overridden>>

\* Every other edge a request may take: unschedule, hold, resume, and the
\* status chip, which takes any edge of the table.  The time is left alone:
\* only a scheduled row's is looked at.
MoveTo(r, obj, to) ==
  /\ to # "scheduled"
  /\ to \in RowStatus
  /\ CanTransition(obj.status, to)
  /\ Write(r, TransitionTo(obj, to), rows[r].due)
  /\ declared' = IF to = "published" THEN declared \cup {r} ELSE declared
  /\ overridden' = IF rows[r].status = "publishing" THEN overridden \cup {r} ELSE overridden
  /\ UNCHANGED <<epoch, calls>>

Apply(r, obj) == \/ Schedule(r, obj)
                 \/ Edit(r, obj)
                 \/ \E to \in RowStatus : MoveTo(r, obj, to)

Request(r) == /\ Apply(r, rows[r])
              /\ UNCHANGED <<uploads, phase, batch, job, read, crashes, unclear>>

\* The copy's age and due are never written back, so they are left out.
ReadRow(r) ==
  /\ Overtaking
  /\ read[r] = NoRow
  /\ read' = [read EXCEPT ![r] = [rows[r] EXCEPT !.age = 0, !.due = FALSE]]
  /\ UNCHANGED <<rows, uploads, phase, batch, job, crashes, ghosts>>

FinishRequest(r) ==
  /\ read[r] # NoRow
  /\ Apply(r, read[r])
  /\ read' = [read EXCEPT ![r] = NoRow]
  /\ UNCHANGED <<uploads, phase, batch, job, crashes, unclear>>

-----------------------------------------------------------------------------
(* Time, the platform, and kills                                           *)

BecomesDue(r) ==
  /\ rows[r].status = "scheduled"
  /\ ~rows[r].due
  /\ rows' = [rows EXCEPT ![r].due = TRUE]
  /\ UNCHANGED <<uploads, phase, batch, job, read, crashes, ghosts>>

\* next_retry_at is a point in time: it passes for a copy of the row too.
BackoffEnds(r) ==
  /\ rows[r].status = "scheduled"
  /\ rows[r].backoff = "waiting"
  /\ rows' = [rows EXCEPT ![r].backoff = "over"]
  /\ read' = IF read[r] # NoRow /\ read[r].backoff = "waiting"
               THEN [read EXCEPT ![r].backoff = "over"] ELSE read
  /\ UNCHANGED <<uploads, phase, batch, job, crashes, ghosts>>

Ages(r) ==
  /\ rows[r].status = "publishing"
  /\ rows[r].age < UnconfirmedAge
  /\ rows' = [rows EXCEPT ![r].age = @ + 1]
  /\ UNCHANGED <<uploads, phase, batch, job, read, crashes, ghosts>>

PlatformFinishes(r) ==
  /\ \E n \in 1..Len(uploads[r]), outcome \in {"live", "refused"} :
       /\ uploads[r][n].state = "processing"
       /\ uploads' = [uploads EXCEPT ![r][n].state = outcome]
  /\ UNCHANGED <<rows, phase, batch, job, read, crashes, ghosts>>

Crash(w) ==
  /\ phase[w] # "idle"
  /\ crashes < MaxCrashes
  /\ crashes' = crashes + 1
  /\ phase' = [phase EXCEPT ![w] = "idle"]
  /\ batch' = [batch EXCEPT ![w] = {}]
  /\ job' = [job EXCEPT ![w] = [r \in Rows |-> NoJob]]
  /\ UNCHANGED <<rows, uploads, read, ghosts>>

-----------------------------------------------------------------------------
Thread(w, r) ==
  \/ CheckHold(w, r) \/ ClaimRetry(w, r)
  \/ Refused(w, r) \/ Accepted(w, r) \/ AcceptedUnclear(w, r)
  \/ SaveSuccess(w, r) \/ WriteLog(w, r) \/ FailureUnlogged(w, r)
  \/ ScheduleRetry(w, r) \/ GiveUp(w, r)
  \/ ConfirmOne(w, r)

Cycle(w) == Poll(w) \/ ClaimGroup(w) \/ JoinGroup(w) \/ QueryRetries(w) \/ CycleDone(w)

User(r) == Request(r) \/ ReadRow(r) \/ FinishRequest(r)
Clock(r) == BecomesDue(r) \/ BackoffEnds(r) \/ Ages(r)

Next ==
  \/ \E w \in Workers : Cycle(w) \/ StartSweep(w) \/ Crash(w)
  \/ \E w \in Workers, r \in Rows : Thread(w, r)
  \/ \E r \in Rows : User(r) \/ Clock(r) \/ PlatformFinishes(r)

Spec == Init /\ [][Next]_vars

\* The worker keeps running and alternates its two tasks: each is due again
\* every few seconds, so neither is passed over for ever.  Platform calls end
\* (every client has a timeout) and the clock advances.  Nothing is assumed of
\* the users, of the platform's processing, or of kills.
Fairness ==
  /\ \A w \in Workers :
       /\ SF_vars(Poll(w))
       /\ SF_vars(StartSweep(w))
       /\ WF_vars(ClaimGroup(w) \/ JoinGroup(w) \/ QueryRetries(w) \/ CycleDone(w))
       /\ \A r \in Rows : WF_vars(Thread(w, r))
  /\ \A r \in Rows : WF_vars(BackoffEnds(r)) /\ WF_vars(Ages(r))

FairSpec == Spec /\ Fairness

-----------------------------------------------------------------------------
(* Properties                                                              *)

TypeOK ==
  /\ rows \in [Rows -> Row]
  /\ uploads \in [Rows -> Seq(Upload)]
  /\ phase \in [Workers -> Phase]
  /\ batch \in [Workers -> SUBSET Rows]
  /\ job \in [Workers -> [Rows -> Job]]
  /\ read \in [Rows -> Row \cup {NoRow}]
  /\ crashes \in Nat
  /\ epoch \in [Rows -> Nat]
  /\ unclear \in [Rows -> Nat]
  /\ calls \in [Rows -> Nat]
  /\ declared \in SUBSET Rows
  /\ overridden \in SUBSET Rows

IsLive(r, n) == n \in 1..Len(uploads[r]) /\ uploads[r][n].state = "live"

(* A post never reads "Published" unless it is on the platform, under the  *)
(* handle the row records: neither an upload the platform is still         *)
(* processing or went on to refuse, nor a handle of nothing (engine.py     *)
(* 590-604, 1226-1231).  A row a user marked published by hand is his.     *)
PublishedIsLive ==
  \A r \in Rows \ declared : rows[r].status = "published" => IsLive(r, rows[r].handle)

\* What keeps it so.  Handles are handles of uploads, wherever they are held;
\* the upload a thread is about to record exists; a request that read a
\* published row read a live one; and a platform that publishes at once has
\* every upload live.
HandlesExist ==
  \A r \in Rows :
    /\ rows[r].handle <= Len(uploads[r])
    /\ read[r] # NoRow => read[r].handle <= Len(uploads[r])
    /\ \A w \in Workers : job[w][r].obj.handle <= Len(uploads[r])

AcceptedIsUploaded ==
  \A w \in Workers, r \in Rows :
    job[w][r].pc = "accepted" => job[w][r].upload \in 1..Len(uploads[r])

ReadIsLive ==
  \A r \in Rows \ declared :
    (read[r] # NoRow /\ read[r].status = "published") => IsLive(r, read[r].handle)

SyncIsLive == \A r \in Rows \ AsyncRows : \A n \in 1..Len(uploads[r]) : IsLive(r, n)

(* The inductive strengthening of PublishedIsLive: whatever the engine, the *)
(* sweep and overtaken requests interleave to, every handle they hold names *)
(* an upload of its row, and no copy of a published row outlives the truth  *)
(* of it (the full saves of engine.py 573-603, 1306-1337 write such copies).*)
LiveInv ==
  /\ TypeOK
  /\ HandlesExist
  /\ AcceptedIsUploaded
  /\ ReadIsLive
  /\ SyncIsLive
  /\ PublishedIsLive

Copies(r) == {n \in 1..Len(uploads[r]) : uploads[r][n].state # "refused"}

(* The engine never posts twice of its own accord: the copies on the       *)
(* platform are at most one per deliberate schedule, plus one per call     *)
(* the platform accepted and answered with an error, which nobody can tell *)
(* from a refusal.  In particular neither a kill, nor the sweep, nor a     *)
(* retry adds a copy.                                                      *)
NoSilentDoublePost ==
  \A r \in Rows : Cardinality(Copies(r)) <= epoch[r] + unclear[r]

(* A publish the sweep settles is one of this schedule: whenever the sweep *)
(* turns a row to published, the upload behind the handle was made since   *)
(* the row was last scheduled (models.py 581-586: a handle of a previous   *)
(* attempt would report a publish that never reached the platform).  Rows  *)
(* a user wrote over in mid-flight are excepted.                           *)
SweepConfirmsThisSchedule ==
  [][\A w \in Workers, r \in Rows :
       (job[w][r].pc = "sweep" /\ job'[w][r].pc = "none" /\ rows[r].status = "publishing"
          /\ rows'[r].status = "published" /\ r \notin overridden)
         => uploads[r][rows'[r].handle].epoch = epoch[r]]_vars

(* However its attempts end, a row is tried at most MAX_RETRIES + 1 times  *)
(* per deliberate schedule, kills included; rows a user wrote over in      *)
(* mid-flight are excepted.                                                *)
RetryBudget == \A r \in Rows \ overridden : calls[r] <= MAX_RETRIES + 1

(* A row on its backoff is not attempted: the attempt that begins finds a  *)
(* row whose next_retry_at has passed (engine.py 413-418: the backoff was  *)
(* dead code when the due query took such rows).                           *)
BackoffIsRespected ==
  [][\A w \in Workers, r \in Rows :
       (job[w][r].pc # "dispatch" /\ job'[w][r].pc = "dispatch")
         => ~(job'[w][r].obj.retry > 0 /\ job'[w][r].obj.backoff = "waiting")]_vars

(* The publish group and a client's hold are ordered by the row locks: the *)
(* group that dispatches found no row of the post on hold, even when the   *)
(* hold was placed after the due query.                                    *)
GroupNeverClaimsHeldPost ==
  [][\A w \in Workers :
       (phase[w] = "batch" /\ phase'[w] = "publishing") => ~Held]_vars

(* However late a slow upload, an interrupted attempt or a lost answer     *)
(* reports, and whichever engine or sweep settled the row meanwhile, a row *)
(* that reads published is never walked back to failed, where its author   *)
(* would be told to post a live post again (engine.py 970-999).            *)
PublishedNeverFails ==
  [][\A r \in Rows :
       rows[r].status = "published" => rows'[r].status # "failed"]_vars

(* Every row in flight leaves "publishing", whatever was killed and        *)
(* whatever the platform answers: the status is a dead end in the UI, and  *)
(* the sweep exists so that no row stays in it (engine.py 1306-1312).      *)
PublishingIsLeft ==
  \A r \in Rows : rows[r].status = "publishing" ~> rows[r].status # "publishing"

(* A scheduled row whose time has come is taken by the worker, unless its  *)
(* post is held or somebody moves it first; a backoff delays it only.      *)
DueRowIsTaken ==
  \A r \in Rows :
    (rows[r].status = "scheduled" /\ rows[r].due)
      ~> (rows[r].status # "scheduled" \/ ~rows[r].due \/ Held)

(* models.py 402-405: "There is deliberately no on_hold -> scheduled edge   *)
(* - un-hold to approved first so nothing publishes straight out of a      *)
(* hold": no write takes a held row into the queue.                        *)
HeldIsResumedFirst ==
  [][\A r \in Rows : rows[r].status = "on_hold" => rows'[r].status # "scheduled"]_vars

(* engine.py 607-611: after a success, nothing must fall through to the    *)
(* handler that "would schedule a retry and double-post".                  *)
RecordedSuccessIsNotRetried ==
  [][\A r \in Rows \ declared : rows[r].status = "published" => rows'[r].status # "scheduled"]_vars

(* engine.py 1121-1124: "a retrying child must not publish while any       *)
(* sibling is on_hold" and the per-row re-check "closes a hold placed      *)
(* after" the query.                                                       *)
RetryNeverClaimsHeldPost ==
  [][\A w \in Workers, r \in Rows :
       (job[w][r].pc = "checked" /\ job'[w][r].pc = "dispatch") => ~Held]_vars
=============================================================================
