# Verification of BrightBean Studio

TLA+ models of how BrightBean Studio reviews, schedules and publishes a post,
and of the services around that: first comments, notifications, queues, portal
links, invitations, API keys, agent requests, the inbox and metrics syncs, the
quota breaker. TLC checks the models on small instances; TLAPS proves the
results listed below for every value of the constants.

- [1 The system](#1-the-system)
- [2 The modules and the code](#2-the-modules-and-the-code)
- [3 The runs](#3-the-runs)
- [4 Bounds](#4-bounds)
- [5 Fairness](#5-fairness)
- [6 The proofs](#6-the-proofs)
- [7 What the code does that its comments deny](#7-what-the-code-does-that-its-comments-deny)
- [8 What is not modelled](#8-what-is-not-modelled)
- [9 What is left](#9-what-is-left)

To check a module, in this directory: `tlc -config X.cfg M` and
`tlapm M_proofs.tla`.

## 1 The system

A Django application and one background worker (`manage.py process_tasks`,
django-background-tasks). They share a PostgreSQL database and a cache, and
little else: almost every interaction below is a row one of them writes and
another reads later, so the hazards are stale copies, unlocked check-then-write,
claims that time out, and a worker killed between two statements.

| Component | State it keeps | What is hard in it | What makes it correct |
|---|---|---|---|
| **Platform post** (`composer/models.py`) | `status`, `retry_count`, `next_retry_at`, `platform_post_id`, `scheduled_at` | written by web requests and by worker threads that save whole objects they read long before | only edges of `VALID_TRANSITIONS`; a re-schedule starts afresh |
| **Aggregate status** (`composer/status.py`) | none: derived from the rows | every mixture of ten statuses | never hides a failed, held or live channel |
| **Composer** (`composer/views.py`, `services.py`) | posts, rows, versions | saves scoped to one account; the approval gate; saves overtaken by the engine | a live post is not rewritten, no history deleted, nothing scheduled unreviewed |
| **Publish engine** (`publisher/engine.py`) | the rows, `PublishLog`; in memory a batch, two thread pools, a media cache | claims, threads, retries, kills between any two statements, lost answers | a post goes out once, in time, and its row says what happened |
| **Confirmation sweep** (`engine.py` 1157-1337) | the rows in `publishing` | races the publish threads; platforms that cannot be asked | every row leaves `publishing` with the right outcome |
| **First comments** (`engine.py` 508-536, 1400-1666) | `first_comment_status`, its retry count, task rows | ambiguous failures, interruptions, edits | posted once, never silently lost |
| **Providers** (`providers/*.py`) | none | several requests per post, each can be lost | an error is retryable only while nothing is up for all it knows |
| **Calendar** (`calendar/services.py`, `tasks.py`, `views.py`) | slots, queues, recurrences | two callers choose the same slot; ladders of moved posts | one row per slot; the queue keeps its order |
| **Approvals** (`approvals/`) | row statuses, reminders | two reviewers at once; edits after approval; the gate; the hourly task killed half way | what ships was approved; bounded reminders; the stalled is escalated |
| **Client portal** (`client_portal/`) | magic links | links issued or used twice at once | a failed send leaves the old link valid |
| **Notifications** (`notifications/engine.py`) | deliveries, digest claims | claims that time out, workers killed after sending | bounded attempts and copies; everything settles |
| **Social inbox** (`inbox/`) | messages, sync cursors | a capped walk that resumes while comments arrive | no comment behind a finished sweep is missing |
| **Analytics** (`analytics/tasks.py`), **quota breaker** (`common/quota.py`) | attempt stamps, failure counts, quota blocks | truncated passes, posts that always fail, refusals recorded out of order | every post is reached; a refusal is heeded |
| **API keys, agent posts** (`api_keys/`, `api/`) | keys and their cache entries, idempotency records | a slow reader stores a revoked key; a retry of a request still running | revocation reaches everyone in time; a retry creates nothing new |
| **Members** (`members/services.py`) | invitations, budgets | resends at once; a refused mail gives its slot back | capped mails |
| **Media library, intelligence, MCP server, OAuth, social accounts, organizations, settings, common** | records, tokens, files | see section 8 | |

How they meet. The composer, the calendar and the approvals write
`PlatformPost.status` by `transition_to` and a save of named fields. The worker
polls for scheduled rows that are due, claims those of one post under
`select_for_update` on *all* its rows (so that a hold, which also locks, is
either seen or comes after), and runs one thread per row; the thread saves the
**whole** row it holds. Success queues the first comment as a task of the same
worker. Once a minute the sweep looks at the rows still `publishing`. Approvals
and publishing create notifications, whose digests and retries are recurring
tasks, as are the inbox poll, the hourly metrics pass and the health check; the
last three spend one platform quota through the breaker.

`PROJECT.json` lists the components with their status, and under `hazards` each
place where this goes wrong when one line is changed, with the property that
would show it.

## 2 The modules and the code

### PlatformPostStatus, PostAggregate
`VALID_TRANSITIONS`, `derive_post_status` (a function of the *set* of statuses,
as the code's) and `READONLY_STATUSES`, used by the other modules.
`PostAggregate` has a post with a row per account or none: `Move` is any writer
of a status, `Save` a composer save with `_is_readonly_write` as guard, then
`_remove_deselected_platform_posts` and the newly selected rows. A save may be
scoped to one account, also to one the post has no row for.

### Publisher
The rows of one post, the platform's uploads for each, and engines (`Workers`).

| Model | Code |
|---|---|
| `rows[r]` | the row's status, retry count, `next_retry_at` (none / waiting / over), whether its time has come, `platform_post_id`, and how far `updated_at` lies behind the sweep's three timeouts |
| `uploads[r]` | external: what the platform accepted, and whether it is processing, live or refused |
| `phase[w]`, `batch[w]` | where the worker is in `poll_and_publish` or in the sweep, and what its due query returned |
| `job[w][r]` | one thread, retry turn or sweep turn, with the **object it holds**, which it saves whole |
| `read[r]` | what a web request in progress has read |
| `Poll`, `ClaimGroup`, `JoinGroup` | `_get_due_platform_posts`, the locked section of `_publish_post_group`, the wait for its threads |
| `QueryRetries`, `CheckHold`, `ClaimRetry` | `_process_retries`, three statements |
| `Refused`, `Accepted`, `AcceptedUnclear` | the provider call: refused, accepted, accepted with the answer lost |
| `SaveSuccess`, `WriteLog`, `FailureUnlogged` | the save after success; the `PublishLog` inserts, which can raise |
| `ScheduleRetry`, `GiveUp` | `_schedule_retry`, `_fail_permanently` (a guarded `UPDATE`) |
| `StartSweep`, `ConfirmOne` | `confirm_pending_publishes`, `_confirm_one_publish` |
| `Schedule`, `Edit`, `MoveTo` | schedule / publish now / retry; full composer saves and drags; every other edge of the table |
| `Request`; `ReadRow` then `FinishRequest` | a request that is not overtaken; one that is: it writes what it read, whatever happened since |
| `Crash` | the worker is killed; memory is gone, rows stay |

Ghost variables (`epoch`, `unclear`, `calls`, `declared`, `overridden`) record
history the properties need and never guard a step, but for `epoch`, which
bounds the schedules. `declared` are rows a *user* set to published with the
status chip; `overridden` are rows a user moved while they were in flight.

### PublishCycle
Inside one `poll_and_publish`: the group pool, the platform pool all groups
share, and `_SharedMediaCache` with its map lock and its lock per attachment.
`TakeGroup`, `SubmitRows`, `TakeRow`, `Cleanup` are the threads of the pools;
`JobStep(j)` a platform thread's way through the cache: the entry, its lock, the
download (begun in one step and ended in another, under the lock) or the path,
the upload. A download ends, fails or hangs (`stuck`).

### ProviderPublish, PublishCall
`PublishCall` is the abstract promise the engine's retries rest on: a call puts
up one post and returns, or raises with nothing put up, or loses sight of the
submission itself. `ProviderPublish` has, for every platform and kind of post
(and for comments), the requests `publish_post` makes and in which order, as a
sequence of step kinds (`check`, `read`, `tryread`, `stage`, `photo`, `poll`,
`init`, `submit`, `submitid`, `either`); each kind has its outcomes and what the
code makes of them. `KeepsPromise` is the refinement: every behaviour of
`ProviderPublish` is one of `PublishCall`.

### FirstComment
One published row. `Enqueue` and `MarkPending` are the two statements of
`_maybe_schedule_first_comment`; `Load` to `Requeue` are
`_post_first_comment_task`, one action per exit; `Interrupt` ends the worker's
step anywhere, and the task runs again. `EditText` changes the text meanwhile.
`comments[t]` counts the copies of text `t` on the platform, since
`find_own_comment` recognises a comment by its text. The publisher hands over at
one point (`published -> Enqueue`), so the two are checked apart.

### Editorial
One post's rows through submission, internal and client approval, holds and
rejections (`approvals/services.py`), the composer's saves and chips with the
approval gate, and the hourly reminder task (`approvals/tasks.py`). A handler
reads the rows in one step and writes them in another. `content` numbers what
the post says, `decided[r]` is the content a row was last approved with;
`slipped`, `muted` and `told` are ghosts that name the exceptions of the
properties. The reminder task is `ProcessStage`, `SendReminder`, `SaveReminder`,
with kills between them.

### Delivery
The e-mails and webhooks of one user (`notifications/engine.py`): `Notify`
creates a row that a thread sends at once (`Charge`, `Send`, `Record`) or that
waits for a digest; `Retry` is the retry sweep's turn; a digest sweep is
`StartSweep`, the two reapers, `Choose`, `Claim`, `Reread`, `Resolve`,
`SendDigest` and the three settling UPDATEs, each a statement of its own.

### QueueSlots
The posts of one channel in its queues (`calendar/services.py`): an operation
(add, prioritise, reorder, remove) locks the channel, reads and plans (`plan`),
then writes its rows in one transaction; beside it drags, clones, unscheduling
and publishes, which take no lock. A slot is an instant.

### The other services
`MagicLinks` (`client_portal/services.py`: issue, mail, supersede, consume,
revoke, remove a client), `Invitations` (`members/services.py`: create, resend,
revoke, accept, with send slots and budgets), `ApiKeys` (`api_keys/services.py`:
verification through the cache, update, revocation, offboarding), `AgentPosts`
(`api/middleware.py` and the post endpoint: idempotency records, claims, the
daily quota), `InboxSync` (`inbox/tasks.py`, YouTube's comment walk: sweep,
first import, cursors, webhooks), `AnalyticsSync` (`analytics/tasks.py`: the
hourly pass and the backfill, due posts in batches, attempt stamps and backoff),
`QuotaBreaker` (`common/quota.py` and the way passes and checks ask it). Each is
a module of its own with one action per database statement or external call
where an interleaving can matter.

### MC modules
`MCPublisher`, `MCEditorial` give constants their values; `MCPublishTasks` leaves
the posts, rows and files of the cycle to its configuration, so that its theorem
holds for all of them. Components that share
no state with one another are checked in one run each: the initial state chooses
which one works, the others stay at rest. So the states add up and do not
multiply, and nothing is lost, since no interleaving between them means
anything: `MCPublishTasks` (FirstComment, PublishCycle), `MCDelivery` (Delivery,
AnalyticsSync), `MCServices` (PostAggregate, MagicLinks, Invitations, ApiKeys,
AgentPosts, InboxSync, QueueSlots, QuotaBreaker, ProviderPublish).

## 3 The runs

| Run | Question | Properties |
|---|---|---|
| `publisher` | one asynchronous row, two schedules, a retry, three uploads, a kill | `TypeOK`, `NoSilentDoublePost`, `RetryBudget`, `SweepConfirmsThisSchedule`, `BackoffIsRespected` |
| `overtaken` | requests that write back a row they read long ago | `PublishedIsLive` |
| `group` | two rows of one post and a hold | `GroupNeverClaimsHeldPost` |
| `engines` | two engines over one row, a kill, failing log inserts | `NoSilentDoublePost`, `PublishedNeverFails` |
| `live` | does every row come to rest? | `PublishingIsLeft`, `DueRowIsTaken` |
| `tasks` | first comments; the threads of a cycle | `CommentedOnce`, `CallsBounded`, `PendingHasTask`, `CommentSettles`; `FilesSharedWhileUsed`, `CycleEnds`, `OthersAreDone` |
| `delivery` | notifications with two sweeps; the metrics of one account | `CopiesBounded`, `OneMailer`, `QueuedSettles`, `SentAloneSettles`; `EveryPostIsReached` |
| `review` | two requests at once, or one at a time beside the reminder task | `ApprovedAsDecided`, `RemindersBounded`, `StalledIsEscalated` |
| `services` | nine services, each by itself | `OutcomeIsUnanimous`, `HistoryIsNeverDeselected`, `ClosedPostStaysClosed`; `ClientKeepsAWayIn`; `InviteMailIsBounded`; `StaleRowsDie`, `OffboardedAtOnce`; `RetriesAreSafe`; `SweptHistoryIsComplete`; `OnlyHandsDoubleBook`, `LadderKeepsOrder`; `RefusalsAreHeeded`; `NoStrayPhotos`, `KeepsPromise` |
| `finding_*` | section 7 | one each |

What they show, in words:

- A row reads *published* only if the platform has that very upload live, stale
  copies included, and is never walked back to failed; the sweep settles a row
  only by an upload of its present schedule.
- A kill, the sweep, a retry or (without retries) a second engine never adds a
  copy to the platform; the one source of duplicates is a call that was accepted
  and reported as an error. That the provider adapters cause no other one is
  `KeepsPromise`: no request after the submission may raise.
- A row is attempted at most `MAX_RETRIES + 1` times per schedule and never
  before its backoff is over. With a fair worker each row leaves `publishing`
  and each due row is taken.
- Group threads and platform threads never wait for each other in a circle, a
  media file is downloaded once and stays while it is used, and a download that
  hangs keeps only the rows that want that file.
- A first comment is not duplicated by any sequence of failures and retries,
  only by an interruption between the call and its record, or a record that
  could not be written. It ends posted or failed, unless its text was removed.
- An approved row was approved with the content it has, except after the saves
  of section 7 and writes from stale reads; reminders are capped; what stays in
  a stage is escalated unless it is saved again.
- A delivery is mailed no more often than its attempts allow, plus one per
  further overlapping sweep; everything queued settles.
- Every post's metrics are attempted again and again, however early each pass
  ends and whatever keeps failing, as long as passes come to the account; a
  quota refusal is heeded by every run that starts after it was recorded.
- Only a drag or a clone books an instant twice; prioritising keeps the order of
  entries that do not share an instant.
- A portal link is ended by a newer one only when that one was mailed; invitation
  mail stays within its caps; a stale API key row dies within the cache's
  lifetime plus one request, and an issuer who left grants nothing at once;
  retries of an agent request name one post; a finished inbox sweep has no holes
  behind it.

Every property of a passing run has a mutant in `PROJECT.json`: a plausible slip
in one definition (a dropped check, `>` for `>=`, a missed reset, a stale
status) under which the same run is violated.

`CHECK_DEADLOCK FALSE` is set everywhere: the bounded models really stop, once
rows have settled and schedules, clocks and requests are used up. A wait that
never ends is a liveness question here (`CycleEnds`, `PublishingIsLeft`,
`QueuedSettles`).

Some statements are defined beside the checked ones and in no run: two that hold
and are shallow or proved (`MagicLinks.LinksAreSingleUse`,
`PostAggregate.UIStricterThanServer`), and those of section 7 that state a
comment the code does not keep. `TypeOK` is an invariant of `publisher`; the
other modules' are proved, or hold in the runs when added to them.

## 4 Bounds

| Module | Bound | Why it is enough |
|---|---|---|
| PostAggregate | 3 accounts | the derived status depends on the set of statuses; scoped rules need the row in scope, one outside, one absent |
| Publisher | `Rows` 1, 2 in `group` | rows meet only in `Held` and the group's claim |
| | `Workers` 1, the documented deployment; 2 in `engines` | two processes show a missing re-check |
| | `MAX_RETRIES` 1; 0 in `group`, `engines`, `overtaken` (the code: 3) | one retry reaches the claim, the save and the exhausted branch |
| | `MaxSchedules` 1 or 2, `MaxUploads` up to 3 | a second schedule can meet a handle or a count of the first; one upload to spare |
| | `MaxCrashes` 1; 0 in `group`, `finding_log` | a kill loses all memory and can fall between any two steps; the proofs have no bound |
| | `age` in 0..3, `CallsCounted` | the sweep's three timeouts in order; one further than `RetryBudget` looks |
| FirstComment | 2 retries (the code: 3), 2 interruptions, 2 texts | first, middle and last attempt differ; an interrupted re-run is interrupted again; an edit and an edit back |
| PublishCycle | posts of 3 rows and 1, 2 attachments, pools of 1-2 and 1-3 | opposite orders of want within a post, the same attachment in two posts, fewer and more threads than rows |
| Delivery | 1 delivery, 2 sweeps, 2 attempts, 2 kills | the claim is contested, lost and taken over; deliveries meet only in a digest's selection; the proofs have no bound |
| AnalyticsSync | 2 posts of different cadence, one gone, batches of 1, backoff up to 4 h | one always fails and comes due beside one that does not; only comparisons with the cap are made |
| Editorial | 1 row, 2 handlers, 1 reminder (the code: 3), 1 edit, 1 kill | two decisions on one row; cap, one past it and its reset; `Crews` names which requests run together |
| QueueSlots | 3 posts, 2 queues, slots 1-3, horizon 3, one move by hand, clock to 1 | a ladder of two movers past a fixed row; a slot that is past; the proofs have no bound |
| MagicLinks | 3 links, 2 managers, 2 browsers | a link superseded by one that is superseded |
| Invitations | 2 rows, 2 requests, 2 mails a row, budget 3 | the row's cap and the organization's are both reached |
| ApiKeys | 2 requests, 1 permission, cache of 2 ticks, clock to 3 | a slow fill stored after the revocation and read by another |
| AgentPosts | 3 attempts, 2 bodies, limit 2 of 3 posts | original, retry and a different body under one key |
| InboxSync | 2 cycles, pages of 1, 2 comments, clock to 3 (4 and 3 in `finding_first_import`) | a walk is cut in the middle while a comment arrives |
| QuotaBreaker | 2 passes and a check, 1 budget, backoff 1, windows up to 2, clock to 3 | a long window, a short one and the fallback, in both orders; budgets do not meet; the proof has no bound |
| ProviderPublish | carousels of 2, 4 calls | first, last and a middle step of each sequence; `MAX_RETRIES + 1` calls |

`engines` has no retries because with them the property fails (section 7).
`overtaken` may overtake every request; in the other Publisher runs a request is
atomic. Interchangeable members of sets are symmetric in `engines` and in
`services`, which check no liveness.

## 5 Fairness

*Publisher.* The worker alternates its two recurring tasks (every 15 s and every
60 s, `publisher/tasks.py`), each due again and again: strong fairness of `Poll`
and `StartSweep`, which compete for the one idle worker. Inside a task each step
follows the last: weak fairness of the cycle's steps and of each thread. A
provider call ends because every HTTP client has a timeout. The clock advances:
weak fairness of `BackoffEnds` and `Ages`. Nothing is assumed of users, of the
time a user chose (`BecomesDue`), of the platform's processing, or of kills.

*FirstComment.* The worker works (`WF_vars(Work)`). *PublishCycle.* A pool's
free thread takes what is submitted and each thread goes on; a download that
hangs is `stuck` and owes nothing.

*Delivery.* Sweeps start and go on, senders go on, backoffs end and the clock
ticks, all weak. Kills are bounded by `MaxKills` and owed by nobody.

*Editorial.* The hourly task comes to each stage again and again (strong, since
one stage is worked on at a time), finishes what it started, and time passes.

*AnalyticsSync.* The clock ticks; strong fairness of the hourly pass's
`Answer`: a platform asked over and over does not refuse, nor does the pass end,
before every answer. `EveryPostIsReached` further assumes what the code does not
ensure, that the pass comes to the account (section 7).

## 6 The proofs

Every safety invariant and every action property of a passing run is proved, and
so is the refinement. The theorems hold for every set of accounts, rows, workers,
texts, deliveries, sweeps, requests, links, queues, callers, groups and jobs and
every value of the bounds. What they assume
is the modules' named `ASSUME`s, the types of the constants, and where the
theorem says so one of these, which its proofs module defines:

| Assumption | Of | Says |
|---|---|---|
| `QuotaLimits`, `KeyLimits`, `InviteLimits` | QuotaBreaker, ApiKeys, Invitations | the bounds are numbers; requests and rows are finitely many |
| `AgentLimits`, `CycleLimits`, `SyncLimits` | AgentPosts, PublishCycle, InboxSync | finitely many attempts, jobs, groups; the past before the account is some comments |
| `ChannelLimits` | QueueSlots | `SlotLimits` of the channels of both services: finitely many rows, slots and moves within the horizon |
| `Items \in Nat \ {0}` | ProviderPublish | a post has attachments |
| `OneEngine` | Publisher | all workers are one process, as deployed |
| `Overtaking = FALSE` | Publisher | a web request is not overtaken between its read and its write |
| `WriteErrors = FALSE` | Publisher | the log inserts do not raise |
| `OnceRegime` | Publisher | one engine whose log inserts do not raise, or any engines when nothing is retried |

The last four are the regimes the runs check; section 7 says what goes wrong
outside them. `TypeOK`, `PublishedIsLive` and `GroupNeverClaimsHeldPost` need none
of them.

| Theorem | States | Assuming |
|---|---|---|
| `AggregateTypeCorrect`, `UIAlwaysStricter`, `OutcomesAreUnanimous`, `HistoryKept`, `ClosedStaysClosed` | `PostAggregate`: types, the composer's and the server's locks, `OutcomeIsUnanimous`, `HistoryIsNeverDeselected`, `ClosedPostStaysClosed` | |
| `TypeCorrect`; `LiveInvariant`, `PublishedAlwaysLive`; `GroupRespectsHold` | `Publisher`: `TypeOK`, `PublishedIsLive`, `GroupNeverClaimsHeldPost` | |
| `RetriesWithinBudget`, `SweepIsOfThisSchedule` | `RetryBudget`, `SweepConfirmsThisSchedule` | `OneEngine`, no overtaking, no write errors |
| `BackoffRespected` | `BackoffIsRespected` | `OneEngine`, no overtaking |
| `PublishedStaysUnfailed` | `PublishedNeverFails` | no overtaking |
| `OneCopyPerSchedule` | `NoSilentDoublePost` | `OnceRegime`, no overtaking |
| `FilesStayShared` | `FilesSharedWhileUsed` | `CycleLimits` |
| `FirstCommentTypeCorrect`, `OneComment`, `BudgetKept`, `PendingIsBacked`, `PostedStays` | `FirstComment`: types, `CommentedOnce`, `CallsBounded`, `PendingHasTask`, `PostedStaysPosted` | |
| `DeliveryTypeCorrect`, `CopiesAreBounded`, `OneMailerAtATime` | `Delivery`: types, `CopiesBounded`, `OneMailer` | |
| `EditorialTypes`, `RemindersStayBounded`, `ApprovalsAreOfTheContent` | `Editorial`: types, `RemindersBounded`, `ApprovedAsDecided` | |
| `NewerLinkIsMailedFirst` | `ClientKeepsAWayIn` | |
| `CachedRowsDie`, `LeaversAreOut` | `StaleRowsDie`, `OffboardedAtOnce` | `KeyLimits` |
| `RetriesStaySafe` | `RetriesAreSafe` | `AgentLimits` |
| `InviteMailsStayBounded` | `InviteMailIsBounded` | `InviteLimits` |
| `SweepsLeaveNoHole` | `SweptHistoryIsComplete` | `SyncLimits` |
| `OnlyHandsBookTwice`, `LaddersKeepOrder` | `OnlyHandsDoubleBook`, `LadderKeepsOrder` | `ChannelLimits` |
| `RefusalsStayHeeded` | `RefusalsAreHeeded` | `QuotaLimits` |
| `FailedPostsLeaveNoPhotos` | `NoStrayPhotos` | |
| `ProvidersKeepTheirPromise` | `KeepsPromise`: `ProviderPublish` implements `PublishCall` | `Items \in Nat \ {0}` |

`MCServices_proofs` and `MCPublishTasks_proofs` prove about the composition the
run checks: one lemma, `OneServiceMoves`, says which variables a step of one
service leaves alone, and every proof after it is about that service.

**`PublishedIsLive`** is not inductive: a thread may save an object it has held
for long, a sweep may act on a row it read earlier, and an overtaken request may
write back a published row. `LiveInv` adds what makes those writes harmless.
`HandlesExist`: every handle anywhere, in a row or in a copy, is the number of
an upload (uploads are only appended). `AcceptedIsUploaded`: the upload a thread
is about to record exists. `ReadIsLive`: a *copy* of a published row is of a
live upload, and live uploads stay live. `SyncIsLive`: platforms that publish at
once have no other uploads. The sweep publishes only on the answer "live"
(`PublishVerdictIsLive`); all other steps write a status other than published,
or an upload `SyncIsLive` covers.

**The other properties of `Publisher`** share one analysis. `RowStep` lists what
a step of any actor can do to a row, as far as they look (it stays, is
scheduled, is moved, or one engine claims it, calls, records, reschedules,
fails, sweeps or confirms), and `Next` is shown once to be one of these for
each row. Then:
`BudgetInv` bounds the calls made by the row's retry count while it waits and by
the count in the *thread's copy* while it runs (`ThreadBudget`), since nobody
else writes the row then; `ScheduleInv` says every handle, in the row, in a copy or
about to be recorded, is of an upload of the present schedule;
`BackoffInv` that no row of a batch is on a backoff, since only an engine's
threads start one and it has none while it holds a batch; `CopiesInv` counts, for
each row, the copy owed by the row while it waits and by the thread that took it
there, from the claim to the answer and through a failure to be retried
(`Owes`): copies plus owed never exceed schedules plus lost answers. Rows a user moved in mid-flight are left out of the first two
(`overridden`), as the properties do.

**`FilesSharedWhileUsed`**: a thread that downloads holds its attachment's lock
(`Holds`), so the file it found missing is still missing when its download ends;
a thread past an attachment has its file (`HasFiles`); until its group is done a
file is there or was never downloaded (`Filed`), and a group is done only after
its last row (`InTurn`). `Queues` says that what is queued is there once and has
not begun.

**`CommentedOnce`** and **`CallsBounded`** must charge today's re-queued task to
yesterday's failure. `CommentPotential` bounds, for each text, the copies on the
platform *plus* the task runs that may still add one: none if the row is posted,
or if the next look will find the copy; else every task row, less the running
one once it has acted. `CallPotential` does the same for calls, against the
retry count. An interruption raises both sides by one. `CopyIsRow` (the task's
copy is the row until it writes) and `CallIsEntitled` (no call past a copy that
could be found) connect the copy with the row, `QueueHolds` the running task
with its row in the queue.

**`CopiesBounded`** must charge each mail to the attempt a sweep charged before
it, although a sweep acts on rows it read earlier and another may have taken
them. Of `Delivery`'s invariant, `KindsApart` and `Untouched` separate rows sent
alone from rows of a digest and say what a row nobody has touched looks like;
`SenderKnows` ties a sender's copy to its row; `NotYetClaimed` and `Owned` say
what a sweep may believe of the rows it holds before and after its claim;
`AttemptsBounded` bounds a queued row's attempts plus the sweeps that have
chosen it and may still charge it (`Choosers`); `CopiesCharged` counts, for each row, those who
have charged an attempt and not yet mailed (`Payers`), so that copies plus payers
never exceed attempts. The cardinality of the set of sweeps is where
`FiniteSetTheorems` comes in.

**`RemindersBounded`** counts the reminder sent and not yet saved (`Unsaved`)
with the kills; the task adds to the count it read, so the invariant follows
that one and the stage's. **`ApprovedAsDecided`** is inductive with the types.

**`ClientKeepsAWayIn`**: a manager between its mail and its UPDATE holds the set
of links it will end, each older than the one it mailed; a link ended as superseded therefore always has a newer one that was mailed,
though that one may itself be superseded since. **`StaleRowsDie`** and **`OffboardedAtOnce`**: the time since a row was
true bounds what a cache entry (`FreshEntry`) and a request (`FreshRun`) may
still carry; a fill stores what it read within the same tick.

**`RetriesAreSafe`**: at most one attempt is at work and owns the record
(`Owns`), and those answered since the last sweep were told the recorded post
and body (`Told`); `PostsCounted` charges each further post to a sweep or to an
attempt that failed after creating one (`Lost`).
**`InviteMailIsBounded`**: `CapInv` counts a row's mails, what it inherited and
the mail being sent against its `send_count`; `SpacedInv` keeps its days apart;
`ChargedInv` counts all mails and the requests that have paid for one (`Paid`)
against the organization's charge.

**`SweptHistoryIsComplete`**: what is missing lies ahead of *every* cursor, the
account's columns and the copies of them each cycle holds, so that whichever
cycle saves last, the walk resumes before what is missing.

**`RefusalsAreHeeded`** needs that the row never lies below what was recorded
(`block[s] = recorded[s]`: the compare under the lock), and that the answer a
pass keeps is at least what it was warned of, or not read yet.

**`OnlyHandsDoubleBook`** needs to know of the times an operation has chosen and
not written yet: against one another and against every row outside the
operation, they too meet only where a hand has been (`PlanApart`). That is true
when they are chosen and stays true, since the lock on the channel leaves one
plan at a time and hands note where they collide. A ladder's times are all
different, and its first is that of a row it moves on.

**`LadderKeepsOrder`**: of two entries the earlier never passes the later, since
the instant of the next one behind it was vacated and is open to it when its turn
comes (`NextInstantIsOpen`); that there is a next one is well-foundedness of `<`
(`MinIsLeast`). Two entries on one instant part, and the second may pass an entry
behind them: the first version of this property, without that exception, failed
in the proof, and TLC finds the counterexample with four posts. Both are proved
in `QueueSlots_proofs` for a queue of any length and taken into
`MCServices_proofs` by `INSTANCE`, once for each channel of that run.

**`KeepsPromise`** is a refinement step by step: until a call's post is up, a
submission still lies ahead in its plan; once it is up, only steps that cannot
raise do (`CallInv`). That every plan starts so is a fact about the sequences
(`Promising`): preparations (`Preparing`), then a submission, then only reads
whose errors are caught; plans that repeat a group of steps per attachment are
functions on `1..n`, so that the provers need no induction.
**`NoStrayPhotos`** is `PhotosKept`, the same calls seen from the photos.

**Only model-checked**: all liveness, which is outside the prover. The three
`finding_*` runs are counterexamples and have nothing to prove.

## 7 What the code does that its comments deny

Each is a run that TLC must find violated, quoted in `PROJECT.json` `findings`:

| Run | Disagreement |
|---|---|
| `finding_log` | a `PublishLog` insert that raises after the success save sends the published row back to the queue, to be posted again (`engine.py` 607-613) |
| `finding_edit_queued` | the queue branches of `save_post` write new content and schedule approved rows without the comparison that sends edited content back to review (`views.py` 1087, against 1245-1247) |
| `finding_first_import` | an inbox account's first import stops at the newest message there is, so a webhook entry stored before the first poll, or an import that died, leaves older comments out for good (`inbox/tasks.py` 237, against 177-178 and 220-221) |

Further statements of comments that the code does not keep are defined in the
modules and have no run. TLC finds each violated when it is added to a
configuration of the module, with the constants named here or, where none are,
with those of the run the module has:

| Statement | What happens |
|---|---|
| `Publisher.RetryNeverClaimsHeldPost` (`MCPublisherGroup.cfg`, `MAX_RETRIES = 1`, `AsyncRows <- NoRows`) | the retry loop's hold check and its claim are two unlocked statements (`engine.py` 1137): a hold in between is missed |
| `Publisher.HeldIsResumedFirst` | a save with `action=schedule` takes a held row to the queue by way of draft (`views.py` 884) |
| `Publisher.PublishingIsLeft` (`MCPublisherLive.cfg`, `BrokenRows <- OneRow`) | a row whose provider cannot be built stays in `publishing` (`engine.py` 1231) |
| `FirstComment.EveryExitRecords` | a comment whose text is cleared while it is queued stays pending with no task (`engine.py` 1574) |
| `ApiKeys.EditsApplyAtOnce` | a reader between the edit and the cache's invalidation stores the old scope for the cache's lifetime (`api_keys/services.py` 237-239) |
| `Invitations.AddressIsMailedAtMostMaxSends` | revoke and invite again at once, and the carried count is missed (`members/services.py` 131-135) |
| `QueueSlots.LadderNeverDoubleBooks` (four posts, one queue) | a clone that took a queued row's instant is not counted as held there, since that row is about to move: the next mover up lands on it (`calendar/services.py` 271-274) |

Seen while modelling; none is a run, most lie outside the documented deployment
or promise no more than they do:

*Publishing.* Two engines with retries can both claim one retry and both post:
the retry claim neither locks nor re-reads (`engine.py` 1141). With two engines
a sweep that holds a stale copy can settle a re-scheduled row by the earlier
handle, and a full save can then turn published into publishing, so
`SweepConfirmsThisSchedule` is checked with one. An overtaken request can write
an earlier status over a published row, although `models.py` 407 calls the
status terminal; with overtaken requests `RetryBudget`, `NoSilentDoublePost` and
`SweepConfirmsThisSchedule` do not hold. The claim re-checks status and hold, not
the time: a row moved to later between query and claim goes out at its old time.
Explicit saves refresh `updated_at`, which postpones the sweep's timeouts. A
kill between a comment's creation and its record duplicates it where the
platform cannot be asked or the retry count is still 0, though `engine.py`
529-532 calls the task idempotent.

*Providers.* After an ambiguous failure of the feed request, Facebook's
multi-photo cleanup deletes photos of a post that may be up (`facebook.py`
409-421). A Pinterest video pin without local files commits media that was never
uploaded. Several platforms accept an answer without an id.

*Review.* Every save, an autosave too, restarts the age the escalation looks at;
sending a row back, and the status chip, do not reset its reminder; a held row
edited and resumed is not reviewed again; submitting a post some of whose rows
are approved changes their content; the chip never calls the gate that
`composer/services.py` 256-262 says guards every path; of two decisions from
stale copies the later write stands; an internal reviewer may approve what waits
for the client.

*Queues.* Of two entries a drag has put on one instant, prioritising moves one a
slot further than the other, past an entry that was behind both
(`calendar/services.py` 221-226, 283-298).

*Notifications.* Claims carry the sweep's start time, and late UPDATEs name rows
by key: a slow sweep releases another's claim. The claiming UPDATE looks at the
claim alone, so three or more sweeps at once can each add a copy. A sender
killed before its first record, or on its last attempt, leaves its row pending
for ever.

*Portal, members, keys, agents.* Issuing a link while the client is removed
leaves a live link; a removal between a browser's read and its UPDATE still
opens a session. Two creates at once both pass the pending check; a resend
un-revokes a row; acceptance creates memberships before it stamps the
invitation. Without `REDIS_URL` the key cache is one per process, and an
invalidation reaches one process. The agents' quota check holds no lock, though
`api/routers/posts.py` 220-222 calls it inside the claim; a failure after the creation frees
the claim, and the retry creates a second post.

*Analytics.* The accounts of a pass come in no order (`tasks.py` 1389): one that
spends every pass's budget starves those after it, though 1117-1127 say the next
tick goes on; and a refusal only ever raised for one post would keep that post at
the head of its account's list.

*Social accounts.* The health check, a token refresh and a reconnect each save
a whole copy of the account: the last save wins, so a rotated refresh token can
be rolled back, and a check that started earlier can write an error, or the old
token, over a reconnect; the webhook retry count is counted from such a copy. A
disconnect deletes the row, so a late save with `update_fields` fails and does
not bring it back.

## 8 What is not modelled

The map covers about an eighth of the implementation. Most of the rest does not
change state over time, or changes it in one statement: views that build pages,
filters and forms, serializers, request formatting of the providers, and
computations of metrics. They have no interleaving, order or failure a model
could tell apart, so a share of a third or more is not within reach of a
faithful model: it could only come from widening what the map claims.

In `Publisher`: `Post.published_at`, queue entries dropped after a publish, the
cap and order of the due query, the bookkeeping of rate limits (a limited
account is one more refusal), what is sent to a platform. The sweep's look at a
platform and its write are one step. A save that itself fails is not modelled:
only the log inserts are. A single flag `due` stands for the effective time.

In `FirstComment`: the delay and the backoff (a task runs at any time), the row
being deleted, the 25-attempt limit of the task queue, a lookup that misses an
existing comment, and a comment that lands after its failed call returned.

In `ProviderPublish`: the contents of requests; OAuth; which error codes exist
beyond retryable and permanent. In `Editorial`: comments, the action log, who may
decide. In `Delivery`: in-app notifications, quiet hours, wording. In
`QueueSlots`: time zones and the recurrence of slots. In `InboxSync`: the other
platforms' polls, replies and SLAs. In `AnalyticsSync`: account-level metrics,
the per-video retry of YouTube, the snapshots. In `AgentPosts` and `ApiKeys`: the
other routes, throttles, audit entries. In `Invitations`: roles.

Components without a module:

- *Social accounts and credentials*: described in section 7. Every property worth
  stating fails as soon as two of its tasks overlap, since each saves its copy.
- *Media library*: file processing and storage; its quota is advisory by its own
  comment (`quotas.py` 151).
- *Intelligence*, *MCP server*, *OAuth server*: a client of an external service,
  a second surface over the services above, a library.
- *Organizations, workspaces, onboarding, settings*: records and permissions.
- *Recurring posts* (`calendar/tasks.py`): deduplicated by caption and date and
  no more than that; `QueueSlots` has their effect on a channel's slots.
- *Templates, versions, ideas, CSV import, feeds*: single writes.

## 9 What is left

In order of weight: the Publisher regimes outside which its properties fail, should
the code lock the retry claim or save named fields; the health check and the
token refresh of a social account, once they save named fields; the other
platforms' inbox polls, which share `InboxSync`'s shape without its sweep.
