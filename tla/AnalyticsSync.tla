---------------------------- MODULE AnalyticsSync ----------------------------
(***************************************************************************)
(* How the metrics of one account's published posts are refreshed          *)
(* (analytics/tasks.py): an hourly pass with a time budget, and the        *)
(* backfill of a reconnect beside it, take the due posts in batches.  A    *)
(* batch is answered, misses posts, or fails; a refusal that concerns the  *)
(* account or the shared quota ends the pass; the budget or a kill ends it *)
(* anywhere.  The hours since a post's last attempt count up to MaxBackoff,*)
(* past which nothing depends on them.                                     *)
(***************************************************************************)
EXTENDS Naturals, FiniteSets, FiniteSetsExt, SequencesExt

CONSTANTS Posts,
          Cadence,        \* hours between the attempts at a post of its age
          Gone,           \* posts the platform has no data for any more
          BatchSize,      \* post_metrics_batch_size of the provider
          MaxBackoff      \* _SYNC_FAILURE_BACKOFF_MAX, in hours

VARIABLES rank,           \* the order of analytics_attempted_at, 0 for the oldest
          age,            \* hours since it
          failures,       \* analytics_failure_count
          pass,           \* the posts each task has left, and where it stands
          hour,           \* the hourly task is due
          blocked,        \* the shared quota is spent, and on record
          connected       \* connection_status = CONNECTED

vars == <<rank, age, failures, pass, hour, blocked, connected>>

Tasks == {"hourly", "backfill"}

Idle == [pc |-> "idle", due |-> <<>>]

\* Nothing was attempted yet: such a post is due at once.
Init ==
  /\ rank = [p \in Posts |-> 0]
  /\ age = [p \in Posts |-> MaxBackoff]
  /\ failures = [p \in Posts |-> 0]
  /\ pass = [t \in Tasks |-> IF t = "backfill" THEN [Idle EXCEPT !.pc = "queued"] ELSE Idle]
  /\ hour = TRUE
  /\ blocked = FALSE
  /\ connected = TRUE

-----------------------------------------------------------------------------
(* What is due, and in which order                                         *)

\* The backoff doubles from an hour; its count is capped where the wait is.
Backoff(n) == IF n = 0 THEN 0 ELSE Min({2^(n - 1), MaxBackoff})

Due(p) == age[p] >= Max({1, Cadence[p], Backoff(failures[p])})

\* _due_posts_for: by the last attempt, those of one batch in any order.
Before_Newest(p, q) == rank[p] >= rank[q]  \* mutant: the latest attempt first
Before(p, q) == rank[p] <= rank[q]

Lists(S) == {s \in SetToSeqs(S) : \A i, j \in DOMAIN s : i < j => Before(s[i], s[j])}

StartHourly ==
  /\ hour
  /\ pass["hourly"] = Idle
  /\ hour' = FALSE
  /\ connected /\ ~blocked
  /\ \E due \in Lists({p \in Posts : Due(p)}) :
       pass' = [pass EXCEPT !["hourly"] = [pc |-> "working", due |-> due]]
  /\ UNCHANGED <<rank, age, failures, blocked, connected>>

\* An account that is not connected, or whose quota is spent, is passed over,
\* and so is one the pass does not come to within its budget.
SkipHourly ==
  /\ hour
  /\ pass["hourly"] = Idle
  /\ hour' = FALSE
  /\ UNCHANGED <<rank, age, failures, pass, blocked, connected>>

\* backfill_account_analytics takes every post, in any order.
StartBackfill ==
  /\ pass["backfill"].pc = "queued"
  /\ IF blocked
       THEN pass' = [pass EXCEPT !["backfill"] = Idle]
       ELSE \E due \in SetToSeqs(Posts) :
              pass' = [pass EXCEPT !["backfill"] = [pc |-> "working", due |-> due]]
  /\ UNCHANGED <<rank, age, failures, hour, blocked, connected>>

-----------------------------------------------------------------------------
(* _sync_account_posts                                                     *)

First(t) == SubSeq(pass[t].due, 1, Min({BatchSize, Len(pass[t].due)}))

\* The posts of a batch share one stamp, the latest there is.
Stamped(S) ==
  LET top    == Cardinality(Posts)
      new    == [p \in Posts |-> IF p \in S THEN top ELSE rank[p]]
  IN  [p \in Posts |-> Cardinality({new[q] : q \in {x \in Posts : new[x] < new[p]}})]

\* Past MaxBackoff failures the backoff stays what it is.
Counted(p) == Min({failures[p] + 1, MaxBackoff})

\* _record_post_sync_success and _record_post_sync_failure, after a call that
\* returned: without data for some posts, or with an error of the whole batch.
Answer(t) ==
  LET batch == ToSet(First(t))
  IN  /\ pass[t].due # <<>>
      /\ \E missed \in SUBSET batch :
           /\ Gone \cap batch \subseteq missed
           /\ failures' = [p \in Posts |-> CASE p \in missed -> Counted(p)
                                             [] p \in batch  -> 0
                                             [] OTHER        -> failures[p]]
      /\ rank' = Stamped(batch)
      /\ age' = [p \in Posts |-> IF p \in batch THEN 0 ELSE age[p]]
      /\ pass' = [pass EXCEPT ![t].due = SubSeq(@, Len(First(t)) + 1, Len(@))]
      /\ UNCHANGED <<hour, blocked, connected>>

\* QuotaExceededError is recorded with the breaker, TokenExpiredError hands the
\* account to the health check; neither touches a post, and both end the pass.
Refuse(t) ==
  /\ pass[t].due # <<>>
  /\ pass' = [pass EXCEPT ![t] = Idle]
  /\ blocked' \in {blocked, TRUE}
  /\ UNCHANGED <<rank, age, failures, hour, connected>>

\* The list is done, the budget of the run is spent, or the worker is killed;
\* a killed backfill is run again.
End(t) ==
  /\ pass[t].pc = "working"
  /\ \E pc \in {"idle"} \cup {"queued" : x \in {t} \ {"hourly"}} :
       pass' = [pass EXCEPT ![t] = [Idle EXCEPT !.pc = pc]]
  /\ UNCHANGED <<rank, age, failures, hour, blocked, connected>>

-----------------------------------------------------------------------------
(* The clock, the breaker and the account                                  *)

Tick ==
  /\ age' = [p \in Posts |-> Min({age[p] + 1, MaxBackoff})]
  /\ hour' = TRUE
  /\ UNCHANGED <<rank, failures, pass, blocked, connected>>

QuotaReturns ==
  /\ blocked
  /\ blocked' = FALSE
  /\ UNCHANGED <<rank, age, failures, pass, hour, connected>>

\* check_social_account_health, queued after a refused token or by its own clock.
HealthCheck ==
  /\ connected
  /\ connected' = FALSE
  /\ UNCHANGED <<rank, age, failures, pass, hour, blocked>>

\* A new grant queues a backfill, in place of one still queued.
Reconnect ==
  /\ connected' = TRUE
  /\ pass["backfill"].pc # "working"
  /\ pass' = [pass EXCEPT !["backfill"] = [Idle EXCEPT !.pc = "queued"]]
  /\ UNCHANGED <<rank, age, failures, hour, blocked>>

Next ==
  \/ StartHourly \/ SkipHourly \/ StartBackfill
  \/ \E t \in Tasks : Answer(t) \/ Refuse(t) \/ End(t)
  \/ Tick \/ QuotaReturns \/ HealthCheck \/ Reconnect

\* A platform that is asked over and over does not refuse, nor does the pass
\* end, before every answer.
Fairness == WF_vars(Tick) /\ SF_vars(Answer("hourly"))

Spec == Init /\ [][Next]_vars
FairSpec == Spec /\ Fairness

-----------------------------------------------------------------------------
TypeOK ==
  /\ rank \in [Posts -> 0..Cardinality(Posts)]
  /\ age \in [Posts -> 0..MaxBackoff] /\ failures \in [Posts -> 0..MaxBackoff]
  /\ pass \in [Tasks -> [pc : {"idle", "queued", "working"}, due : Seq(Posts)]]
  /\ {hour, blocked, connected} \subseteq BOOLEAN

\* analytics/tasks.py:1117-1127: the attempt stamps make a truncated pass
\* resumable.  As long as the hourly pass keeps coming to the account, every post
\* is attempted again and again, however early each pass stops, whatever keeps
\* failing beside it, and whatever a backfill stamps in between.
EveryPostIsReached ==
  []<><<StartHourly>>_vars => \A p \in Posts : []<>(age[p] = 0)
=============================================================================
