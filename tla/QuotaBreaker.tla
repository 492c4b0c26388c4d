---------------------------- MODULE QuotaBreaker ----------------------------
(***************************************************************************)
(* The breaker of the quota that the accounts of one OAuth client share    *)
(* (common/quota.py), and its callers: the passes of the analytics sync    *)
(* and the inbox poll ask once per budget and keep the answer for all      *)
(* their accounts, a health check asks before its one call.  They run      *)
(* side by side, and die between a refusal and its record.  The platform   *)
(* may refuse any call, until any time, or without naming one.             *)
(***************************************************************************)
EXTENDS Naturals

CONSTANTS Passes,         \* the analytics and inbox passes
          Probes,         \* the health checks
          Budgets,         \* the budgets the platform meters, quota_scope
          Backoff,        \* DEFAULT_QUOTA_BACKOFF
          MaxWindow,      \* bound: the longest window a refusal names
          MaxTime         \* bound: the clock stops here

VARIABLES block,          \* ProviderQuotaBlock.blocked_until, 0 for no row
          caller,         \* where each caller stands
          recorded,       \* ghost: the latest end of a refusal ever recorded
          now

vars == <<block, caller, recorded, now>>

Callers == Passes \cup Probes
Unread == MaxTime + MaxWindow + Backoff

\* kept: the cache of the pass; warned (a ghost): until when the refusals last
\* that were recorded before the run started, or by the run.
Idle == [pc |-> "idle", scope |-> CHOOSE s \in Budgets : TRUE, until |-> 0,
         kept |-> [s \in Budgets |-> Unread], warned |-> [s \in Budgets |-> 0]]

Init ==
  /\ block = [s \in Budgets |-> 0]
  /\ caller = [c \in Callers |-> Idle]
  /\ recorded = [s \in Budgets |-> 0]
  /\ now = 1

Tick ==
  /\ now < MaxTime
  /\ now' = now + 1
  /\ UNCHANGED <<block, caller, recorded>>

\* A task or a management command begins.
Start(c) ==
  /\ caller[c].pc = "idle"
  /\ caller' = [caller EXCEPT ![c] = [Idle EXCEPT !.pc = "ready", !.warned = recorded]]
  /\ UNCHANGED <<block, recorded, now>>

\* quota_blocked_until: from the cache of the pass, else from the row.
Found(c, s) == IF caller[c].kept[s] # Unread THEN caller[c].kept[s] ELSE block[s]

Keeps(c, s, until) == IF c \in Passes THEN [caller[c].kept EXCEPT ![s] = until]
                                      ELSE caller[c].kept

\* A pass turns to its next account, a check is over.
GoesOn(c, run) == IF c \in Passes THEN [run EXCEPT !.pc = "ready"] ELSE Idle

\* An account of the pass, or the account of the check, is skipped or asked for.
Ask(c) ==
  /\ caller[c].pc = "ready"
  /\ \E s \in Budgets :
       LET asked == [caller[c] EXCEPT !.scope = s, !.kept = Keeps(c, s, Found(c, s))]
       IN  caller' = [caller EXCEPT ![c] =
             IF Found(c, s) <= now THEN [asked EXCEPT !.pc = "calling"]
                                   ELSE GoesOn(c, asked)]
  /\ UNCHANGED <<block, recorded, now>>

Answer(c) ==
  /\ caller[c].pc = "calling"
  /\ caller' = [caller EXCEPT ![c] = GoesOn(c, @)]
  /\ UNCHANGED <<block, recorded, now>>

\* trip_from_exception: the window the refusal names, or the fallback.
Refuse(c) ==
  /\ caller[c].pc = "calling"
  /\ \E window \in 1..MaxWindow \cup {Backoff} :
       caller' = [caller EXCEPT ![c].pc = "refused", ![c].until = now + window]
  /\ UNCHANGED <<block, recorded, now>>

\* trip_quota_block compares the deadlines under the lock of the row.
Extended_Always(s, until) == TRUE  \* mutant: update_or_create, as it once was
Extended(s, until) == until > block[s]

\* The run keeps what the row says afterwards.
Remembered(c, s, until) == Keeps(c, s, until)

Later(t, u) == IF t < u THEN u ELSE t

Trip(c) ==
  LET s     == caller[c].scope
      until == IF Extended(s, caller[c].until) THEN caller[c].until ELSE block[s]
  IN  /\ caller[c].pc = "refused"
      /\ block' = [block EXCEPT ![s] = until]
      /\ recorded' = [recorded EXCEPT ![s] = Later(@, caller[c].until)]
      /\ caller' = [caller EXCEPT ![c] =
           GoesOn(c, [@ EXCEPT !.kept = Remembered(c, s, until),
                               !.warned[s] = recorded'[s]])]
      /\ UNCHANGED now

\* The last account is done, or the run is killed, whatever it was about to record.
End(c) ==
  /\ caller[c].pc # "idle"
  /\ caller' = [caller EXCEPT ![c] = Idle]
  /\ UNCHANGED <<block, recorded, now>>

Next ==
  \/ Tick
  \/ \E c \in Callers : Start(c) \/ Ask(c) \/ Answer(c) \/ Refuse(c) \/ Trip(c) \/ End(c)

Spec == Init /\ [][Next]_vars

-----------------------------------------------------------------------------
\* common/quota.py:3-8: a refusal is a decision every caller respects.  Whatever
\* run started after a refusal was recorded, or recorded it, makes no call on that
\* budget before its end: a late throttle does not shorten a long block, and a
\* pass does not go on to its next accounts on the answer it had kept.
RefusalsAreHeeded ==
  \A c \in Callers :
    caller[c].pc = "calling" => caller[c].warned[caller[c].scope] <= now
=============================================================================
