------------------------------ MODULE Delivery ------------------------------
(***************************************************************************)
(* The deliveries of one user's notifications by e-mail and webhook.       *)
(*                                                                         *)
(* notify() creates a delivery and either sends it at once, inside the     *)
(* request, or queues it for a digest.  A periodic retry sweep sends again *)
(* what failed, after a backoff; a periodic digest sweep claims the queued *)
(* deliveries of a group, mails them together and settles them.  Sweeps    *)
(* may overlap and be killed between any two statements; a claim times out *)
(* by the clock; the user turns the e-mail off, and the account is         *)
(* deactivated, meanwhile.                                                 *)
(*                                                                         *)
(* Source: apps/notifications/engine.py.                                   *)
(***************************************************************************)
EXTENDS Naturals, FiniteSets

CONSTANTS
  Deliveries,           \* NotificationDelivery rows of one user
  EventTypes,
  TypeOf,               \* the event type of each
  Sweeps,               \* runs of the digest sweep, by the start time they claim with
  NoSweep,
  MAX_RETRY_ATTEMPTS,
  BATCH_CLAIM_TIMEOUT,  \* in ticks of the clock
  MaxSweepAge,          \* bound on how long a sweep runs, in ticks
  MaxKills              \* bound on processes killed

ASSUME DeliveryAssumption ==
  /\ TypeOf \in [Deliveries -> EventTypes]
  /\ NoSweep \notin Sweeps
  /\ MAX_RETRY_ATTEMPTS \in Nat \ {0}
  /\ BATCH_CLAIM_TIMEOUT \in Nat
  /\ MaxSweepAge \in Nat
  /\ MaxKills \in Nat
  /\ IsFiniteSet(Sweeps)

VARIABLES
  rows,     \* the database rows
  sender,   \* per row, where the thread sending it alone is
  pc,       \* per digest sweep, its next statement
  held,     \* per digest sweep, the rows it is working on
  age,      \* per digest sweep, ticks since it started
  enabled,  \* the event types whose e-mail the user wants
  active,   \* is the account active?
  kills,
  copies,   \* per row, how often it was mailed or posted
  stranded, \* rows whose sender was killed
  overrun   \* rows taken over from a sweep that was still working on them

vars == <<rows, sender, pc, held, age, enabled, active, kills, copies, stranded, overrun>>

-----------------------------------------------------------------------------
(* Data                                                                    *)

\* queued: batch_queued_at is set.  backoff: next_retry_at is none, later than
\* now, or past.  claim: the sweep whose start time is batch_claimed_at.
Row == [status   : {"none", "pending", "delivered", "failed"},
        queued   : BOOLEAN,
        attempts : Nat,
        backoff  : {"none", "waiting", "over"},
        claim    : Sweeps \cup {NoSweep}]

NoRow == [status |-> "none", queued |-> FALSE, attempts |-> 0,
          backoff |-> "none", claim |-> NoSweep]

\* attempts is the value the sending thread's object holds.
Sender == [pc : {"none", "charge", "send", "delivered", "declined", "failed"},
           attempts : Nat]
NotSending == [pc |-> "none", attempts |-> 0]

SweepPc == {"idle", "reap", "retire", "choose", "claim", "reread", "resolve",
            "send", "delivered", "declined", "failed", "lastreap"}

\* A sweep's age is followed as far as it can decide whether its claim is stale
\* for a running sweep.
AgeCap == MaxSweepAge + BATCH_CLAIM_TIMEOUT + 1

Init ==
  /\ rows = [d \in Deliveries |-> NoRow]
  /\ sender = [d \in Deliveries |-> NotSending]
  /\ pc = [s \in Sweeps |-> "idle"]
  /\ held = [s \in Sweeps |-> {}]
  /\ age = [s \in Sweeps |-> 0]
  /\ enabled = EventTypes
  /\ active = TRUE
  /\ kills = 0
  /\ copies = [d \in Deliveries |-> 0]
  /\ stranded = {}
  /\ overrun = {}

Goto(s, label) == pc' = [pc EXCEPT ![s] = label]
UpdateRows(D, new(_)) == rows' = [d \in Deliveries |-> IF d \in D THEN new(rows[d]) ELSE rows[d]]
Mailed(D) == copies' = [d \in Deliveries |-> IF d \in D THEN copies[d] + 1 ELSE copies[d]]

-----------------------------------------------------------------------------
(* notify(), and the sending of one delivery                               *)

Notify(d, batched) ==
  /\ active
  /\ TypeOf[d] \in enabled
  /\ rows[d].status = "none"
  /\ rows' = [rows EXCEPT ![d].status = "pending", ![d].queued = batched]
  /\ sender' = IF batched THEN sender ELSE [sender EXCEPT ![d].pc = "charge"]
  /\ UNCHANGED <<pc, held, age, enabled, active, kills, copies, stranded, overrun>>

\* The retry sweep's turn for a row its query returned; one such sweep runs at
\* a time, so the object it read is the row.
Retry(d) ==
  /\ rows[d].status = "pending"
  /\ rows[d].backoff = "over"
  /\ rows[d].attempts < MAX_RETRY_ATTEMPTS
  /\ sender[d].pc = "none"
  /\ sender' = [sender EXCEPT ![d] = [pc |-> "charge", attempts |-> rows[d].attempts]]
  /\ UNCHANGED <<rows, pc, held, age, enabled, active, kills, copies, stranded, overrun>>

Charged(d) == sender[d].attempts + 1

Charge(d) ==
  /\ sender[d].pc = "charge"
  /\ rows' = [rows EXCEPT ![d].attempts = Charged(d)]
  /\ sender' = [sender EXCEPT ![d] = [pc |-> "send", attempts |-> Charged(d)]]
  /\ UNCHANGED <<pc, held, age, enabled, active, kills, copies, stranded, overrun>>

\* The message goes out, is declined by the outbound budget, or raises: before
\* or after the other side took it.
Send(d) ==
  /\ sender[d].pc = "send"
  /\ \/ sender' = [sender EXCEPT ![d].pc = "delivered"] /\ Mailed({d})
     \/ sender' = [sender EXCEPT ![d].pc = "declined"] /\ UNCHANGED copies
     \/ sender' = [sender EXCEPT ![d].pc = "failed"] /\ (Mailed({d}) \/ UNCHANGED copies)
  /\ UNCHANGED <<rows, pc, held, age, enabled, active, kills, stranded, overrun>>

\* A failure that leaves next_retry_at unset.
Outcome_NoBackoff(d) ==
  [rows[d] EXCEPT !.status =
     CASE sender[d].pc = "delivered" -> "delivered"
       [] sender[d].pc = "declined" \/ sender[d].attempts >= MAX_RETRY_ATTEMPTS -> "failed"
       [] OTHER -> "pending"]
Outcome(d) ==
  CASE sender[d].pc = "delivered" -> [rows[d] EXCEPT !.status = "delivered"]
    [] sender[d].pc = "declined"  -> [rows[d] EXCEPT !.status = "failed"]
    [] sender[d].attempts >= MAX_RETRY_ATTEMPTS -> [rows[d] EXCEPT !.status = "failed"]
    [] OTHER -> [rows[d] EXCEPT !.status = "pending", !.backoff = "waiting"]

Record(d) ==
  /\ sender[d].pc \in {"delivered", "declined", "failed"}
  /\ rows' = [rows EXCEPT ![d] = Outcome(d)]
  /\ sender' = [sender EXCEPT ![d] = NotSending]
  /\ UNCHANGED <<pc, held, age, enabled, active, kills, copies, stranded, overrun>>

-----------------------------------------------------------------------------
(* The digest sweep                                                        *)

Waiting(d) == rows[d].status = "pending" /\ rows[d].queued

\* A claim of a sweep that started too long before this one.
Stale(s, c) == age[c] > age[s] + BATCH_CLAIM_TIMEOUT
Unclaimed(s, d) == rows[d].claim = NoSweep \/ Stale(s, rows[d].claim)

Batchable(d) == Waiting(d) /\ rows[d].attempts < MAX_RETRY_ATTEMPTS /\ active

\* A start time is this run's own: no row carries it and no sweep runs by it.
StartSweep(s) ==
  /\ pc[s] = "idle"
  /\ \A d \in Deliveries : rows[d].claim # s
  /\ \E d \in Deliveries : Waiting(d)
  /\ Goto(s, "reap")
  /\ age' = [age EXCEPT ![s] = 0]
  /\ UNCHANGED <<rows, sender, held, enabled, active, kills, copies, stranded, overrun>>

Exhausted_Never(d) == FALSE
Exhausted(d) == Waiting(d) /\ rows[d].attempts >= MAX_RETRY_ATTEMPTS

Release(row) == [row EXCEPT !.claim = NoSweep]
Fail(row) == [Release(row) EXCEPT !.status = "failed"]

ReapExhaustedBatches(s) ==
  /\ pc[s] \in {"reap", "lastreap"}
  /\ UpdateRows({d \in Deliveries : Exhausted(d)}, Fail)
  /\ Goto(s, IF pc[s] = "reap" THEN "retire" ELSE "idle")
  /\ UNCHANGED <<sender, held, age, enabled, active, kills, copies, stranded, overrun>>

ReapDeactivatedRecipients(s) ==
  /\ pc[s] = "retire"
  /\ UpdateRows({d \in Deliveries : Waiting(d) /\ ~active}, Fail)
  /\ Goto(s, "choose")
  /\ UNCHANGED <<sender, held, age, enabled, active, kills, copies, stranded, overrun>>

\* A group is the user's deliveries of one event type, or all of them in the
\* daily digest.
Groups == {{d \in Deliveries : TypeOf[d] = t} : t \in EventTypes} \cup {Deliveries}
Wanted(s, g) == {d \in g : Batchable(d) /\ Unclaimed(s, d)}

Choose(s) ==
  /\ pc[s] = "choose"
  /\ \E g \in Groups : /\ Wanted(s, g) # {}
                       /\ held' = [held EXCEPT ![s] = Wanted(s, g)]
  /\ Goto(s, "claim")
  /\ UNCHANGED <<rows, sender, age, enabled, active, kills, copies, stranded, overrun>>

NothingDue(s) ==
  /\ pc[s] = "choose"
  /\ \A g \in Groups : Wanted(s, g) = {}
  /\ Goto(s, "idle")
  /\ UNCHANGED <<rows, sender, held, age, enabled, active, kills, copies, stranded, overrun>>

\* The conditional UPDATE of the claim; the condition left out; the attempt
\* left uncharged.
Claimable_Unconditional(s, d) == d \in held[s]
Claimable(s, d) == d \in held[s] /\ Unclaimed(s, d)
ClaimedBy_Uncharged(s, row) == [row EXCEPT !.claim = s]
ClaimedBy(s, row) == [row EXCEPT !.claim = s, !.attempts = row.attempts + 1]

TooSlow(s, d) == \E c \in Sweeps : rows[d].claim = c /\ Stale(s, c) /\ d \in held[c]

Claim(s) ==
  /\ pc[s] = "claim"
  /\ rows' = [d \in Deliveries |->
                IF Claimable(s, d) THEN ClaimedBy(s, rows[d]) ELSE rows[d]]
  /\ overrun' = overrun \cup {d \in Deliveries : Claimable(s, d) /\ TooSlow(s, d)}
  /\ Goto(s, "reread")
  /\ UNCHANGED <<sender, held, age, enabled, active, kills, copies, stranded>>

Finish(s) == Goto(s, "idle") /\ held' = [held EXCEPT ![s] = {}]

\* What the claim got is what now carries this sweep's start time.
Reread(s) ==
  LET mine == {d \in held[s] : rows[d].claim = s}
  IN  /\ pc[s] = "reread"
      /\ IF mine = {} THEN Finish(s)
         ELSE Goto(s, "resolve") /\ held' = [held EXCEPT ![s] = mine]
      /\ UNCHANGED <<rows, sender, age, enabled, active, kills, copies, stranded, overrun>>

Kept(s) == {d \in held[s] : TypeOf[d] \in enabled}

\* The preferences are read again, and what they no longer want is cancelled.
Resolve(s) ==
  /\ pc[s] = "resolve"
  /\ UpdateRows(held[s] \ Kept(s), Fail)
  /\ IF Kept(s) = {} THEN Finish(s)
     ELSE Goto(s, "send") /\ held' = [held EXCEPT ![s] = Kept(s)]
  /\ UNCHANGED <<sender, age, enabled, active, kills, copies, stranded, overrun>>

SendDigest(s) ==
  /\ pc[s] = "send"
  /\ \/ Goto(s, "delivered") /\ Mailed(held[s])
     \/ Goto(s, "declined") /\ UNCHANGED copies
     \/ Goto(s, "failed") /\ (Mailed(held[s]) \/ UNCHANGED copies)
  /\ UNCHANGED <<rows, sender, held, age, enabled, active, kills, stranded, overrun>>

Deliver(row) == [row EXCEPT !.status = "delivered"]

SettleDelivered(s) ==
  /\ pc[s] = "delivered"
  /\ UpdateRows(held[s], Deliver)
  /\ Finish(s)
  /\ UNCHANGED <<sender, age, enabled, active, kills, copies, stranded, overrun>>

SettleDeclined(s) ==
  /\ pc[s] = "declined"
  /\ UpdateRows(held[s], Fail)
  /\ Finish(s)
  /\ UNCHANGED <<sender, age, enabled, active, kills, copies, stranded, overrun>>

SettleFailed(s) ==
  /\ pc[s] = "failed"
  /\ UpdateRows(held[s], Release)
  /\ Goto(s, "lastreap")
  /\ held' = [held EXCEPT ![s] = {}]
  /\ UNCHANGED <<sender, age, enabled, active, kills, copies, stranded, overrun>>

-----------------------------------------------------------------------------
(* The user, time, and kills                                               *)

TogglePreference(t) ==
  /\ enabled' = IF t \in enabled THEN enabled \ {t} ELSE enabled \cup {t}
  /\ UNCHANGED <<rows, sender, pc, held, age, active, kills, copies, stranded, overrun>>

Deactivate ==
  /\ active
  /\ active' = FALSE
  /\ UNCHANGED <<rows, sender, pc, held, age, enabled, kills, copies, stranded, overrun>>

BackoffEnds(d) ==
  /\ rows[d].status = "pending"
  /\ rows[d].backoff = "waiting"
  /\ rows' = [rows EXCEPT ![d].backoff = "over"]
  /\ UNCHANGED <<sender, pc, held, age, enabled, active, kills, copies, stranded, overrun>>

\* Nobody looks at the age of a start time that no row carries.
Known(s) == pc[s] # "idle" \/ \E d \in Deliveries : rows[d].claim = s

Tick ==
  /\ \A s \in Sweeps : pc[s] # "idle" => age[s] < MaxSweepAge
  /\ age' = [s \in Sweeps |-> IF Known(s) /\ age[s] < AgeCap THEN age[s] + 1 ELSE age[s]]
  /\ UNCHANGED <<rows, sender, pc, held, enabled, active, kills, copies, stranded, overrun>>

KillSender(d) ==
  /\ sender[d].pc # "none"
  /\ kills < MaxKills
  /\ kills' = kills + 1
  /\ sender' = [sender EXCEPT ![d] = NotSending]
  /\ stranded' = stranded \cup {d}
  /\ UNCHANGED <<rows, pc, held, age, enabled, active, copies, overrun>>

KillSweep(s) ==
  /\ pc[s] # "idle"
  /\ kills < MaxKills
  /\ kills' = kills + 1
  /\ Finish(s)
  /\ UNCHANGED <<rows, sender, age, enabled, active, copies, stranded, overrun>>

-----------------------------------------------------------------------------
Sending(d) == Retry(d) \/ Charge(d) \/ Send(d) \/ Record(d)

Sweeping(s) ==
  \/ ReapExhaustedBatches(s) \/ ReapDeactivatedRecipients(s)
  \/ Choose(s) \/ NothingDue(s) \/ Claim(s) \/ Reread(s) \/ Resolve(s)
  \/ SendDigest(s) \/ SettleDelivered(s) \/ SettleDeclined(s) \/ SettleFailed(s)

Next ==
  \/ \E d \in Deliveries : \/ \E batched \in BOOLEAN : Notify(d, batched)
                           \/ Sending(d) \/ BackoffEnds(d) \/ KillSender(d)
  \/ \E s \in Sweeps : StartSweep(s) \/ Sweeping(s) \/ KillSweep(s)
  \/ \E t \in EventTypes : TogglePreference(t)
  \/ Deactivate
  \/ Tick

Spec == Init /\ [][Next]_vars

\* Both sweeps run every minute; a send ends (the mail and webhook clients time
\* out); the clock advances.
Fairness ==
  /\ \A d \in Deliveries : WF_vars(Sending(d)) /\ WF_vars(BackoffEnds(d))
  /\ WF_vars(\E s \in Sweeps : StartSweep(s))
  /\ \A s \in Sweeps : WF_vars(Sweeping(s))
  /\ WF_vars(Tick)

FairSpec == Spec /\ Fairness

-----------------------------------------------------------------------------
(* Properties                                                              *)

TypeOK ==
  /\ rows \in [Deliveries -> Row]
  /\ sender \in [Deliveries -> Sender]
  /\ pc \in [Sweeps -> SweepPc]
  /\ held \in [Sweeps -> SUBSET Deliveries]
  /\ age \in [Sweeps -> 0..AgeCap]
  /\ enabled \in SUBSET EventTypes
  /\ active \in BOOLEAN
  /\ kills \in Nat
  /\ copies \in [Deliveries -> Nat]
  /\ stranded \in SUBSET Deliveries
  /\ overrun \in SUBSET Deliveries

Mailing(s, d) == d \in held[s] /\ pc[s] \in {"resolve", "send"}

(* A delivery is mailed at most MAX_RETRY_ATTEMPTS times, whatever is      *)
(* killed, raises after the message went out or times out: the attempt is  *)
(* charged before the message leaves (engine.py 308-311, 678-686).  Each   *)
(* further sweep can add one to that, by choosing the delivery before its  *)
(* last attempt was charged and claiming it once that claim is released or *)
(* reaped: the claiming UPDATE looks at the claim alone.                   *)
CopiesBounded ==
  \A d \in Deliveries :
    copies[d] <= MAX_RETRY_ATTEMPTS + (IF rows[d].queued THEN Cardinality(Sweeps) - 1 ELSE 0)

(* Two sweeps never mail the same waiting delivery: of two competing       *)
(* claims the row falls out of one's result (engine.py 671-676), and a     *)
(* claim is taken over only once it is stale.  Rows a sweep so slow lost   *)
(* while it was still working on them are excepted: its late UPDATEs name  *)
(* the row, not the claim, and release the other's claim too.              *)
OneMailer ==
  \A s, t \in Sweeps, d \in Deliveries \ overrun :
    (s # t /\ Mailing(s, d) /\ Mailing(t, d)) => rows[d].status # "pending"

(* Every queued delivery is settled in the end, mailed or given up, with   *)
(* sweeps killed between any two statements, claims left behind and an     *)
(* account deactivated on the way (engine.py 598-622: otherwise the rows   *)
(* sit pending for good, invisible to every sweep).                        *)
QueuedSettles ==
  \A d \in Deliveries : Waiting(d) ~> ~Waiting(d)

(* So is every delivery sent alone whose sender is never killed; one whose *)
(* sender is killed may stay pending for good: before its outcome is       *)
(* recorded the first time it has no next_retry_at, and on the last        *)
(* attempt it has no attempts left for the retry sweep to take it.         *)
SentAloneSettles ==
  \A d \in Deliveries :
    (rows[d].status = "pending" /\ ~rows[d].queued)
      ~> (rows[d].status # "pending" \/ d \in stranded)
=============================================================================
