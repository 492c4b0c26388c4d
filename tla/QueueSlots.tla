----------------------------- MODULE QueueSlots -----------------------------
(***************************************************************************)
(* The posting queues of one channel and the slots their posts hold.       *)
(*                                                                         *)
(* A slot is held by whatever unprotected row of the channel is scheduled  *)
(* at its instant: a queued post, one dragged there by hand, a clone made  *)
(* by a recurrence.  The queue operations run under a lock on the channel; *)
(* dragging, cloning, unscheduling and the publish engine do not take it.  *)
(* An operation reads everything it decides on in one step and writes it   *)
(* in another.                                                             *)
(*                                                                         *)
(* Source: apps/calendar/services.py; the requests around it are those of  *)
(* apps/calendar/views.py, apps/composer/views.py and                      *)
(* apps/composer/services.py, the clones those of apps/calendar/tasks.py.  *)
(***************************************************************************)
EXTENDS PlatformPostStatus, SequencesExt

CONSTANTS
  Posts,       \* posts with at most one row each on the channel
  Queues,      \* queues of the channel
  Horizon,     \* the last instant of the lookahead
  Slots,       \* the posting slots of the channel, as instants
  NoPlan,
  MaxNow,      \* bound on the clock
  HandInstants, \* bound on the instants rows are dragged to and cloned at
  MaxHandMoves  \* bound on rows dragged, cloned or unscheduled

Instants == 1..Horizon
NoTime == 0

VARIABLES
  now,      \* the clock
  status,   \* per post, the status of its row, or "none" before it has one
  at,       \* per post, the scheduled_at of its row
  entries,  \* per queue, the posts that have an entry in it
  plan,     \* per queue, what the operation in progress is about to write
  hands,    \* moves made outside the queues so far
  clashed   \* instants booked twice by such a move, or given to a row in flight

vars == <<now, status, at, entries, plan, hands, clashed>>

RowStatus == {"none", "draft", "scheduled", "publishing", "published", "failed"}
PROTECTED_STATUSES == {"published", "publishing"}

Init ==
  /\ now = 0
  /\ status = [p \in Posts |-> "none"]
  /\ at = [p \in Posts |-> NoTime]
  /\ entries = [q \in Queues |-> {}]
  /\ plan = [q \in Queues |-> NoPlan]
  /\ hands = 0
  /\ clashed = {}

-----------------------------------------------------------------------------
(* Occupancy                                                               *)

Protected(p) == status[p] \in PROTECTED_STATUSES
Future(p) == status[p] # "none" /\ ~Protected(p) /\ at[p] > now

OccupiedDatetimes(except) == {at[p] : p \in {q \in Posts \ except : Future(q)}}

Upcoming == {t \in Slots : t > now}
Free(except) == Upcoming \ OccupiedDatetimes(except)

\* The lock on the channel; a lock on the queue alone.
LockChannel_QueueOnly(q) == plan[q] = NoPlan
LockChannel(q) == \A r \in Queues : plan[r] = NoPlan

\* An operation in progress: the times it writes, and the post whose entry and
\* status it settles.
Begin(q, op, p, to) ==
  /\ plan' = [plan EXCEPT ![q] = [op |-> op, post |-> p, to |-> to]]
  /\ UNCHANGED <<now, status, at, entries, hands, clashed>>

-----------------------------------------------------------------------------
(* Queue operations                                                        *)

\* From the composer, which then schedules the row, or from the queue's page.
MayPlace(q, p, op) ==
  /\ ~Protected(p)
  /\ op = "reslot" => p \in entries[q] /\ status[p] # "none"

AddPostNextAvailable(q, p, op) ==
  /\ LockChannel(q)
  /\ MayPlace(q, p, op)
  /\ Free({p}) # {}
  /\ Begin(q, op, p, [x \in {p} |-> Min(Free({p}))])

\* The other entries of the queue that are waiting for an instant to come.
Movable(q, p) == {e \in entries[q] \ {p} : Future(e)}

First(n) == {t \in Upcoming : Cardinality({u \in Upcoming : u < t}) < n}

\* Only entries on one of the next slots are laddered.
Movers(q, p) == {e \in Movable(q, p) : at[e] \in First(Cardinality(Movable(q, p)) + 2)}

\* The instants an entry may move to: the upcoming ones, after its own.
Later_Any(e) == Upcoming
Later(e) == {t \in Upcoming : t > at[e]}

\* The instants a mover must not land on; the movers' own are not among them.
Avoid(q, p) == OccupiedDatetimes({p}) \ {at[e] : e \in Movers(q, p)}

\* The post goes first, each mover to the next instant after its own that is
\* neither to be avoided nor taken by the post or by a mover before it.  The
\* last go first; of movers on one instant either may.
Ladders(q, p) ==
  LET Landing(to, e) ==
        {t \in Later(e) \ Avoid(q, p) : \A f \in DOMAIN to \ {e} :
           (f = p \/ at[f] >= at[e]) => to[f] # t}
  IN  {to \in [Movers(q, p) \cup {p} -> Upcoming] :
         /\ to[p] = Min(Upcoming)
         /\ \A e \in Movers(q, p) : to[e] \in Landing(to, e)
         /\ \A e \in Movers(q, p) : \A t \in Landing(to, e) : to[e] <= t}

Prioritize(q, p) ==
  /\ LockChannel(q)
  /\ MayPlace(q, p, "prioritize")
  /\ Upcoming # {}
  /\ LET target == Min(Upcoming)
     IN  IF target \in {at[e] : e \in Movable(q, p)}
           THEN \E to \in Ladders(q, p) : Begin(q, "ladder", p, to)
           ELSE IF target \in OccupiedDatetimes({p})
           THEN /\ Free({p}) # {}
                /\ Begin(q, "prioritize", p, [x \in {p} |-> Min(Free({p}))])
           ELSE Begin(q, "prioritize", p, [x \in {p} |-> target])

\* The instants the entries hold, past ones too, in the order of the drag: of
\* holder[e] the entry e takes over the instant.
ReorderQueue(q, order) ==
  LET slotted == {e \in ToSet(order) : ~Protected(e) /\ at[e] # NoTime}
  IN  /\ LockChannel(q)
      /\ slotted # {}
      /\ \E holder \in Bijection(slotted, slotted) :
           /\ \A i, j \in DOMAIN order :
                (i < j /\ {order[i], order[j]} \subseteq slotted)
                  => at[holder[order[i]]] <= at[holder[order[j]]]
           /\ Begin(q, "reorder", order[1], [e \in slotted |-> at[holder[e]]])

\* What the operation wrote becomes visible.  The composer schedules the row
\* it queued, in the same transaction.
Commit(q) ==
  LET do == plan[q]
  IN  /\ do # NoPlan
      /\ at' = [p \in Posts |-> IF p \in DOMAIN do.to THEN do.to[p] ELSE at[p]]
      /\ entries' = IF do.op = "reorder" THEN entries
                    ELSE [entries EXCEPT ![q] = @ \cup {do.post}]
      /\ status' = IF do.op \in {"add", "prioritize", "ladder"}
                        /\ (status[do.post] = "none" \/ CanTransition(status[do.post], "scheduled"))
                     THEN [status EXCEPT ![do.post] = "scheduled"] ELSE status
      /\ plan' = [plan EXCEPT ![q] = NoPlan]
      /\ clashed' = clashed \cup {do.to[p] : p \in {r \in DOMAIN do.to : Protected(r)}}
      /\ UNCHANGED <<now, hands>>

Leave(p) ==
  /\ status' = [status EXCEPT ![p] = "draft"]
  /\ at' = [at EXCEPT ![p] = NoTime]
  /\ entries' = [q \in Queues |-> entries[q] \ {p}]

RemoveFromQueue(q, p) ==
  /\ LockChannel(q)
  /\ p \in entries[q]
  /\ IF ~Protected(p) /\ CanTransition(status[p], "draft") THEN Leave(p)
     ELSE /\ entries' = [entries EXCEPT ![q] = @ \ {p}]
          /\ UNCHANGED <<status, at>>
  /\ UNCHANGED <<now, plan, hands, clashed>>

-----------------------------------------------------------------------------
(* Around the queues: nothing here takes the lock                          *)

ByHand == hands < MaxHandMoves /\ hands' = hands + 1

About == UNION {{plan[q].to[p] : p \in DOMAIN plan[q].to} :
                  q \in {r \in Queues : plan[r] # NoPlan}}
Booked(p, t) ==
  /\ at' = [at EXCEPT ![p] = t]
  /\ clashed' = IF t \in OccupiedDatetimes({p}) \cup About THEN clashed \cup {t} ELSE clashed

\* A draft or a failed row dropped on the calendar is scheduled by it.
ReschedulePost(p, t) ==
  /\ ByHand
  /\ status[p] \in {"draft", "scheduled", "failed"}
  /\ Booked(p, t)
  /\ status' = [status EXCEPT ![p] = "scheduled"]
  /\ UNCHANGED <<now, entries, plan>>

\* A recurrence makes a row at an instant of its own.
GenerateRecurringPost(p, t) ==
  /\ ByHand
  /\ status[p] = "none"
  /\ t > now
  /\ Booked(p, t)
  /\ status' = [status EXCEPT ![p] = "scheduled"]
  /\ UNCHANGED <<now, entries, plan>>

Unschedule(p) ==
  /\ ByHand
  /\ status[p] \in {"scheduled", "failed"}
  /\ Leave(p)
  /\ UNCHANGED <<now, plan, clashed>>

Publish(p) ==
  /\ \/ /\ status[p] = "scheduled" /\ at[p] # NoTime /\ at[p] <= now
        /\ status' = [status EXCEPT ![p] = "publishing"]
     \/ /\ status[p] = "publishing"
        /\ \E s \in {"published", "failed"} : status' = [status EXCEPT ![p] = s]
  /\ UNCHANGED <<now, at, entries, plan, hands, clashed>>

Tick ==
  /\ now < MaxNow
  /\ now' = now + 1
  /\ UNCHANGED <<status, at, entries, plan, hands, clashed>>

-----------------------------------------------------------------------------
QueueOp(q) ==
  \/ \E p \in Posts : \/ \E op \in {"add", "reslot"} : AddPostNextAvailable(q, p, op)
                      \/ Prioritize(q, p)
                      \/ RemoveFromQueue(q, p)
  \/ \E order \in SetToSeqs(entries[q]) : ReorderQueue(q, order)
  \/ Commit(q)

Outside(p) == \/ \E t \in HandInstants : ReschedulePost(p, t) \/ GenerateRecurringPost(p, t)
              \/ Unschedule(p) \/ Publish(p)

Next == \/ \E q \in Queues : QueueOp(q)
        \/ \E p \in Posts : Outside(p)
        \/ Tick

Spec == Init /\ [][Next]_vars

-----------------------------------------------------------------------------
(* Properties                                                              *)

TypeOK ==
  /\ now \in 0..Horizon
  /\ status \in [Posts -> RowStatus]
  /\ at \in [Posts -> 0..Horizon]
  /\ entries \in [Queues -> SUBSET Posts]
  /\ \A q \in Queues : plan[q] # NoPlan => plan[q].to \in [DOMAIN plan[q].to -> Instants]
  /\ hands \in Nat
  /\ clashed \in SUBSET Instants

(* Only a hand books an instant twice: whatever queue operations of the    *)
(* channel's queues interleave with drags, clones, removals and publishes, *)
(* two waiting rows share an instant only if a drag or a clone once put a  *)
(* second row on it (services.py 158-161: two operations on different      *)
(* queues would otherwise read the same free slot and double-book).  An    *)
(* instant written to a row the engine took since the operation read it is *)
(* excepted: the row holds it again if its publish fails.                  *)
OnlyHandsDoubleBook ==
  \A p, q \in Posts :
    (p # q /\ Future(p) /\ Future(q) /\ at[p] = at[q]) => at[p] \in clashed

\* A ladder about to be written: what it does to the entries it moves.
Laddered(q) == plan[q] = NoPlan /\ plan'[q] # NoPlan /\ plan'[q].op = "ladder"

(* Prioritising a post puts it first and keeps the queue in order: no two  *)
(* entries the ladder moves change places, and the post comes before every *)
(* one of them (services.py 221-226), whatever slots other rows hold.  An  *)
(* entry that shares its instant with another of them is excepted: the two *)
(* part, and the one that goes second may pass an entry behind it.         *)
LadderInOrder ==
  \A q \in Queues : Laddered(q) =>
    LET to == plan'[q].to
        others == DOMAIN to \ {plan'[q].post}
    IN  \A e \in others :
          /\ to[plan'[q].post] < to[e]
          /\ (\A g \in others \ {e} : at[g] # at[e])
               => \A f \in others : at[e] < at[f] => to[e] < to[f]
LadderKeepsOrder == [][LadderInOrder]_vars

(* services.py 271-274: "Each mover lands on the earliest candidate after  *)
(* its current index that is neither held by a post we can't move ... nor  *)
(* already claimed by another mover - so the ladder never double-books".   *)
LadderNeverDoubleBooks ==
  [][\A q \in Queues : Laddered(q) =>
       LET to == plan'[q].to
       IN  \A e \in DOMAIN to \ {plan'[q].post}, p \in Posts \ DOMAIN to :
             Future(p) => to[e] # at[p]]_vars
=============================================================================
