-------------------------- MODULE QueueSlots_proofs --------------------------
(***************************************************************************)
(* The slots of a channel, for any number of posts, queues and slots: only *)
(* a move by hand books an instant twice, and prioritising a post keeps    *)
(* the order of its queue.                                                 *)
(***************************************************************************)
EXTENDS QueueSlots, FiniteSetTheorems, TLAPS

SlotLimits ==
  /\ IsFiniteSet(Posts)
  /\ Horizon \in Nat
  /\ Slots \subseteq Instants
  /\ HandInstants \subseteq Instants

-----------------------------------------------------------------------------
(* The least instant of a set.                                             *)

LEMMA MinIsLeast ==
  ASSUME NEW S \in SUBSET Nat, S # {}
  PROVE  Min(S) \in S /\ \A t \in S : Min(S) <= t
<1> DEFINE less == OpToRel(<, Nat)
<1>1. \E m \in S : \A t \in S : <<t, m>> \notin less
  <2>1. IsWellFoundedOn(less, Nat) /\ S \subseteq Nat
    BY NatLessThanWellFounded
  <2> HIDE DEF less
  <2> QED
    BY <2>1, WFMin
<1>2. less = {ss \in Nat \X Nat : ss[1] < ss[2]}
  BY DEF OpToRel
<1> HIDE DEF less
<1>3. \A m, t \in Nat : t < m => <<t, m>> \in less
  BY <1>2
<1>4. PICK m \in S : \A t \in S : <<t, m>> \notin less
  BY <1>1
<1>5. ASSUME NEW t \in S PROVE m <= t
  <2>1. m \in Nat /\ t \in Nat /\ <<t, m>> \notin less
    BY <1>4
  <2>2. ~(t < m)
    BY <1>3, <2>1
  <2> QED
    BY <2>1, <2>2
<1> QED
  BY <1>5 DEF Min

LEMMA ComingInstants ==
  ASSUME SlotLimits
  PROVE  Upcoming \in SUBSET Nat /\ \A S : Free(S) \in SUBSET Nat
<1>1. Instants \subseteq Nat
  BY DEF SlotLimits, Instants
<1>2. Upcoming \subseteq Slots /\ Slots \subseteq Instants /\ \A S : Free(S) \subseteq Upcoming
  BY DEF Upcoming, Free, SlotLimits
<1> QED
  BY <1>1, <1>2

LEMMA FirstComing ==
  ASSUME SlotLimits, Upcoming # {}
  PROVE  /\ Min(Upcoming) \in Upcoming /\ \A t \in Upcoming : Min(Upcoming) <= t
         /\ {u \in Upcoming : u < Min(Upcoming)} = {}
<1>1. Upcoming \in SUBSET Nat
  BY ComingInstants
<1>2. Min(Upcoming) \in Upcoming /\ \A t \in Upcoming : Min(Upcoming) <= t
  BY <1>1, MinIsLeast
<1>3. ASSUME NEW u \in Upcoming PROVE ~(u < Min(Upcoming))
  <2>1. u \in Nat /\ Min(Upcoming) \in Nat /\ Min(Upcoming) <= u
    BY <1>1, <1>2
  <2> QED
    BY <2>1
<1> QED
  BY <1>2, <1>3

-----------------------------------------------------------------------------
(* What holds between steps.  Beside the rows' instants it is the times an *)
(* operation is about to write that may meet each other or a row outside   *)
(* the operation: then a hand has put a second row there.                  *)

Plan == [op : {"add", "reslot", "prioritize", "ladder", "reorder"}, post : Posts,
         to : UNION {[S -> Nat] : S \in SUBSET Posts}]

Typed ==
  /\ now \in Nat
  /\ status \in [Posts -> RowStatus]
  /\ at \in [Posts -> Nat]
  /\ entries \in [Queues -> SUBSET Posts]
  /\ plan \in [Queues -> Plan \cup {NoPlan}]

\* A row without a status has no time, and one the engine took was due unless
\* an operation that read it earlier has moved it since.
RowsKnown ==
  \A p \in Posts :
    /\ status[p] = "none" => at[p] = NoTime
    /\ (Protected(p) /\ at[p] > now) => at[p] \in clashed

RowsApart ==
  \A p, r \in Posts : (p # r /\ at[p] = at[r] /\ at[p] > now) => at[p] \in clashed

\* A time about to be written and the time the row r will have then.
WillHold(do, r) == IF r \in DOMAIN do.to THEN do.to[r] ELSE at[r]

PlanApart(do) ==
  /\ \A p \in DOMAIN do.to, r \in Posts :
       (p # r /\ do.to[p] = WillHold(do, r) /\ do.to[p] > now) => do.to[p] \in clashed
  /\ \A p \in DOMAIN do.to :
       status[p] = "none" => p = do.post /\ do.op \in {"add", "prioritize", "ladder"}

SlotInv ==
  /\ Typed /\ RowsKnown /\ RowsApart
  /\ \A q \in Queues : plan[q] # NoPlan => PlanApart(plan[q])
  /\ \A q, r \in Queues : (plan[q] # NoPlan /\ plan[r] # NoPlan) => q = r

LEMMA SlotsStart ==
  ASSUME Init
  PROVE  SlotInv
<1>1. Typed
  BY DEF Init, Typed, RowStatus, NoTime
<1>2. RowsKnown /\ RowsApart
  BY DEF Init, RowsKnown, RowsApart, Protected, PROTECTED_STATUSES, NoTime
<1> QED
  BY <1>1, <1>2 DEF Init, SlotInv
-----------------------------------------------------------------------------
(* The operations of a queue.                                              *)

LEMMA PlanBegun ==
  ASSUME SlotInv, NEW q \in Queues, LockChannel(q),
         NEW op \in {"add", "reslot", "prioritize", "ladder", "reorder"}, NEW p \in Posts,
         NEW to, DOMAIN to \subseteq Posts, to \in [DOMAIN to -> Nat],
         Begin(q, op, p, to), PlanApart([op |-> op, post |-> p, to |-> to])
  PROVE  SlotInv'
<1> DEFINE do == [op |-> op, post |-> p, to |-> to]
<1>1. do \in Plan
  BY DEF Plan
<1>2. PlanApart(do)'
  BY DEF Begin, PlanApart, WillHold
<1> HIDE DEF do
<1>3. plan' = [plan EXCEPT ![q] = do] /\ UNCHANGED <<now, status, at, entries, clashed>>
  BY DEF Begin, do
<1>4. /\ Typed' /\ plan'[q] = do
      /\ \A r \in Queues : r # q => plan'[r] = NoPlan
  BY <1>1, <1>3 DEF SlotInv, Typed, LockChannel
<1>5. RowsKnown' /\ RowsApart'
  BY <1>3 DEF SlotInv, RowsKnown, RowsApart, Protected
<1>6. ASSUME NEW r \in Queues, plan'[r] # NoPlan PROVE r = q /\ PlanApart(plan[r])'
  BY <1>2, <1>4, <1>6 DEF PlanApart, WillHold
<1> QED
  BY <1>4, <1>5, <1>6 DEF SlotInv

\* A free instant to come is nobody else's, unless a hand put a row there.
LEMMA FreeApart ==
  ASSUME SlotInv, SlotLimits, NEW p \in Posts, NEW t \in Upcoming,
         t \notin OccupiedDatetimes({p})
  PROVE  /\ t \in Nat /\ t > now
         /\ \A r \in Posts \ {p} : at[r] = t => t \in clashed
<1>1. t \in Nat /\ t > now /\ now \in Nat
  BY ComingInstants DEF Upcoming, SlotInv, Typed
<1>2. ASSUME NEW r \in Posts \ {p}, at[r] = t PROVE t \in clashed
  <2>1. ~Future(r)
    BY <1>2 DEF OccupiedDatetimes
  <2>2. status[r] # "none"
    BY <1>1, <1>2 DEF SlotInv, RowsKnown, NoTime
  <2> QED
    BY <1>1, <1>2, <2>1, <2>2 DEF SlotInv, RowsKnown, Future
<1> QED
  BY <1>1, <1>2

\* One post goes to a free instant.
LEMMA OnePlaced ==
  ASSUME SlotInv, SlotLimits, NEW q \in Queues, NEW p \in Posts, LockChannel(q),
         NEW op \in {"add", "reslot", "prioritize"}, op = "reslot" => status[p] # "none",
         NEW t \in Upcoming, t \notin OccupiedDatetimes({p}), Begin(q, op, p, [x \in {p} |-> t])
  PROVE  SlotInv'
<1>1. t \in Nat /\ \A r \in Posts \ {p} : at[r] = t => t \in clashed
  BY FreeApart
<1>2. /\ DOMAIN [x \in {p} |-> t] = {p} /\ [x \in {p} |-> t] \in [{p} -> Nat]
      /\ [x \in {p} |-> t][p] = t
  BY <1>1
<1>3. PlanApart([op |-> op, post |-> p, to |-> [x \in {p} |-> t]])
  BY <1>1, <1>2 DEF PlanApart, WillHold
<1> QED
  BY <1>2, <1>3, PlanBegun

LEMMA AddKeeps ==
  ASSUME SlotInv, SlotLimits, NEW q \in Queues, NEW p \in Posts, NEW op \in {"add", "reslot"},
         AddPostNextAvailable(q, p, op)
  PROVE  SlotInv'
<1>1. Free({p}) \in SUBSET Nat
  BY ComingInstants
<1>2. Min(Free({p})) \in Free({p})
  BY <1>1, MinIsLeast DEF AddPostNextAvailable
<1>3. PICK t : t = Min(Free({p}))
  OBVIOUS
<1>4. t \in Upcoming /\ t \notin OccupiedDatetimes({p}) /\ Begin(q, op, p, [x \in {p} |-> t])
  BY <1>2, <1>3 DEF Free, AddPostNextAvailable
<1>5. LockChannel(q) /\ (op = "reslot" => status[p] # "none")
  BY DEF AddPostNextAvailable, MayPlace
<1> QED
  BY <1>4, <1>5, OnePlaced

\* What a ladder's times are: distinct, to come, and each mover's later than
\* its own and nobody's who stays.
LEMMA LadderFacts ==
  ASSUME SlotInv, SlotLimits, NEW q \in Queues, NEW p \in Posts, Upcoming # {},
         NEW to \in Ladders(q, p)
  PROVE  /\ Movers(q, p) \subseteq Posts \ {p} /\ DOMAIN to = Movers(q, p) \cup {p}
         /\ \A e \in Movers(q, p) : /\ Future(e) /\ at[e] \in Upcoming /\ at[e] \in Nat
                                    /\ to[e] > at[e] /\ to[e] \notin Avoid(q, p)
         /\ \A e \in DOMAIN to : to[e] \in Upcoming /\ to[e] \in Nat /\ to[p] <= to[e]
         /\ \A e, f \in DOMAIN to : e # f => to[e] # to[f]
<1> DEFINE M == Movers(q, p)
           Landing(e) == {t \in Later(e) \ Avoid(q, p) : \A f \in DOMAIN to \ {e} :
                            (f = p \/ at[f] >= at[e]) => to[f] # t}
<1>1. M \subseteq Posts \ {p} /\ \A e \in M : Future(e) /\ at[e] \in Upcoming /\ at[e] \in Nat
  BY DEF Movers, Movable, First, SlotInv, Typed
<1>2. /\ to \in [M \cup {p} -> Upcoming]
      /\ to[p] = Min(Upcoming)
      /\ \A e \in M : to[e] \in Landing(e)
  BY DEF Ladders
<1>3. Upcoming \in SUBSET Nat
  BY ComingInstants
<1>4. \A e \in M \cup {p} : to[e] \in Upcoming /\ to[e] \in Nat /\ to[p] <= to[e]
  BY <1>2, <1>3, FirstComing
<1>5. \A e \in M : to[e] > at[e] /\ to[e] \notin Avoid(q, p)
  BY <1>2 DEF Later
<1>6. ASSUME NEW e \in M, NEW f \in M \cup {p}, e # f, f = p \/ at[f] >= at[e]
      PROVE  to[e] # to[f]
  BY <1>2, <1>6
<1>7. ASSUME NEW e \in M \cup {p}, NEW f \in M \cup {p}, e # f
      PROVE  to[e] # to[f]
  <2>1. CASE e = p \/ f = p
    BY <1>6, <1>7, <2>1
  <2>2. CASE e # p /\ f # p
    <3>1. at[e] \in Nat /\ at[f] \in Nat
      BY <1>1, <2>2
    <3>2. at[e] >= at[f] \/ at[f] >= at[e]
      BY <3>1
    <3> QED
      BY <1>6, <1>7, <2>2, <3>2
  <2> QED
    BY <2>1, <2>2
<1> HIDE DEF Landing
<1> QED
  BY <1>1, <1>2, <1>4, <1>5, <1>7

LEMMA LadderKeeps ==
  ASSUME SlotInv, SlotLimits, NEW q \in Queues, NEW p \in Posts, LockChannel(q),
         Upcoming # {}, Min(Upcoming) \in {at[e] : e \in Movable(q, p)},
         NEW to \in Ladders(q, p), Begin(q, "ladder", p, to)
  PROVE  SlotInv'
<1> DEFINE do == [op |-> "ladder", post |-> p, to |-> to]
           M == Movers(q, p)
<1>1. /\ M \subseteq Posts \ {p} /\ DOMAIN to = M \cup {p}
      /\ \A e \in M : Future(e) /\ at[e] \in Upcoming /\ at[e] > now /\ to[e] \notin Avoid(q, p)
      /\ \A e \in DOMAIN to : to[e] \in Upcoming
      /\ \A e, f \in DOMAIN to : e # f => to[e] # to[f]
  BY LadderFacts DEF Future
<1>2. to \in [DOMAIN to -> Nat]
  BY <1>1, ComingInstants DEF Ladders
\* The first instant is among those the ladder looks at.
<1>3. PICK g \in M : to[p] = at[g]
  <2>1. PICK g \in Movable(q, p) : Min(Upcoming) = at[g]
    OBVIOUS
  <2>3. Min(Upcoming) \in Upcoming /\ {u \in Upcoming : u < Min(Upcoming)} = {}
    BY FirstComing
  <2>4. IsFiniteSet(Movable(q, p))
    BY FS_Subset DEF Movable, SlotLimits, SlotInv, Typed
  <2>5. Cardinality({u \in Upcoming : u < Min(Upcoming)}) < Cardinality(Movable(q, p)) + 2
    <3>1. Cardinality({u \in Upcoming : u < Min(Upcoming)}) = 0
      BY <2>3, FS_EmptySet
    <3>2. Cardinality(Movable(q, p)) \in Nat
      BY <2>4, FS_CardinalityType
    <3> QED
      BY <3>1, <3>2
  <2>6. at[g] \in First(Cardinality(Movable(q, p)) + 2)
    BY <2>1, <2>3, <2>5 DEF First
  <2>7. to[p] = Min(Upcoming)
    BY DEF Ladders
  <2> QED
    BY <2>1, <2>6, <2>7 DEF Movers
<1>4. \A e \in M : e \in Posts /\ at[e] > now /\ status[e] # "none"
  BY <1>1 DEF Future
<1>5. ASSUME NEW e \in M, NEW r \in Posts \ {e}, at[e] = at[r] PROVE at[r] \in clashed
  BY <1>4, <1>5 DEF SlotInv, RowsApart
<1>6. ASSUME NEW e \in M, NEW r \in Posts \ DOMAIN to, to[e] = at[r] PROVE to[e] \in clashed
  <2>1. CASE to[e] \in {at[f] : f \in M}
    BY <1>1, <1>5, <1>6, <2>1
  <2>2. CASE to[e] \notin {at[f] : f \in M}
    <3>1. to[e] \in Upcoming /\ to[e] \notin OccupiedDatetimes({p})
      BY <1>1, <2>2 DEF Avoid
    <3> QED
      BY <1>1, <1>6, <3>1, FreeApart
  <2> QED
    BY <2>1, <2>2
<1>7. ASSUME NEW e \in DOMAIN to, NEW r \in Posts, e # r, to[e] = WillHold(do, r)
      PROVE  to[e] \in clashed
  <2>1. r \notin DOMAIN to /\ to[e] = at[r]
    BY <1>1, <1>7 DEF WillHold
  <2> QED
    BY <1>1, <1>3, <1>5, <1>6, <2>1
<1>8. PlanApart(do)
  BY <1>1, <1>4, <1>7 DEF PlanApart
<1> QED
  BY <1>1, <1>2, <1>8, PlanBegun

LEMMA PrioritizeKeeps ==
  ASSUME SlotInv, SlotLimits, NEW q \in Queues, NEW p \in Posts, Prioritize(q, p)
  PROVE  SlotInv'
<1>a. Upcoming \in SUBSET Nat /\ Free({p}) \in SUBSET Nat
  BY ComingInstants
<1>b. LockChannel(q) /\ Upcoming # {}
  BY DEF Prioritize
<1>1. LockChannel(q) /\ Upcoming # {} /\ Upcoming \in SUBSET Nat /\ Free({p}) \in SUBSET Nat
  BY <1>a, <1>b
<1>2. CASE Min(Upcoming) \in {at[e] : e \in Movable(q, p)}
  <2>1. PICK to \in Ladders(q, p) : Begin(q, "ladder", p, to)
    BY <1>2 DEF Prioritize
  <2> QED
    BY <1>1, <1>2, <2>1, LadderKeeps
<1>3. CASE Min(Upcoming) \notin {at[e] : e \in Movable(q, p)}
  <2>1. CASE Min(Upcoming) \in OccupiedDatetimes({p})
    <3>1. Min(Free({p})) \in Free({p}) /\ Begin(q, "prioritize", p, [x \in {p} |-> Min(Free({p}))])
      BY <1>1, <1>3, <2>1, MinIsLeast DEF Prioritize
    <3>2. PICK t : t = Min(Free({p}))
      OBVIOUS
    <3>3. t \in Upcoming /\ t \notin OccupiedDatetimes({p}) /\ Begin(q, "prioritize", p, [x \in {p} |-> t])
      BY <3>1, <3>2 DEF Free
    <3> QED
      BY <1>1, <3>3, OnePlaced
  <2>2. CASE Min(Upcoming) \notin OccupiedDatetimes({p})
    <3>1. PICK t : t = Min(Upcoming)
      OBVIOUS
    <3>2. t \in Upcoming /\ t \notin OccupiedDatetimes({p}) /\ Begin(q, "prioritize", p, [x \in {p} |-> t])
      BY <1>1, <1>3, <2>2, <3>1, MinIsLeast DEF Prioritize
    <3> QED
      BY <1>1, <3>2, OnePlaced
  <2> QED
    BY <2>1, <2>2
<1> QED
  BY <1>2, <1>3

LEMMA ReorderKeeps ==
  ASSUME SlotInv, SlotLimits, NEW q \in Queues, NEW order \in SetToSeqs(entries[q]),
         ReorderQueue(q, order)
  PROVE  SlotInv'
<1> DEFINE S == {e \in ToSet(order) : ~Protected(e) /\ at[e] # NoTime}
<1>1. PICK holder \in Bijection(S, S) :
        Begin(q, "reorder", order[1], [e \in S |-> at[holder[e]]])
  BY DEF ReorderQueue
<1>2. order \in [1..Cardinality(entries[q]) -> entries[q]] /\ entries[q] \subseteq Posts
  BY DEF SetToSeqs, SlotInv, Typed
<1>3. S \subseteq Posts /\ \A e \in S : status[e] # "none" /\ at[e] \in Nat \ {0}
  BY <1>2 DEF ToSet, SlotInv, Typed, RowsKnown, NoTime
<1>4. /\ holder \in [S -> S]
      /\ \A e, f \in S : e # f => holder[e] # holder[f]
      /\ \A f \in S : \E e \in S : holder[e] = f
  BY <1>1 DEF Bijection, Injection, Surjection, IsInjective
<1>5. LockChannel(q) /\ S # {}
  BY DEF ReorderQueue
<1>6. order[1] \in Posts
  <2>1. Cardinality(entries[q]) \in Nat
    BY <1>2, FS_Subset, FS_CardinalityType DEF SlotLimits
  <2>2. PICK i : i \in 1..Cardinality(entries[q])
    BY <1>2, <1>5 DEF ToSet
  <2> QED
    BY <1>2, <2>1, <2>2
<1>7. PICK to \in [S -> Nat] : to = [e \in S |-> at[holder[e]]]
  BY <1>3, <1>4
<1> DEFINE do == [op |-> "reorder", post |-> order[1], to |-> to]
<1>8. \A e, r \in Posts : e # r /\ at[e] = at[r] /\ at[e] > now => at[e] \in clashed
  BY DEF SlotInv, RowsApart
<1> HIDE DEF S
<1>9. ASSUME NEW e \in S, NEW r \in Posts, e # r, to[e] = WillHold(do, r), to[e] > now
      PROVE  to[e] \in clashed
  <2>1. CASE r \in S
    <3>1. at[holder[e]] = at[holder[r]] /\ holder[e] # holder[r] /\ to[e] = at[holder[e]]
      BY <1>4, <1>7, <1>9, <2>1 DEF WillHold
    <3> QED
      BY <1>3, <1>4, <1>8, <1>9, <2>1, <3>1
  <2>2. CASE r \notin S
    <3>1. at[holder[e]] = at[r] /\ holder[e] # r /\ to[e] = at[holder[e]]
      BY <1>4, <1>7, <1>9, <2>2 DEF WillHold
    <3> QED
      BY <1>3, <1>4, <1>8, <1>9, <3>1
  <2> QED
    BY <2>1, <2>2
<1>10. PlanApart(do)
  BY <1>3, <1>7, <1>9 DEF PlanApart
<1>11. PICK p \in Posts : p = order[1]
  BY <1>6
<1> QED
  BY <1>1, <1>3, <1>5, <1>7, <1>10, <1>11, PlanBegun

\* What was about to be written is.
LEMMA CommitKeeps ==
  ASSUME SlotInv, NEW q \in Queues, Commit(q)
  PROVE  SlotInv'
<1>1. PICK do : do = plan[q]
  OBVIOUS
<1>2. /\ do \in Plan /\ PlanApart(do)
      /\ \A r \in Queues : r # q => plan[r] = NoPlan
  BY <1>1 DEF Commit, SlotInv, Typed
<1>3. /\ at' = [p \in Posts |-> WillHold(do, p)]
      /\ clashed' = clashed \cup {do.to[p] : p \in {r \in DOMAIN do.to : Protected(r)}}
      /\ plan' = [plan EXCEPT ![q] = NoPlan] /\ now' = now
  BY <1>1 DEF Commit, WillHold
<1>4. /\ entries' = IF do.op = "reorder" THEN entries
                    ELSE [entries EXCEPT ![q] = @ \cup {do.post}]
      /\ \A p \in Posts : \/ status'[p] = status[p]
                          \/ status'[p] = "scheduled"
      /\ status' \in [Posts -> RowStatus]
      /\ (do.op \in {"add", "prioritize", "ladder"} /\ status[do.post] = "none")
           => status'[do.post] = "scheduled"
  BY <1>1, <1>2 DEF Commit, SlotInv, Typed, RowStatus, Plan
<1>5. do.post \in Posts /\ DOMAIN do.to \subseteq Posts /\ do.to \in [DOMAIN do.to -> Nat]
  BY <1>2 DEF Plan
<1>6. \A p \in Posts : WillHold(do, p) \in Nat /\ at[p] \in Nat /\ now \in Nat
  BY <1>5 DEF WillHold, SlotInv, Typed
<1>7. Typed'
  BY <1>3, <1>4, <1>5, <1>6 DEF SlotInv, Typed
<1>8. ASSUME NEW p \in Posts PROVE status'[p] = "none" => at'[p] = NoTime
  <2>1. CASE p \in DOMAIN do.to
    BY <1>2, <1>4, <2>1 DEF PlanApart
  <2>2. CASE p \notin DOMAIN do.to
    BY <1>3, <1>4, <2>2 DEF WillHold, SlotInv, RowsKnown
  <2> QED
    BY <2>1, <2>2
<1>9. ASSUME NEW p \in Posts, Protected(p)', at'[p] > now' PROVE at'[p] \in clashed'
  <2>1. Protected(p)
    BY <1>4, <1>9 DEF Protected, PROTECTED_STATUSES
  <2>2. CASE p \in DOMAIN do.to
    BY <1>3, <2>1, <2>2 DEF WillHold
  <2>3. CASE p \notin DOMAIN do.to
    BY <1>3, <1>9, <2>1, <2>3 DEF WillHold, SlotInv, RowsKnown
  <2> QED
    BY <2>2, <2>3
<1>10. ASSUME NEW p \in Posts, NEW r \in Posts, p # r, at'[p] = at'[r], at'[p] > now'
       PROVE  at'[p] \in clashed
  <2>1. WillHold(do, p) = WillHold(do, r) /\ WillHold(do, p) > now /\ at'[p] = WillHold(do, p)
    BY <1>3, <1>10
  <2>2. CASE p \in DOMAIN do.to
    BY <1>2, <1>10, <2>1, <2>2 DEF PlanApart, WillHold
  <2>3. CASE r \in DOMAIN do.to
    BY <1>2, <1>10, <2>1, <2>3 DEF PlanApart, WillHold
  <2>4. CASE p \notin DOMAIN do.to /\ r \notin DOMAIN do.to
    BY <1>10, <2>1, <2>4 DEF WillHold, SlotInv, RowsApart
  <2> QED
    BY <2>2, <2>3, <2>4
<1>11. RowsKnown' /\ RowsApart'
  BY <1>3, <1>8, <1>9, <1>10 DEF RowsKnown, RowsApart
<1>12. \A r \in Queues : plan'[r] = NoPlan
  BY <1>2, <1>3 DEF SlotInv, Typed
<1> QED
  BY <1>7, <1>11, <1>12 DEF SlotInv

-----------------------------------------------------------------------------
(* The steps that take no lock: one row gets a status and a time.  That    *)
(* time is nobody else's and nobody is about to have it, or it is on       *)
(* record.                                                                 *)

LEMMA RowMoved ==
  ASSUME SlotInv, UNCHANGED <<now, plan>>, clashed \subseteq clashed',
         entries' \in [Queues -> SUBSET Posts],
         NEW p \in Posts, NEW s \in RowStatus \ {"none"}, NEW t \in Nat,
         status' = [status EXCEPT ![p] = s], at' = [at EXCEPT ![p] = t],
         (s \in PROTECTED_STATUSES /\ t > now) => t \in clashed',
         \A r \in Posts \ {p} : (at[r] = t /\ t > now) => t \in clashed',
         \A q \in Queues : plan[q] # NoPlan =>
           \A r \in DOMAIN plan[q].to \ {p} :
             (p \notin DOMAIN plan[q].to /\ plan[q].to[r] = t /\ t > now) => t \in clashed'
  PROVE  SlotInv'
<1>1. Typed'
  BY DEF SlotInv, Typed
<1>2. \A r \in Posts : /\ status'[r] = IF r = p THEN s ELSE status[r]
                       /\ at'[r] = IF r = p THEN t ELSE at[r]
  BY DEF SlotInv, Typed
<1>3. RowsKnown'
  BY <1>2 DEF SlotInv, RowsKnown, Protected
<1>4. RowsApart'
  BY <1>2 DEF SlotInv, RowsApart
<1>5. ASSUME NEW q \in Queues, plan'[q] # NoPlan PROVE PlanApart(plan[q])'
  <2>1. PICK do : do = plan[q]
    OBVIOUS
  <2>2. plan'[q] = do /\ do \in Plan /\ PlanApart(do)
    BY <1>5, <2>1 DEF SlotInv, Typed
  <2>3. DOMAIN do.to \subseteq Posts
    BY <2>2 DEF Plan
  <2>4. ASSUME NEW e \in DOMAIN do.to, NEW r \in Posts, e # r,
               do.to[e] = WillHold(do, r)', do.to[e] > now
        PROVE  do.to[e] \in clashed'
    <3>1. CASE r = p /\ r \notin DOMAIN do.to
      BY <1>2, <1>5, <2>1, <2>4, <3>1 DEF WillHold
    <3>2. CASE r # p \/ r \in DOMAIN do.to
      <4>1. WillHold(do, r)' = WillHold(do, r)
        BY <1>2, <3>2 DEF WillHold
      <4> QED
        BY <2>2, <2>4, <4>1 DEF PlanApart
    <3> QED
      BY <3>1, <3>2
  <2>5. ASSUME NEW e \in DOMAIN do.to, status'[e] = "none"
        PROVE  e = do.post /\ do.op \in {"add", "prioritize", "ladder"}
    BY <1>2, <2>2, <2>3, <2>5 DEF PlanApart
  <2>6. PlanApart(do)'
    BY <2>4, <2>5 DEF PlanApart
  <2> QED
    BY <2>2, <2>6 DEF PlanApart, WillHold
<1> QED
  BY <1>1, <1>3, <1>4, <1>5 DEF SlotInv

LEMMA LeaveKeeps ==
  ASSUME SlotInv, NEW p \in Posts, Leave(p), UNCHANGED <<now, plan, clashed>>
  PROVE  SlotInv'
<1>1. entries' \in [Queues -> SUBSET Posts] /\ now \in Nat
  BY DEF Leave, SlotInv, Typed
<1>2. ~(NoTime > now) /\ NoTime \in Nat /\ "draft" \in RowStatus \ {"none"}
  BY <1>1 DEF NoTime, RowStatus
<1>3. status' = [status EXCEPT ![p] = "draft"] /\ at' = [at EXCEPT ![p] = NoTime]
  BY DEF Leave
<1> QED
  BY <1>1, <1>2, <1>3, RowMoved

LEMMA RemoveKeeps ==
  ASSUME SlotInv, NEW q \in Queues, NEW p \in Posts, RemoveFromQueue(q, p)
  PROVE  SlotInv'
<1>1. CASE Leave(p)
  BY <1>1, LeaveKeeps DEF RemoveFromQueue
<1>2. CASE /\ entries' = [entries EXCEPT ![q] = @ \ {p}]
           /\ UNCHANGED <<status, at>>
  <2>1. /\ UNCHANGED <<now, status, at, plan, clashed>>
        /\ entries' \in [Queues -> SUBSET Posts]
    BY <1>2 DEF RemoveFromQueue, SlotInv, Typed
  <2>2. \A r \in Queues : plan[r] = NoPlan
    BY DEF RemoveFromQueue, LockChannel
  <2> QED
    BY <2>1, <2>2 DEF SlotInv, Typed, RowsKnown, RowsApart, Protected
<1> QED
  BY <1>1, <1>2 DEF RemoveFromQueue

LEMMA BookedKeeps ==
  ASSUME SlotInv, SlotLimits, NEW p \in Posts, NEW t \in HandInstants, Booked(p, t),
         status' = [status EXCEPT ![p] = "scheduled"], UNCHANGED <<now, entries, plan>>
  PROVE  SlotInv'
<1>1. t \in Nat /\ now \in Nat /\ entries' \in [Queues -> SUBSET Posts]
  BY DEF SlotLimits, Instants, SlotInv, Typed
<1>2. ASSUME NEW r \in Posts \ {p}, at[r] = t, t > now PROVE t \in clashed'
  <2>1. CASE Future(r)
    BY <1>2, <2>1 DEF Booked, OccupiedDatetimes
  <2>2. CASE ~Future(r)
    BY <1>1, <1>2, <2>2 DEF Future, Booked, SlotInv, RowsKnown, NoTime
  <2> QED
    BY <2>1, <2>2
<1>3. ASSUME NEW q \in Queues, plan[q] # NoPlan, NEW r \in DOMAIN plan[q].to, plan[q].to[r] = t
      PROVE  t \in clashed'
  <2>1. t \in About
    BY <1>3 DEF About
  <2> QED
    BY <2>1 DEF Booked
<1>4. clashed \subseteq clashed' /\ at' = [at EXCEPT ![p] = t]
  BY DEF Booked
<1>5. "scheduled" \in RowStatus \ {"none"} /\ "scheduled" \notin PROTECTED_STATUSES
  BY DEF RowStatus, PROTECTED_STATUSES
<1>6. \A q \in Queues : plan[q] # NoPlan =>
        \A r \in DOMAIN plan[q].to \ {p} :
          (p \notin DOMAIN plan[q].to /\ plan[q].to[r] = t /\ t > now) => t \in clashed'
  BY <1>3
<1>7. \A r \in Posts \ {p} : (at[r] = t /\ t > now) => t \in clashed'
  BY <1>2
<1>8. UNCHANGED <<now, plan>> /\ ("scheduled" \in PROTECTED_STATUSES /\ t > now => t \in clashed')
  BY <1>5
<1> QED
  BY <1>1, <1>4, <1>5, <1>6, <1>7, <1>8, RowMoved

LEMMA PublishKeeps ==
  ASSUME SlotInv, NEW p \in Posts, Publish(p)
  PROVE  SlotInv'
<1>1. PICK s \in RowStatus \ {"none"} :
        /\ status' = [status EXCEPT ![p] = s]
        /\ at[p] <= now \/ Protected(p)
  BY DEF Publish, RowStatus, Protected, PROTECTED_STATUSES
<1>2. PICK t \in Nat : t = at[p]
  BY DEF SlotInv, Typed
<1>3. /\ at' = [at EXCEPT ![p] = t] /\ UNCHANGED <<now, plan, clashed>>
      /\ entries' \in [Queues -> SUBSET Posts] /\ now \in Nat
  BY <1>2 DEF Publish, SlotInv, Typed
<1>4. t > now => t \in clashed
  BY <1>1, <1>2, <1>3 DEF SlotInv, RowsKnown
<1> QED
  BY <1>1, <1>3, <1>4, RowMoved

LEMMA TickKeeps ==
  ASSUME SlotInv, Tick
  PROVE  SlotInv'
<1>1. now' \in Nat /\ now \in Nat /\ now <= now'
      /\ UNCHANGED <<status, at, entries, plan, clashed>>
  BY DEF Tick, SlotInv, Typed
<1>2. \A t \in Nat : t > now' => t > now
  BY <1>1
<1>3. Typed'
  BY <1>1 DEF SlotInv, Typed
<1>4. \A p \in Posts : at[p] \in Nat
  BY DEF SlotInv, Typed
<1>5. RowsKnown' /\ RowsApart'
  BY <1>1, <1>2, <1>4 DEF SlotInv, RowsKnown, RowsApart, Protected
<1>6. ASSUME NEW q \in Queues, plan'[q] # NoPlan PROVE PlanApart(plan[q])'
  <2>1. plan[q] \in Plan /\ PlanApart(plan[q]) /\ plan'[q] = plan[q]
    BY <1>1, <1>6 DEF SlotInv, Typed
  <2>2. \A e \in DOMAIN plan[q].to : plan[q].to[e] \in Nat
    BY <2>1 DEF Plan
  <2> QED
    BY <1>1, <1>2, <2>1, <2>2 DEF PlanApart, WillHold
<1> QED
  BY <1>1, <1>3, <1>5, <1>6 DEF SlotInv

LEMMA SlotsNext ==
  ASSUME SlotLimits
  PROVE  SlotInv /\ [Next]_vars => SlotInv'
<1> SUFFICES ASSUME SlotInv, [Next]_vars PROVE SlotInv'
  OBVIOUS
<1>1. ASSUME NEW q \in Queues, QueueOp(q) PROVE SlotInv'
  BY <1>1, AddKeeps, PrioritizeKeeps, RemoveKeeps, ReorderKeeps, CommitKeeps DEF QueueOp
<1>2. ASSUME NEW p \in Posts, Outside(p) PROVE SlotInv'
  <2>1. ASSUME NEW t \in HandInstants, ReschedulePost(p, t) \/ GenerateRecurringPost(p, t)
        PROVE  SlotInv'
    BY <2>1, BookedKeeps DEF ReschedulePost, GenerateRecurringPost
  <2>2. CASE Unschedule(p)
    BY <2>2, LeaveKeeps DEF Unschedule
  <2> QED
    BY <1>2, <2>1, <2>2, PublishKeeps DEF Outside
<1>3. CASE UNCHANGED vars
  BY <1>3 DEF vars, SlotInv, Typed, RowsKnown, RowsApart, Protected, PlanApart, WillHold
<1> QED
  BY <1>1, <1>2, <1>3, TickKeeps DEF Next

LEMMA ApartIsEnough ==
  ASSUME SlotInv
  PROVE  OnlyHandsDoubleBook
  BY DEF SlotInv, RowsApart, OnlyHandsDoubleBook, Future

(* Only a hand books an instant twice, for any number of posts, queues and *)
(* slots: the lock on the channel lets one operation at a time act on the  *)
(* slots it read (services.py 158-161).                                    *)
THEOREM OnlyHands == ASSUME SlotLimits PROVE Spec => []OnlyHandsDoubleBook
<1>1. Init => SlotInv
  BY SlotsStart
<1>2. SlotInv /\ [Next]_vars => SlotInv'
  BY SlotsNext
<1>3. SlotInv => OnlyHandsDoubleBook
  BY ApartIsEnough
<1> QED
  BY <1>1, <1>2, <1>3, PTL DEF Spec

-----------------------------------------------------------------------------
(* The order of the ladder.  The instant of the next mover after e is one  *)
(* e may go to: that mover and all after it have gone past it, and a mover *)
(* on e's own instant, which might have taken it, there is none.           *)

LEMMA NextInstantIsOpen ==
  ASSUME SlotInv, SlotLimits, NEW q \in Queues, NEW p \in Posts, Upcoming # {},
         NEW to \in Ladders(q, p), NEW e \in Movers(q, p), NEW f \in Movers(q, p),
         at[e] < at[f], \A g \in Movers(q, p) \ {e} : at[g] # at[e]
  PROVE  to[e] <= at[f]
<1> DEFINE M == Movers(q, p)
           Landing == {t \in Later(e) \ Avoid(q, p) : \A g \in DOMAIN to \ {e} :
                         (g = p \/ at[g] >= at[e]) => to[g] # t}
           Above == {at[g] : g \in {g \in M : at[g] > at[e]}}
           u == Min(Above)
<1>1. /\ M \subseteq Posts \ {p} /\ DOMAIN to = M \cup {p}
      /\ \A g \in M : at[g] \in Upcoming /\ at[g] \in Nat /\ to[g] > at[g]
      /\ \A g \in DOMAIN to : to[g] \in Nat
  BY LadderFacts
<1>2. at[f] \in Above /\ Above \in SUBSET Nat
  BY <1>1
<1>3. u \in Above /\ \A t \in Above : u <= t
  BY <1>2, MinIsLeast
<1> HIDE DEF u
<1>4. u \in Nat /\ u > at[e] /\ u <= at[f] /\ u \in Upcoming /\ u \notin Avoid(q, p)
  BY <1>1, <1>2, <1>3 DEF Avoid
<1> HIDE DEF M
<1>5. ASSUME NEW g \in DOMAIN to \ {e}, g = p \/ at[g] >= at[e]
      PROVE  to[g] # u
  <2>1. CASE g = p
    <3>1. to[p] <= at[e] /\ to[p] \in Nat /\ at[e] \in Nat
      BY <1>1, FirstComing DEF Ladders, M
    <3> QED
      BY <1>4, <2>1, <3>1
  <2>2. CASE g # p
    <3>1. g \in M /\ at[g] \in Nat /\ at[e] \in Nat /\ to[g] > at[g] /\ to[g] \in Nat
      BY <1>1, <2>2 DEF M
    <3>2. at[g] > at[e]
      BY <1>5, <2>2, <3>1 DEF M
    <3>3. u <= at[g]
      BY <1>3, <3>1, <3>2
    <3> QED
      BY <1>4, <3>1, <3>3
  <2> QED
    BY <2>1, <2>2
<1>6. u \in Landing
  BY <1>4, <1>5 DEF Later
<1>7. \A t \in Landing : to[e] <= t
  BY DEF Ladders
<1>8. to[e] \in Nat /\ at[f] \in Nat /\ to[e] <= u
  BY <1>1, <1>6, <1>7 DEF M
<1> QED
  BY <1>4, <1>8

LEMMA LadderOrdered ==
  ASSUME SlotInv, SlotLimits, NEW q \in Queues, NEW p \in Posts, Upcoming # {},
         NEW to \in Ladders(q, p), NEW e \in DOMAIN to \ {p}
  PROVE  /\ to[p] < to[e]
         /\ (\A g \in DOMAIN to \ {p, e} : at[g] # at[e]) =>
              \A f \in DOMAIN to \ {p} : at[e] < at[f] => to[e] < to[f]
<1>1. /\ DOMAIN to = Movers(q, p) \cup {p} /\ p \notin Movers(q, p)
      /\ \A g \in Movers(q, p) : at[g] \in Nat /\ to[g] > at[g]
      /\ \A g \in DOMAIN to : to[g] \in Nat /\ to[p] <= to[g]
      /\ \A g, h \in DOMAIN to : g # h => to[g] # to[h]
  BY LadderFacts
<1>2. to[p] < to[e]
  <2>1. p \in DOMAIN to /\ e # p
    BY <1>1
  <2>2. to[e] # to[p]
    BY <1>1, <2>1
  <2> QED
    BY <1>1, <2>1, <2>2
<1>3. ASSUME \A g \in DOMAIN to \ {p, e} : at[g] # at[e],
             NEW f \in DOMAIN to \ {p}, at[e] < at[f]
      PROVE  to[e] < to[f]
  <2>1. to[e] <= at[f]
    BY <1>1, <1>3, NextInstantIsOpen
  <2>2. to[f] > at[f] /\ at[f] \in Nat /\ to[f] \in Nat /\ to[e] \in Nat
    BY <1>1
  <2> QED
    BY <2>1, <2>2
<1> QED
  BY <1>2, <1>3

\* A plan to ladder is made by a prioritisation.
LEMMA LadderedByPrioritize ==
  ASSUME SlotInv, [Next]_vars, NEW q \in Queues, Laddered(q)
  PROVE  \E p \in Posts : /\ Upcoming # {}
                          /\ \E to \in Ladders(q, p) : Begin(q, "ladder", p, to)
<1>1. plan[q] = NoPlan /\ plan'[q] # NoPlan /\ plan'[q].op = "ladder" /\ plan' # plan
  BY DEF Laddered
<1>2. PICK r \in Queues : QueueOp(r)
  BY <1>1 DEF Next, Outside, ReschedulePost, GenerateRecurringPost, Unschedule, Publish, Tick, vars
<1>3. ~Commit(r)
  BY <1>1 DEF Commit, SlotInv, Typed
<1>4. ASSUME NEW op, NEW p, NEW to, Begin(r, op, p, to)
      PROVE  r = q /\ op = "ladder"
  BY <1>1, <1>4 DEF Begin, SlotInv, Typed
<1>5. ASSUME NEW p \in Posts, NEW op \in {"add", "reslot"}, AddPostNextAvailable(r, p, op)
      PROVE  FALSE
  BY <1>4, <1>5 DEF AddPostNextAvailable
<1>6. ASSUME NEW order, ReorderQueue(r, order)
      PROVE  FALSE
  <2>1. PICK to : Begin(r, "reorder", order[1], to)
    BY <1>6 DEF ReorderQueue
  <2> QED
    BY <1>4, <2>1
<1>7. \A p \in Posts : ~RemoveFromQueue(r, p)
  BY <1>1 DEF RemoveFromQueue
<1>8. PICK p \in Posts : Prioritize(r, p)
  BY <1>2, <1>3, <1>5, <1>6, <1>7 DEF QueueOp
<1>9. Upcoming # {} /\ \E to \in Ladders(r, p) : Begin(r, "ladder", p, to)
  BY <1>4, <1>8 DEF Prioritize
<1> QED
  BY <1>4, <1>9

LEMMA StepsInOrder ==
  ASSUME SlotLimits, SlotInv, [Next]_vars
  PROVE  LadderInOrder
<1> SUFFICES ASSUME NEW q \in Queues, Laddered(q)
             PROVE  LET to == plan'[q].to
                        others == DOMAIN to \ {plan'[q].post}
                    IN  \A e \in others :
                          /\ to[plan'[q].post] < to[e]
                          /\ (\A g \in others \ {e} : at[g] # at[e])
                               => \A f \in others : at[e] < at[f] => to[e] < to[f]
  BY DEF LadderInOrder
<1>1. PICK p \in Posts : Upcoming # {} /\ \E to \in Ladders(q, p) : Begin(q, "ladder", p, to)
  BY LadderedByPrioritize
<1>2. PICK to \in Ladders(q, p) : Begin(q, "ladder", p, to)
  BY <1>1
<1>3. plan'[q].to = to /\ plan'[q].post = p
  BY <1>2 DEF Begin, SlotInv, Typed
<1> QED
  BY <1>1, <1>3, LadderOrdered

(* Prioritising a post puts it before all that its ladder moves, and keeps *)
(* their order but for entries on one instant, for any number of entries,  *)
(* of slots and of rows that may not move (services.py 221-226).           *)
THEOREM LadderOrder == ASSUME SlotLimits PROVE Spec => LadderKeepsOrder
<1>1. Init => SlotInv
  BY SlotsStart
<1>2. SlotInv /\ [Next]_vars => SlotInv'
  BY SlotsNext
<1>3. SlotInv /\ [Next]_vars => [LadderInOrder]_vars
  BY StepsInOrder
<1> QED
  BY <1>1, <1>2, <1>3, PTL DEF Spec, LadderKeepsOrder
=============================================================================
