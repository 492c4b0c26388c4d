------------------------ MODULE PostAggregate_proofs ------------------------
(***************************************************************************)
(* Proofs about a post and its rows, for every set of accounts.            *)
(***************************************************************************)
EXTENDS PostAggregate, TLAPS

(* What the server locks, the aggregation calls publishing or published:   *)
(* rows all published or in flight never derive to a status the composer   *)
(* still offers to edit (status.py 41-85, views.py 175-199).               *)
LEMMA LockedIsReadonly ==
  ASSUME NEW S, S # {}, S \subseteq PROTECTED_STATUSES
  PROVE  DerivePostStatus(S) \in READONLY_STATUSES
  <1>1. \A s, t \in PROTECTED_STATUSES : WorkflowRank[s] <= WorkflowRank[t]
                                           <=> (s = "publishing" \/ t = "published")
    BY DEF PROTECTED_STATUSES, WorkflowRank, Status
  <1>2. \E s \in S : \A t \in S : WorkflowRank[s] <= WorkflowRank[t]
    <2>1. CASE "publishing" \in S
      BY <1>1, <2>1
    <2>2. CASE "publishing" \notin S
      BY <1>1, <2>2 DEF PROTECTED_STATUSES
    <2> QED BY <2>1, <2>2
  <1>3. Lowest(S) \in S
    BY <1>2 DEF Lowest
  <1> QED BY <1>3 DEF DerivePostStatus, READONLY_STATUSES, PROTECTED_STATUSES

(* Rows keep a status of the table, and a new row starts as a draft.       *)
THEOREM AggregateTypeCorrect == Spec => []TypeOK
  <1>1. Init => TypeOK
    BY DEF Init, TypeOK
  <1>2. TypeOK /\ [Next]_vars => TypeOK'
    <2> SUFFICES ASSUME TypeOK, [Next]_vars PROVE TypeOK'
      OBVIOUS
    <2>1. ASSUME NEW a \in Accounts, NEW to \in Status, Move(a, to) PROVE TypeOK'
      BY <2>1 DEF Move, TypeOK
    <2>2. ASSUME NEW scope \in Scopes, NEW selected \in SUBSET Accounts, Save(selected, scope)
          PROVE  TypeOK'
      <3>1. InitialStatus \in Status
        BY DEF InitialStatus, Status
      <3> QED BY <2>2, <3>1 DEF Save, TypeOK
    <2>3. CASE UNCHANGED vars
      BY <2>3 DEF vars, TypeOK
    <2> QED BY <2>1, <2>2, <2>3 DEF Next
  <1> QED BY <1>1, <1>2, PTL DEF Spec

(* The order of the workflow is total, so a post with rows has a lowest    *)
(* one (status.py 41-85).  The ranks name eleven statuses, each with a     *)
(* rank of its own.                                                        *)
LEMMA RanksAreApart ==
  /\ \A s \in Status : WorkflowRank[s] \in 0..11
  /\ \A s \in Status : WorkflowRank[s] = 11 <=> s = "failed"
  /\ \A s \in Status : WorkflowRank[s] = 10 <=> s = "published"
  BY DEF WorkflowRank, Status

LEMMA LowestIsLowest ==
  ASSUME NEW S, S # {}, S \subseteq Status
  PROVE  Lowest(S) \in S /\ \A t \in S : WorkflowRank[Lowest(S)] <= WorkflowRank[t]
  <1> DEFINE Ranks == {WorkflowRank[s] : s \in S}
             Low(n) == n \in Ranks /\ \A m \in Ranks : n <= m
  <1>1. Ranks # {} /\ Ranks \subseteq 0..11
    BY RanksAreApart
  <1>2. \E n \in Ranks : Low(n)
    <2> SUFFICES ASSUME \A n \in Ranks : ~Low(n) PROVE FALSE
      OBVIOUS
    <2>1. \A n \in Ranks : \E m \in Ranks : m < n
      BY <1>1
    <2> HIDE DEF Ranks
    <2>2. \A n \in Ranks : n > 2
      BY <1>1, <2>1
    <2>3. \A n \in Ranks : n > 5
      BY <1>1, <2>1, <2>2
    <2>4. \A n \in Ranks : n > 8
      BY <1>1, <2>1, <2>3
    <2>5. \A n \in Ranks : n > 11
      BY <1>1, <2>1, <2>4
    <2>6. PICK n \in Ranks : TRUE
      BY <1>1
    <2>7. n \in 0..11 /\ n > 11
      BY <1>1, <2>5, <2>6
    <2> QED BY <2>7
  <1>3. \E s \in S : \A t \in S : WorkflowRank[s] <= WorkflowRank[t]
    BY <1>2
  <1> QED BY <1>3 DEF Lowest

(* A post is published, or failed, only when every row of it is, whatever  *)
(* the number of its accounts (status.py 41-85).                           *)
THEOREM OutcomesAreUnanimous == Spec => []OutcomeIsUnanimous
  <1>1. TypeOK => OutcomeIsUnanimous
    <2> SUFFICES ASSUME TypeOK PROVE OutcomeIsUnanimous
      OBVIOUS
    <2> DEFINE S == Statuses(Present(row))
    <2>1. S \subseteq Status
      BY DEF Statuses, Present, TypeOK
    <2>2. CASE S = {}
      BY <2>2 DEF OutcomeIsUnanimous, DerivePostStatus
    <2>3. CASE S # {}
      <3>1. DerivePostStatus(S) \in {"partially_published", Lowest(S)}
        BY <2>3 DEF DerivePostStatus
      <3>2. Lowest(S) \in S /\ \A t \in S : WorkflowRank[Lowest(S)] <= WorkflowRank[t]
        BY <2>1, <2>3, LowestIsLowest
      <3>3. ASSUME DerivePostStatus(S) = "published" PROVE S = {"published"}
        <4>1. Lowest(S) = "published" /\ S # {"published", "failed"}
          BY <2>3, <3>1, <3>3 DEF DerivePostStatus
        <4>2. \A t \in S : t \in {"published", "failed"}
          <5> SUFFICES ASSUME NEW t \in S PROVE t \in {"published", "failed"}
            OBVIOUS
          <5>1. WorkflowRank[t] \in {10, 11}
            BY <2>1, <3>2, <4>1, RanksAreApart
          <5> QED BY <2>1, <5>1, RanksAreApart
        <4> QED BY <3>2, <4>1, <4>2
      <3>4. ASSUME DerivePostStatus(S) = "failed" PROVE S = {"failed"}
        <4>1. Lowest(S) = "failed"
          BY <3>1, <3>4
        <4>2. \A t \in S : t = "failed"
          <5> SUFFICES ASSUME NEW t \in S PROVE t = "failed"
            OBVIOUS
          <5>1. WorkflowRank[t] = 11
            BY <2>1, <3>2, <4>1, RanksAreApart
          <5> QED BY <2>1, <5>1, RanksAreApart
        <4> QED BY <3>2, <4>1, <4>2
      <3> QED BY <3>3, <3>4 DEF OutcomeIsUnanimous
    <2> QED BY <2>2, <2>3
  <1> QED BY AggregateTypeCorrect, <1>1, PTL

(* The composer never offers an edit the server would refuse, whatever the *)
(* number of accounts and the scope (views.py 186-199).                    *)
THEOREM UIAlwaysStricter == Spec => []UIStricterThanServer
  <1>1. UIStricterThanServer
    <2> SUFFICES ASSUME NEW scope \in Scopes, ChildrenAreLocked(GatedChildren(scope))
                 PROVE  ChildrenAreReadonly(GatedChildren(scope))
      BY DEF UIStricterThanServer
    <2> DEFINE A == GatedChildren(scope)
    <2>1. Statuses(A) # {} /\ Statuses(A) \subseteq PROTECTED_STATUSES
      BY DEF ChildrenAreLocked, Statuses
    <2> QED BY <2>1, LockedIsReadonly DEF ChildrenAreReadonly
  <1> QED BY <1>1, PTL

(* No save removes a published or in-flight row (views.py 120-133).        *)
THEOREM HistoryKept == Spec => HistoryIsNeverDeselected
  <1>1. TypeOK /\ [Next]_vars =>
          [\A a \in Accounts : row[a] \in PROTECTED_STATUSES => row'[a] # "absent"]_vars
    <2> SUFFICES ASSUME TypeOK, Next, NEW a \in Accounts, row[a] \in PROTECTED_STATUSES
                 PROVE  row'[a] # "absent"
      OBVIOUS
    <2>1. "absent" \notin PROTECTED_STATUSES /\ "absent" \notin Status
      BY DEF PROTECTED_STATUSES, Status
    <2>2. ASSUME NEW b \in Accounts, NEW to \in Status, Move(b, to) PROVE row'[a] # "absent"
      BY <2>1, <2>2 DEF Move, TypeOK
    <2>3. ASSUME NEW scope \in Scopes, NEW selected \in SUBSET Accounts, Save(selected, scope)
          PROVE  row'[a] # "absent"
      BY <2>1, <2>3 DEF Save, Removed, TypeOK
    <2> QED BY <2>2, <2>3 DEF Next
  <1> QED BY AggregateTypeCorrect, <1>1, PTL DEF Spec, HistoryIsNeverDeselected

(* A post whose rows are all published or in flight gains no row: a save   *)
(* that names an account the post does not have weighs the whole post      *)
(* (_gated_children, views.py 143-172).                                    *)
THEOREM ClosedStaysClosed == Spec => ClosedPostStaysClosed
  <1>1. TypeOK /\ [Next]_vars =>
          [(Present(row) # {} /\ Statuses(Present(row)) \subseteq PROTECTED_STATUSES)
             => \A a \in Accounts : row[a] = "absent" => row'[a] = "absent"]_vars
    <2> SUFFICES ASSUME TypeOK, Next, Present(row) # {},
                        Statuses(Present(row)) \subseteq PROTECTED_STATUSES,
                        NEW a \in Accounts, row[a] = "absent"
                 PROVE  row'[a] = "absent"
      OBVIOUS
    <2>1. ASSUME NEW b \in Accounts, NEW to \in Status, Move(b, to) PROVE row'[a] = "absent"
      BY <2>1 DEF Move, TypeOK
    <2>2. \A scope \in Scopes : ChildrenAreLocked(GatedChildren(scope))
      <3> SUFFICES ASSUME NEW scope \in Scopes PROVE ChildrenAreLocked(GatedChildren(scope))
        OBVIOUS
      <3>1. GatedChildren(scope) # {} /\ GatedChildren(scope) \subseteq Present(row)
        BY DEF GatedChildren, MatchScope
      <3>2. Statuses(GatedChildren(scope)) \subseteq Statuses(Present(row))
        BY <3>1 DEF Statuses
      <3> QED BY <3>1, <3>2 DEF ChildrenAreLocked
    <2>3. ASSUME NEW scope \in Scopes, NEW selected \in SUBSET Accounts, Save(selected, scope)
          PROVE  row'[a] = "absent"
      BY <2>2, <2>3 DEF Save
    <2> QED BY <2>1, <2>3 DEF Next
  <1> QED BY AggregateTypeCorrect, <1>1, PTL DEF Spec, ClosedPostStaysClosed
=============================================================================
