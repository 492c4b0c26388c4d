-------------------------- MODULE Delivery_proofs --------------------------
(***************************************************************************)
(* Notifications are typed, mailed a bounded number of times and by one    *)
(* sweep at a time: for every set of deliveries and sweeps, every retry    *)
(* limit and claim timeout, and any number of kills.                       *)
(***************************************************************************)
EXTENDS Delivery, FiniteSetTheorems, TLAPS


\* A queued row is never sent alone, and no sweep holds any other.
KindsApart ==
  \A d \in Deliveries :
    /\ rows[d].queued => sender[d] = NotSending /\ rows[d].backoff = "none"
    /\ ~rows[d].queued => \A s \in Sweeps : d \notin held[s]

\* Before it is sent, nothing has been done with a row.
Untouched ==
  \A d \in Deliveries :
    rows[d].status = "none" =>
      rows[d].attempts = 0 /\ ~rows[d].queued /\ sender[d] = NotSending

\* The sending thread knows how often its row was charged.
SenderKnows ==
  \A d \in Deliveries :
    /\ sender[d].pc # "none" => sender[d].attempts = rows[d].attempts
    /\ sender[d].pc = "charge" => rows[d].attempts < MAX_RETRY_ATTEMPTS
    /\ ~rows[d].queued => rows[d].attempts <= MAX_RETRY_ATTEMPTS

\* A run of the sweep has claimed nothing before its claim.
NotYetClaimed ==
  \A s \in Sweeps, d \in Deliveries :
    pc[s] \in {"reap", "retire", "choose", "claim"} => rows[d].claim # s

\* A row a sweep works on carries its claim, unless it was too slow.
Owned ==
  \A s \in Sweeps, d \in Deliveries \ overrun :
    (d \in held[s] /\ pc[s] \in {"resolve", "send", "delivered", "declined", "failed"}
       /\ rows[d].status = "pending") => rows[d].claim = s

\* Sweeps that have chosen the row and may still charge it.
Choosers(d) == {s \in Sweeps : pc[s] = "claim" /\ d \in held[s]}

AttemptsBounded ==
  \A d \in Deliveries :
    rows[d].queued =>
      rows[d].attempts + Cardinality(Choosers(d)) <= MAX_RETRY_ATTEMPTS + Cardinality(Sweeps) - 1

\* Sweeps that have charged the row and may still mail it.
Payers(d) ==
  {s \in Sweeps : /\ d \in held[s]
                  /\ pc[s] \in {"resolve", "send"} \/ (pc[s] = "reread" /\ rows[d].claim = s)}

CopiesCharged ==
  \A d \in Deliveries :
    copies[d] + Cardinality(Payers(d)) + (IF sender[d].pc = "send" THEN 1 ELSE 0)
      <= rows[d].attempts

IInv ==
  /\ TypeOK
  /\ KindsApart
  /\ Untouched
  /\ SenderKnows
  /\ NotYetClaimed
  /\ Owned
  /\ AttemptsBounded
  /\ CopiesCharged

-----------------------------------------------------------------------------
(* Counting sweeps. *)
LEMMA FewerSweeps ==
  ASSUME NEW A \in SUBSET Sweeps, NEW B \in SUBSET A
  PROVE  /\ Cardinality(A) \in Nat /\ Cardinality(B) \in Nat
         /\ Cardinality(B) <= Cardinality(A)
<1>1. IsFiniteSet(A)
  BY FS_Subset, DeliveryAssumption
<1> QED
  BY <1>1, FS_Subset, FS_CardinalityType

LEMMA OneSweepLess ==
  ASSUME NEW A \in SUBSET Sweeps, NEW s \in A
  PROVE  Cardinality(A \ {s}) = Cardinality(A) - 1
<1>1. IsFiniteSet(A)
  BY FS_Subset, DeliveryAssumption
<1> QED
  BY <1>1, FS_RemoveElement

LEMMA OneSweepMore ==
  ASSUME NEW A \in SUBSET Sweeps, NEW s \in Sweeps
  PROVE  Cardinality(A \cup {s}) <= Cardinality(A) + 1
<1>1. IsFiniteSet(A)
  BY FS_Subset, DeliveryAssumption
<1>2. Cardinality(A) \in Nat
  BY <1>1, FS_CardinalityType
<1> DEFINE n == Cardinality(A \cup {s})
           m == Cardinality(A)
<1>3. n = IF s \in A THEN m ELSE m + 1
  BY <1>1, FS_AddElement
<1> HIDE DEF n, m
<1>4. n <= m + 1
  BY <1>2, <1>3, SMT DEF m
<1> QED
  BY <1>4 DEF n, m

-----------------------------------------------------------------------------
(* What the digest sweep's UPDATEs make of a row. *)
LEMMA FailedRow ==
  ASSUME NEW row \in Row
  PROVE  /\ Fail(row) \in Row
         /\ Fail(row).status = "failed" /\ Fail(row).claim = NoSweep
         /\ Fail(row).queued = row.queued /\ Fail(row).attempts = row.attempts
         /\ Fail(row).backoff = row.backoff
<1>1. "failed" \in {"none", "pending", "delivered", "failed"} /\ NoSweep \in Sweeps \cup {NoSweep}
  OBVIOUS
<1>2. Fail(row) \in Row
  BY <1>1, Zenon DEF Fail, Release, Row
<1>3. /\ Fail(row).status = "failed" /\ Fail(row).claim = NoSweep
      /\ Fail(row).queued = row.queued /\ Fail(row).attempts = row.attempts
      /\ Fail(row).backoff = row.backoff
  BY SMT DEF Fail, Release
<1> QED
  BY <1>2, <1>3

LEMMA ClaimedRow ==
  ASSUME NEW row \in Row, NEW s \in Sweeps
  PROVE  /\ ClaimedBy(s, row) \in Row
         /\ ClaimedBy(s, row).status = row.status /\ ClaimedBy(s, row).claim = s
         /\ ClaimedBy(s, row).queued = row.queued
         /\ ClaimedBy(s, row).attempts = row.attempts + 1
         /\ ClaimedBy(s, row).backoff = row.backoff
<1>1. row.attempts + 1 \in Nat /\ s \in Sweeps \cup {NoSweep}
  BY SMT DEF Row
<1>2. ClaimedBy(s, row) \in Row
  BY <1>1, Zenon DEF ClaimedBy, Row
<1>3. /\ ClaimedBy(s, row).status = row.status /\ ClaimedBy(s, row).claim = s
      /\ ClaimedBy(s, row).queued = row.queued
      /\ ClaimedBy(s, row).attempts = row.attempts + 1
      /\ ClaimedBy(s, row).backoff = row.backoff
  BY SMT DEF ClaimedBy
<1> QED
  BY <1>2, <1>3

(* What the sending thread's outcome makes of it. *)
LEMMA OutcomeRow ==
  ASSUME TypeOK, NEW d \in Deliveries
  PROVE  /\ Outcome(d) \in Row
         /\ Outcome(d).status \in {"delivered", "failed", "pending"}
         /\ Outcome(d).claim = rows[d].claim /\ Outcome(d).queued = rows[d].queued
         /\ Outcome(d).attempts = rows[d].attempts
<1>1. ASSUME NEW row \in Row, row = rows[d]
      PROVE  /\ Outcome(d) \in Row
             /\ Outcome(d).status \in {"delivered", "failed", "pending"}
             /\ Outcome(d).claim = row.claim /\ Outcome(d).queued = row.queued
             /\ Outcome(d).attempts = row.attempts
  <2>1. \/ Outcome(d) = [row EXCEPT !.status = "delivered"]
        \/ Outcome(d) = [row EXCEPT !.status = "failed"]
        \/ Outcome(d) = [row EXCEPT !.status = "pending", !.backoff = "waiting"]
    BY <1>1, SMT DEF Outcome
  <2>2. CASE Outcome(d) = [row EXCEPT !.status = "delivered"]
    BY <2>2, SMT DEF Row
  <2>3. CASE Outcome(d) = [row EXCEPT !.status = "failed"]
    BY <2>3, SMT DEF Row
  <2>4. CASE Outcome(d) = [row EXCEPT !.status = "pending", !.backoff = "waiting"]
    <3>1. /\ "pending" \in {"none", "pending", "delivered", "failed"}
          /\ "waiting" \in {"none", "waiting", "over"}
      OBVIOUS
    <3>2. Outcome(d) \in Row
      BY <2>4, <3>1, Zenon DEF Row
    <3>3. /\ Outcome(d).status = "pending" /\ Outcome(d).claim = row.claim
          /\ Outcome(d).queued = row.queued /\ Outcome(d).attempts = row.attempts
      BY <2>4, SMT DEF Row
    <3> QED
      BY <3>2, <3>3
  <2> QED
    BY <2>1, <2>2, <2>3, <2>4
<1> QED
  BY <1>1 DEF TypeOK

-----------------------------------------------------------------------------
(* A step that charges nothing and gives no sweep a row to charge keeps the
   bound on the attempts. *)
LEMMA KeepsAttempts ==
  ASSUME IInv,
         \A d \in Deliveries : rows'[d].queued = rows[d].queued,
         \A d \in Deliveries : rows'[d].attempts = rows[d].attempts,
         \A s \in Sweeps, d \in Deliveries :
           (pc'[s] = "claim" /\ d \in held'[s]) => (pc[s] = "claim" /\ d \in held[s])
  PROVE  AttemptsBounded'
<1> SUFFICES ASSUME NEW d \in Deliveries, rows[d].queued
             PROVE  rows[d].attempts + Cardinality(Choosers(d)')
                      <= MAX_RETRY_ATTEMPTS + Cardinality(Sweeps) - 1
    BY DEF AttemptsBounded
<1>1. Choosers(d) \in SUBSET Sweeps /\ Choosers(d)' \in SUBSET Choosers(d)
  BY DEF Choosers
<1>2. /\ Cardinality(Choosers(d)) \in Nat /\ Cardinality(Choosers(d)') \in Nat
      /\ Cardinality(Choosers(d)') <= Cardinality(Choosers(d))
  BY <1>1, FewerSweeps
<1>3. Cardinality(Sweeps) \in Nat /\ rows[d].attempts \in Nat
  BY FewerSweeps, SMT DEF IInv, TypeOK, Row
<1>4. rows[d].attempts + Cardinality(Choosers(d)) <= MAX_RETRY_ATTEMPTS + Cardinality(Sweeps) - 1
  BY DEF IInv, AttemptsBounded
<1> QED
  BY <1>2, <1>3, <1>4, DeliveryAssumption, SMT

(* A step that mails nothing and gives no row a further payer keeps every
   copy charged. *)
LEMMA KeepsCopies ==
  ASSUME IInv,
         \A d \in Deliveries : rows'[d].attempts = rows[d].attempts,
         copies' = copies,
         \A d \in Deliveries : sender'[d].pc = "send" => sender[d].pc = "send",
         \A d \in Deliveries : Payers(d)' \subseteq Payers(d)
  PROVE  CopiesCharged'
<1> SUFFICES ASSUME NEW d \in Deliveries
             PROVE  copies[d] + Cardinality(Payers(d)')
                      + (IF sender'[d].pc = "send" THEN 1 ELSE 0) <= rows[d].attempts
    BY DEF CopiesCharged
<1>1. Payers(d) \in SUBSET Sweeps /\ Payers(d)' \in SUBSET Payers(d)
  BY DEF Payers
<1>2. /\ Cardinality(Payers(d)) \in Nat /\ Cardinality(Payers(d)') \in Nat
      /\ Cardinality(Payers(d)') <= Cardinality(Payers(d))
  BY <1>1, FewerSweeps
<1>3. copies[d] \in Nat /\ rows[d].attempts \in Nat
  BY SMT DEF IInv, TypeOK, Row
<1>4. copies[d] + Cardinality(Payers(d)) + (IF sender[d].pc = "send" THEN 1 ELSE 0)
        <= rows[d].attempts
  BY DEF IInv, CopiesCharged
<1> QED
  BY <1>2, <1>3, <1>4, SMT

-----------------------------------------------------------------------------
(* Nothing is sent at the start. *)
LEMMA InitIInv == Init => IInv
<1> SUFFICES ASSUME Init PROVE IInv
    OBVIOUS
<1> USE DeliveryAssumption
<1>1. TypeOK
  BY SMT DEF Init, TypeOK, Row, NoRow, Sender, NotSending, SweepPc, AgeCap
<1>2. KindsApart /\ Untouched /\ SenderKnows /\ NotYetClaimed /\ Owned
  BY SMT DEF Init, NoRow, NotSending, KindsApart, Untouched, SenderKnows, NotYetClaimed, Owned
<1>3. AttemptsBounded
  BY SMT DEF Init, NoRow, AttemptsBounded
<1>4. CopiesCharged
  <2> SUFFICES ASSUME NEW d \in Deliveries PROVE Cardinality(Payers(d)) = 0
      BY SMT DEF Init, CopiesCharged, NoRow, NotSending
  <2>1. Payers(d) = {}
    BY DEF Init, Payers
  <2> QED
    BY <2>1, FS_EmptySet
<1> QED
  BY <1>1, <1>2, <1>3, <1>4 DEF IInv


(* A new delivery is sent at once or queued. *)
LEMMA StepNotify ==
  ASSUME IInv, NEW d \in Deliveries, NEW batched \in BOOLEAN, Notify(d, batched)
  PROVE  IInv'
<1> USE DeliveryAssumption
<1>1. TypeOK'
  <2>1. "pending" \in {"none", "pending", "delivered", "failed"} /\ rows[d] \in Row
    BY SMT DEF IInv, TypeOK
  <2>2. [rows[d] EXCEPT !.status = "pending", !.queued = batched] \in Row
    BY <2>1, Zenon DEF Row
  <2>3. rows' = [rows EXCEPT ![d] = [rows[d] EXCEPT !.status = "pending", !.queued = batched]]
    BY Zenon DEF Notify
  <2>4. rows' \in [Deliveries -> Row]
    BY <2>2, <2>3, SMT DEF IInv, TypeOK
  <2>5. sender' \in [Deliveries -> Sender]
    BY <2>1, SMT DEF Notify, IInv, TypeOK, Sender
  <2> QED
    BY <2>4, <2>5 DEF Notify, IInv, TypeOK
<1>2. KindsApart' /\ Untouched'
  <2>1. KindsApart'
    BY SMT DEF Notify, IInv, TypeOK, KindsApart, Row
  <2>2. Untouched'
    BY SMT DEF Notify, IInv, TypeOK, Untouched
  <2> QED
    BY <2>1, <2>2
<1>3. SenderKnows'
  BY SMT DEF Notify, IInv, TypeOK, Untouched, SenderKnows, NotSending
<1>4. NotYetClaimed'
  BY SMT DEF Notify, IInv, TypeOK, NotYetClaimed
<1>5. Owned'
  BY SMT DEF Notify, IInv, TypeOK, KindsApart, Untouched, Owned
<1>6. AttemptsBounded'
  <2> SUFFICES ASSUME NEW e \in Deliveries, rows'[e].queued
               PROVE  rows'[e].attempts + Cardinality(Choosers(e))
                        <= MAX_RETRY_ATTEMPTS + Cardinality(Sweeps) - 1
      BY DEF Notify, AttemptsBounded, Choosers
  <2>1. CASE e = d
    <3>1. Choosers(e) = {} /\ rows'[e].attempts = 0
      BY <2>1, SMT DEF Notify, Choosers, IInv, TypeOK, KindsApart, Untouched
    <3>2. Cardinality(Sweeps) \in Nat
      BY FewerSweeps
    <3> QED
      BY <3>1, <3>2, FS_EmptySet, SMT
  <2>2. CASE e # d
    BY <2>2, SMT DEF Notify, IInv, TypeOK, AttemptsBounded
  <2> QED
    BY <2>1, <2>2
<1>7. CopiesCharged'
  <2>1. \A e \in Deliveries : rows'[e].attempts = rows[e].attempts
    BY SMT DEF Notify, IInv, TypeOK
  <2>2. copies' = copies /\ \A e \in Deliveries : sender'[e].pc = "send" => sender[e].pc = "send"
    BY SMT DEF Notify
  <2>3. \A e \in Deliveries : Payers(e)' \subseteq Payers(e)
    BY SMT DEF Notify, Payers, IInv, TypeOK
  <2> QED
    BY <2>1, <2>2, <2>3, KeepsCopies
<1> QED
  BY <1>1, <1>2, <1>3, <1>4, <1>5, <1>6, <1>7 DEF IInv

LEMMA StepRetry ==
  ASSUME IInv, NEW d \in Deliveries, Retry(d)
  PROVE  IInv'
<1> USE DeliveryAssumption
<1>1. TypeOK'
  BY SMT DEF Retry, IInv, TypeOK, Row, Sender
<1>2. KindsApart' /\ Untouched'
  <2>1. KindsApart'
    BY SMT DEF Retry, IInv, KindsApart
  <2>2. Untouched'
    BY SMT DEF Retry, IInv, Untouched
  <2> QED
    BY <2>1, <2>2
<1>3. SenderKnows'
  BY SMT DEF Retry, IInv, SenderKnows
<1>4. NotYetClaimed'
  BY SMT DEF Retry, IInv, NotYetClaimed
<1>5. Owned'
  BY SMT DEF Retry, IInv, Owned
<1>6. AttemptsBounded'
  <2>1. \A e \in Deliveries : rows'[e].queued = rows[e].queued /\ rows'[e].attempts = rows[e].attempts
    BY SMT DEF Retry
  <2>2. \A c \in Sweeps, e \in Deliveries :
          (pc'[c] = "claim" /\ e \in held'[c]) => (pc[c] = "claim" /\ e \in held[c])
    BY SMT DEF Retry
  <2> QED
    BY <2>1, <2>2, KeepsAttempts
<1>7. CopiesCharged'
  <2>1. \A e \in Deliveries : rows'[e].attempts = rows[e].attempts
    BY SMT DEF Retry
  <2>2. copies' = copies /\ \A e \in Deliveries : sender'[e].pc = "send" => sender[e].pc = "send"
    BY SMT DEF Retry
  <2>3. \A e \in Deliveries : Payers(e)' \subseteq Payers(e)
    BY SMT DEF Retry, Payers
  <2> QED
    BY <2>1, <2>2, <2>3, KeepsCopies
<1> QED
  BY <1>1, <1>2, <1>3, <1>4, <1>5, <1>6, <1>7 DEF IInv

(* The attempt is charged before the message leaves. *)
LEMMA StepCharge ==
  ASSUME IInv, NEW d \in Deliveries, Charge(d)
  PROVE  IInv'
<1> USE DeliveryAssumption
<1>1. TypeOK'
  <2>1. Charged(d) \in Nat /\ rows[d] \in Row
    BY SMT DEF IInv, TypeOK, Sender, Charged
  <2>2. [rows[d] EXCEPT !.attempts = Charged(d)] \in Row
    BY <2>1, Zenon DEF Row
  <2>3. rows' = [rows EXCEPT ![d] = [rows[d] EXCEPT !.attempts = Charged(d)]]
    BY SMT DEF Charge
  <2>4. rows' \in [Deliveries -> Row]
    BY <2>2, <2>3, SMT DEF IInv, TypeOK
  <2>5. sender' \in [Deliveries -> Sender]
    BY <2>1, SMT DEF Charge, IInv, TypeOK, Sender
  <2> QED
    BY <2>4, <2>5 DEF Charge, IInv, TypeOK
<1>2. KindsApart' /\ Untouched'
  <2>1. KindsApart'
    BY SMT DEF Charge, IInv, KindsApart, NotSending
  <2>2. Untouched'
    BY SMT DEF Charge, IInv, Untouched, NotSending
  <2> QED
    BY <2>1, <2>2
<1>3. SenderKnows'
  BY SMT DEF Charge, Charged, IInv, TypeOK, SenderKnows, Sender
<1>4. NotYetClaimed'
  BY SMT DEF Charge, IInv, NotYetClaimed
<1>5. Owned'
  BY SMT DEF Charge, IInv, Owned
<1>6. AttemptsBounded'
  BY SMT DEF Charge, AttemptsBounded, Choosers, IInv, KindsApart, NotSending
<1>7. CopiesCharged'
  <2> SUFFICES ASSUME NEW e \in Deliveries
               PROVE  copies'[e] + Cardinality(Payers(e)')
                        + (IF sender'[e].pc = "send" THEN 1 ELSE 0) <= rows'[e].attempts
      BY DEF CopiesCharged
  <2>1. Payers(e) \in SUBSET Sweeps /\ Payers(e)' = Payers(e)
    BY SMT DEF Charge, Payers
  <2>2. Cardinality(Payers(e)) \in Nat
    BY <2>1, FewerSweeps
  <2>3. copies[e] \in Nat /\ rows[e].attempts \in Nat
    BY SMT DEF IInv, TypeOK, Row
  <2>4. copies[e] + Cardinality(Payers(e)) + (IF sender[e].pc = "send" THEN 1 ELSE 0)
          <= rows[e].attempts
    BY DEF IInv, CopiesCharged
  <2> QED
    BY <2>1, <2>2, <2>3, <2>4, SMT DEF Charge, Charged, IInv, TypeOK, SenderKnows
<1> QED
  BY <1>1, <1>2, <1>3, <1>4, <1>5, <1>6, <1>7 DEF IInv

(* The message spends its charge. *)
LEMMA StepSend ==
  ASSUME IInv, NEW d \in Deliveries, Send(d)
  PROVE  IInv'
<1> USE DeliveryAssumption
<1>1. TypeOK'
  <2>1. copies' \in [Deliveries -> Nat]
    BY SMT DEF Send, Mailed, IInv, TypeOK
  <2>2. sender' \in [Deliveries -> Sender]
    <3>1. PICK out \in {"delivered", "declined", "failed"} : sender' = [sender EXCEPT ![d].pc = out]
      BY Zenon DEF Send
    <3>2. [sender[d] EXCEPT !.pc = out] \in Sender
      BY SMT DEF IInv, TypeOK, Sender
    <3> QED
      BY <3>1, <3>2, SMT DEF IInv, TypeOK
  <2> QED
    BY <2>1, <2>2 DEF Send, IInv, TypeOK
<1>2. KindsApart' /\ Untouched'
  <2>1. KindsApart'
    BY SMT DEF Send, IInv, TypeOK, KindsApart, NotSending
  <2>2. Untouched'
    BY SMT DEF Send, IInv, TypeOK, Untouched, NotSending
  <2> QED
    BY <2>1, <2>2
<1>3. SenderKnows'
  BY SMT DEF Send, Mailed, IInv, TypeOK, Untouched, SenderKnows, Sender
<1>4. NotYetClaimed'
  BY SMT DEF Send, IInv, NotYetClaimed
<1>5. Owned'
  BY SMT DEF Send, IInv, Owned
<1>6. AttemptsBounded'
  <2>1. \A e \in Deliveries : rows'[e].queued = rows[e].queued /\ rows'[e].attempts = rows[e].attempts
    BY SMT DEF Send
  <2>2. \A c \in Sweeps, e \in Deliveries :
          (pc'[c] = "claim" /\ e \in held'[c]) => (pc[c] = "claim" /\ e \in held[c])
    BY SMT DEF Send
  <2> QED
    BY <2>1, <2>2, KeepsAttempts
<1>7. CopiesCharged'
  <2> SUFFICES ASSUME NEW e \in Deliveries
               PROVE  copies'[e] + Cardinality(Payers(e)')
                        + (IF sender'[e].pc = "send" THEN 1 ELSE 0) <= rows'[e].attempts
      BY DEF CopiesCharged
  <2>1. Payers(e) \in SUBSET Sweeps /\ Payers(e)' = Payers(e)
    BY SMT DEF Send, Payers
  <2>2. Cardinality(Payers(e)) \in Nat
    BY <2>1, FewerSweeps
  <2>3. copies[e] \in Nat /\ rows[e].attempts \in Nat
    BY SMT DEF IInv, TypeOK, Row
  <2>4. copies[e] + Cardinality(Payers(e)) + (IF sender[e].pc = "send" THEN 1 ELSE 0)
          <= rows[e].attempts
    BY DEF IInv, CopiesCharged
  <2> QED
    BY <2>1, <2>2, <2>3, <2>4, SMT DEF Send, Mailed, IInv, TypeOK, Sender
<1> QED
  BY <1>1, <1>2, <1>3, <1>4, <1>5, <1>6, <1>7 DEF IInv

LEMMA StepRecord ==
  ASSUME IInv, NEW d \in Deliveries, Record(d)
  PROVE  IInv'
<1> USE DeliveryAssumption
<1>1. TypeOK'
  BY OutcomeRow, SMT DEF Record, IInv, TypeOK, Sender, NotSending
<1>2. KindsApart' /\ Untouched'
  <2>1. KindsApart'
    BY OutcomeRow, SMT DEF Record, IInv, KindsApart, NotSending
  <2>2. Untouched'
    BY OutcomeRow, SMT DEF Record, IInv, Untouched
  <2> QED
    BY <2>1, <2>2
<1>3. SenderKnows'
  BY OutcomeRow, SMT DEF Record, IInv, SenderKnows, NotSending
<1>4. NotYetClaimed'
  <2>1. \A e \in Deliveries : rows'[e].claim = rows[e].claim
    BY OutcomeRow, SMT DEF Record, IInv
  <2>2. pc' = pc
    BY DEF Record
  <2> QED
    BY <2>1, <2>2 DEF IInv, NotYetClaimed
<1>5. Owned'
  <2>1. sender[d] # NotSending /\ ~rows[d].queued
    BY SMT DEF Record, IInv, KindsApart, NotSending
  <2>2. \A c \in Sweeps : d \notin held[c]
    BY <2>1 DEF IInv, KindsApart
  <2>3. \A e \in Deliveries : e # d => rows'[e] = rows[e]
    BY SMT DEF Record
  <2>4. held' = held /\ pc' = pc /\ overrun' = overrun
    BY DEF Record
  <2> QED
    BY <2>2, <2>3, <2>4, Zenon DEF IInv, Owned
<1>6. AttemptsBounded'
  <2>1. \A e \in Deliveries : rows'[e].queued = rows[e].queued /\ rows'[e].attempts = rows[e].attempts
    BY OutcomeRow, SMT DEF Record, IInv
  <2>2. \A c \in Sweeps, e \in Deliveries :
          (pc'[c] = "claim" /\ e \in held'[c]) => (pc[c] = "claim" /\ e \in held[c])
    BY OutcomeRow, SMT DEF Record
  <2> QED
    BY <2>1, <2>2, KeepsAttempts
<1>7. CopiesCharged'
  <2>1. \A e \in Deliveries : rows'[e].attempts = rows[e].attempts
    BY OutcomeRow, SMT DEF Record, IInv
  <2>2. copies' = copies /\ \A e \in Deliveries : sender'[e].pc = "send" => sender[e].pc = "send"
    BY OutcomeRow, SMT DEF Record, NotSending
  <2>3. \A e \in Deliveries : Payers(e)' \subseteq Payers(e)
    BY OutcomeRow, SMT DEF Record, Payers, IInv
  <2> QED
    BY <2>1, <2>2, <2>3, KeepsCopies
<1> QED
  BY <1>1, <1>2, <1>3, <1>4, <1>5, <1>6, <1>7 DEF IInv

LEMMA StepStartSweep ==
  ASSUME IInv, NEW s \in Sweeps, StartSweep(s)
  PROVE  IInv'
<1> USE DeliveryAssumption
<1>1. TypeOK'
  BY SMT DEF StartSweep, Goto, IInv, TypeOK, SweepPc, AgeCap
<1>2. KindsApart' /\ Untouched'
  <2>1. KindsApart'
    BY SMT DEF StartSweep, IInv, KindsApart
  <2>2. Untouched'
    BY SMT DEF StartSweep, IInv, Untouched
  <2> QED
    BY <2>1, <2>2
<1>3. SenderKnows'
  BY SMT DEF StartSweep, IInv, SenderKnows
<1>4. NotYetClaimed'
  BY SMT DEF StartSweep, Goto, IInv, NotYetClaimed
<1>5. Owned'
  BY SMT DEF StartSweep, Goto, IInv, Owned
<1>6. AttemptsBounded'
  <2>1. \A e \in Deliveries : rows'[e].queued = rows[e].queued /\ rows'[e].attempts = rows[e].attempts
    BY SMT DEF StartSweep
  <2>2. \A c \in Sweeps, e \in Deliveries :
          (pc'[c] = "claim" /\ e \in held'[c]) => (pc[c] = "claim" /\ e \in held[c])
    BY SMT DEF StartSweep, Goto
  <2> QED
    BY <2>1, <2>2, KeepsAttempts
<1>7. CopiesCharged'
  <2>1. \A e \in Deliveries : rows'[e].attempts = rows[e].attempts
    BY SMT DEF StartSweep
  <2>2. copies' = copies /\ \A e \in Deliveries : sender'[e].pc = "send" => sender[e].pc = "send"
    BY SMT DEF StartSweep
  <2>3. \A e \in Deliveries : Payers(e)' \subseteq Payers(e)
    BY SMT DEF StartSweep, Goto, Payers
  <2> QED
    BY <2>1, <2>2, <2>3, KeepsCopies
<1> QED
  BY <1>1, <1>2, <1>3, <1>4, <1>5, <1>6, <1>7 DEF IInv

LEMMA StepReapExhaustedBatches ==
  ASSUME IInv, NEW s \in Sweeps, ReapExhaustedBatches(s)
  PROVE  IInv'
<1> USE DeliveryAssumption
<1>1. TypeOK'
  BY FailedRow, SMT DEF ReapExhaustedBatches, UpdateRows, Goto, IInv, TypeOK, SweepPc
<1>2. KindsApart' /\ Untouched'
  <2>1. KindsApart'
    BY FailedRow, SMT DEF ReapExhaustedBatches, UpdateRows, IInv, TypeOK, KindsApart, Sender, NotSending
  <2>2. Untouched'
    BY FailedRow, SMT DEF ReapExhaustedBatches, UpdateRows, IInv, TypeOK, Untouched, Sender, NotSending
  <2> QED
    BY <2>1, <2>2
<1>3. SenderKnows'
  BY FailedRow, SMT DEF ReapExhaustedBatches, UpdateRows, IInv, TypeOK, SenderKnows, Sender, NotSending
<1>4. NotYetClaimed'
  BY FailedRow, SMT DEF ReapExhaustedBatches, UpdateRows, Goto, IInv, TypeOK, NotYetClaimed
<1>5. Owned'
  BY FailedRow, SMT DEF ReapExhaustedBatches, UpdateRows, Goto, IInv, TypeOK, Owned
<1>6. AttemptsBounded'
  <2>1. \A e \in Deliveries : rows'[e].queued = rows[e].queued /\ rows'[e].attempts = rows[e].attempts
    BY FailedRow, SMT DEF ReapExhaustedBatches, UpdateRows, IInv, TypeOK
  <2>2. \A c \in Sweeps, e \in Deliveries :
          (pc'[c] = "claim" /\ e \in held'[c]) => (pc[c] = "claim" /\ e \in held[c])
    BY FailedRow, SMT DEF ReapExhaustedBatches, Goto
  <2> QED
    BY <2>1, <2>2, KeepsAttempts
<1>7. CopiesCharged'
  <2>1. \A e \in Deliveries : rows'[e].attempts = rows[e].attempts
    BY FailedRow, SMT DEF ReapExhaustedBatches, UpdateRows, IInv, TypeOK
  <2>2. copies' = copies /\ \A e \in Deliveries : sender'[e].pc = "send" => sender[e].pc = "send"
    BY FailedRow, SMT DEF ReapExhaustedBatches
  <2>3. \A e \in Deliveries : Payers(e)' \subseteq Payers(e)
    BY FailedRow, SMT DEF ReapExhaustedBatches, UpdateRows, Goto, Payers, IInv, TypeOK, Row
  <2> QED
    BY <2>1, <2>2, <2>3, KeepsCopies
<1> QED
  BY <1>1, <1>2, <1>3, <1>4, <1>5, <1>6, <1>7 DEF IInv

LEMMA StepReapDeactivatedRecipients ==
  ASSUME IInv, NEW s \in Sweeps, ReapDeactivatedRecipients(s)
  PROVE  IInv'
<1> USE DeliveryAssumption
<1>1. TypeOK'
  BY FailedRow, SMT DEF ReapDeactivatedRecipients, UpdateRows, Goto, IInv, TypeOK, SweepPc
<1>2. KindsApart' /\ Untouched'
  <2>1. KindsApart'
    BY FailedRow, SMT DEF ReapDeactivatedRecipients, UpdateRows, IInv, TypeOK, KindsApart, NotSending
  <2>2. Untouched'
    BY FailedRow, SMT DEF ReapDeactivatedRecipients, UpdateRows, IInv, TypeOK, Untouched, NotSending
  <2> QED
    BY <2>1, <2>2
<1>3. SenderKnows'
  BY FailedRow, SMT DEF ReapDeactivatedRecipients, UpdateRows, IInv, TypeOK, SenderKnows, NotSending
<1>4. NotYetClaimed'
  BY FailedRow, SMT DEF ReapDeactivatedRecipients, UpdateRows, Goto, IInv, TypeOK, NotYetClaimed
<1>5. Owned'
  BY FailedRow, SMT DEF ReapDeactivatedRecipients, UpdateRows, Goto, IInv, TypeOK, Owned
<1>6. AttemptsBounded'
  <2>1. \A e \in Deliveries : rows'[e].queued = rows[e].queued /\ rows'[e].attempts = rows[e].attempts
    BY FailedRow, SMT DEF ReapDeactivatedRecipients, UpdateRows, IInv, TypeOK
  <2>2. \A c \in Sweeps, e \in Deliveries :
          (pc'[c] = "claim" /\ e \in held'[c]) => (pc[c] = "claim" /\ e \in held[c])
    BY FailedRow, SMT DEF ReapDeactivatedRecipients, Goto
  <2> QED
    BY <2>1, <2>2, KeepsAttempts
<1>7. CopiesCharged'
  <2>1. \A e \in Deliveries : rows'[e].attempts = rows[e].attempts
    BY FailedRow, SMT DEF ReapDeactivatedRecipients, UpdateRows, IInv, TypeOK
  <2>2. copies' = copies /\ \A e \in Deliveries : sender'[e].pc = "send" => sender[e].pc = "send"
    BY FailedRow, SMT DEF ReapDeactivatedRecipients
  <2>3. \A e \in Deliveries : Payers(e)' \subseteq Payers(e)
    BY FailedRow, SMT DEF ReapDeactivatedRecipients, UpdateRows, Goto, Payers, IInv, TypeOK
  <2> QED
    BY <2>1, <2>2, <2>3, KeepsCopies
<1> QED
  BY <1>1, <1>2, <1>3, <1>4, <1>5, <1>6, <1>7 DEF IInv

(* The rows a sweep chooses have an attempt left. *)
LEMMA StepChoose ==
  ASSUME IInv, NEW s \in Sweeps, Choose(s)
  PROVE  IInv'
<1> USE DeliveryAssumption
<1>1. TypeOK'
  BY SMT DEF Choose, Wanted, Goto, Groups, IInv, TypeOK, SweepPc
<1>2. KindsApart' /\ Untouched'
  <2>1. KindsApart'
    BY SMT DEF Choose, Wanted, Batchable, Waiting, IInv, KindsApart, Row, Sender, NotSending
  <2>2. Untouched'
    BY SMT DEF Choose, IInv, Untouched, Row, Sender, NotSending
  <2> QED
    BY <2>1, <2>2
<1>3. SenderKnows'
  BY SMT DEF Choose, IInv, SenderKnows, Row, Sender, NotSending
<1>4. NotYetClaimed'
  BY SMT DEF Choose, Goto, IInv, NotYetClaimed, Row
<1>5. Owned'
  BY SMT DEF Choose, Goto, IInv, TypeOK, Owned
<1>6. AttemptsBounded'
  <2> SUFFICES ASSUME NEW d \in Deliveries, rows[d].queued
               PROVE  rows[d].attempts + Cardinality(Choosers(d)')
                        <= MAX_RETRY_ATTEMPTS + Cardinality(Sweeps) - 1
      BY DEF Choose, AttemptsBounded
  <2>1. Choosers(d) \in SUBSET Sweeps /\ Choosers(d)' \in SUBSET Sweeps
    BY DEF Choosers
  <2>2. /\ Cardinality(Choosers(d)) \in Nat /\ Cardinality(Choosers(d)') \in Nat
        /\ Cardinality(Sweeps) \in Nat /\ Cardinality(Choosers(d)') <= Cardinality(Sweeps)
    BY <2>1, FewerSweeps
  <2>3. rows[d].attempts \in Nat
    BY SMT DEF IInv, TypeOK, Row
  <2>4. CASE d \in held'[s]
    <3>1. rows[d].attempts < MAX_RETRY_ATTEMPTS
      BY <2>4, SMT DEF Choose, Wanted, Batchable, IInv, TypeOK
    <3> QED
      BY <2>2, <2>3, <3>1, SMT
  <2>5. CASE d \notin held'[s]
    <3>1. Choosers(d)' \in SUBSET Choosers(d)
      BY <2>5, SMT DEF Choose, Goto, Choosers
    <3>2. Cardinality(Choosers(d)') <= Cardinality(Choosers(d))
      BY <2>1, <3>1, FewerSweeps
    <3> QED
      BY <2>2, <2>3, <3>2, SMT DEF IInv, AttemptsBounded
  <2> QED
    BY <2>4, <2>5
<1>7. CopiesCharged'
  <2>1. \A e \in Deliveries : rows'[e].attempts = rows[e].attempts
    BY SMT DEF Choose
  <2>2. copies' = copies /\ \A e \in Deliveries : sender'[e].pc = "send" => sender[e].pc = "send"
    BY SMT DEF Choose
  <2>3. \A e \in Deliveries : Payers(e)' \subseteq Payers(e)
    BY SMT DEF Choose, Goto, Payers, Owned, Row
  <2> QED
    BY <2>1, <2>2, <2>3, KeepsCopies
<1> QED
  BY <1>1, <1>2, <1>3, <1>4, <1>5, <1>6, <1>7 DEF IInv

LEMMA StepNothingDue ==
  ASSUME IInv, NEW s \in Sweeps, NothingDue(s)
  PROVE  IInv'
<1> USE DeliveryAssumption
<1>1. TypeOK'
  BY SMT DEF NothingDue, Goto, IInv, TypeOK, SweepPc
<1>2. KindsApart' /\ Untouched'
  <2>1. KindsApart'
    BY SMT DEF NothingDue, IInv, KindsApart
  <2>2. Untouched'
    BY SMT DEF NothingDue, IInv, Untouched
  <2> QED
    BY <2>1, <2>2
<1>3. SenderKnows'
  BY SMT DEF NothingDue, IInv, SenderKnows
<1>4. NotYetClaimed'
  BY SMT DEF NothingDue, Goto, IInv, NotYetClaimed
<1>5. Owned'
  BY SMT DEF NothingDue, Goto, IInv, Owned
<1>6. AttemptsBounded'
  <2>1. \A e \in Deliveries : rows'[e].queued = rows[e].queued /\ rows'[e].attempts = rows[e].attempts
    BY SMT DEF NothingDue
  <2>2. \A c \in Sweeps, e \in Deliveries :
          (pc'[c] = "claim" /\ e \in held'[c]) => (pc[c] = "claim" /\ e \in held[c])
    BY SMT DEF NothingDue, Goto
  <2> QED
    BY <2>1, <2>2, KeepsAttempts
<1>7. CopiesCharged'
  <2>1. \A e \in Deliveries : rows'[e].attempts = rows[e].attempts
    BY SMT DEF NothingDue
  <2>2. copies' = copies /\ \A e \in Deliveries : sender'[e].pc = "send" => sender[e].pc = "send"
    BY SMT DEF NothingDue
  <2>3. \A e \in Deliveries : Payers(e)' \subseteq Payers(e)
    BY SMT DEF NothingDue, Goto, Payers
  <2> QED
    BY <2>1, <2>2, <2>3, KeepsCopies
<1> QED
  BY <1>1, <1>2, <1>3, <1>4, <1>5, <1>6, <1>7 DEF IInv

(* The claim turns its sweep from one that may charge a row into one that has. *)
LEMMA StepClaim ==
  ASSUME IInv, NEW s \in Sweeps, Claim(s)
  PROVE  IInv'
<1> USE DeliveryAssumption
<1>1. TypeOK'
  BY ClaimedRow, SMT DEF Claim, Goto, IInv, TypeOK, SweepPc
<1>2. KindsApart' /\ Untouched'
  <2>1. KindsApart'
    BY ClaimedRow, SMT DEF Claim, IInv, TypeOK, KindsApart, Sender, NotSending
  <2>2. Untouched'
    BY ClaimedRow, SMT DEF Claim, Claimable, IInv, TypeOK, KindsApart, Untouched, Sender, NotSending
  <2> QED
    BY <2>1, <2>2
<1>3. SenderKnows'
  BY ClaimedRow, SMT DEF Claim, Claimable, IInv, TypeOK, KindsApart, SenderKnows, Sender, NotSending
<1>4. NotYetClaimed'
  BY ClaimedRow, SMT DEF Claim, Goto, IInv, TypeOK, NotYetClaimed
<1>5. Owned'
  BY ClaimedRow, SMT DEF Claim, Claimable, Goto, TooSlow, Unclaimed, IInv, TypeOK, Owned
<1>6. AttemptsBounded'
  <2> SUFFICES ASSUME NEW d \in Deliveries, rows[d].queued
               PROVE  rows'[d].attempts + Cardinality(Choosers(d)')
                        <= MAX_RETRY_ATTEMPTS + Cardinality(Sweeps) - 1
      BY ClaimedRow, SMT DEF Claim, AttemptsBounded, IInv, TypeOK
  <2>1. Choosers(d) \in SUBSET Sweeps /\ Choosers(d)' = Choosers(d) \ {s}
    BY SMT DEF Claim, Goto, Choosers, IInv, TypeOK
  <2>2. /\ Cardinality(Choosers(d)) \in Nat /\ Cardinality(Choosers(d)') \in Nat
        /\ Cardinality(Sweeps) \in Nat /\ Cardinality(Choosers(d)') <= Cardinality(Choosers(d))
    BY <2>1, FewerSweeps
  <2>3. rows[d].attempts \in Nat
    BY SMT DEF IInv, TypeOK, Row
  <2>4. rows[d].attempts + Cardinality(Choosers(d)) <= MAX_RETRY_ATTEMPTS + Cardinality(Sweeps) - 1
    BY DEF IInv, AttemptsBounded
  <2>5. CASE Claimable(s, d)
    <3>1. s \in Choosers(d)
      BY <2>5, SMT DEF Claim, Claimable, Choosers
    <3>2. Cardinality(Choosers(d)') = Cardinality(Choosers(d)) - 1
      BY <2>1, <3>1, OneSweepLess
    <3>3. rows'[d].attempts = rows[d].attempts + 1
      BY <2>5, ClaimedRow, SMT DEF Claim, IInv, TypeOK
    <3> QED
      BY <2>2, <2>3, <2>4, <3>2, <3>3, SMT
  <2>6. CASE ~Claimable(s, d)
    <3>1. rows'[d].attempts = rows[d].attempts
      BY <2>6, SMT DEF Claim
    <3> QED
      BY <2>2, <2>3, <2>4, <3>1, SMT
  <2> QED
    BY <2>5, <2>6
<1>7. CopiesCharged'
  <2> SUFFICES ASSUME NEW d \in Deliveries
               PROVE  copies[d] + Cardinality(Payers(d)')
                        + (IF sender[d].pc = "send" THEN 1 ELSE 0) <= rows'[d].attempts
      BY DEF Claim, CopiesCharged
  <2>1. Payers(d) \in SUBSET Sweeps /\ Payers(d)' \in SUBSET Sweeps
    BY DEF Payers
  <2>2. Cardinality(Payers(d)) \in Nat /\ Cardinality(Payers(d)') \in Nat
    BY <2>1, FewerSweeps
  <2>3. copies[d] \in Nat /\ rows[d].attempts \in Nat
    BY SMT DEF IInv, TypeOK, Row
  <2>4. copies[d] + Cardinality(Payers(d)) + (IF sender[d].pc = "send" THEN 1 ELSE 0)
          <= rows[d].attempts
    BY DEF IInv, CopiesCharged
  <2>5. CASE Claimable(s, d)
    <3>1. Payers(d)' \in SUBSET (Payers(d) \cup {s})
      BY <2>5, ClaimedRow, SMT DEF Claim, Goto, Payers, IInv, TypeOK
    <3>2. Cardinality(Payers(d)') <= Cardinality(Payers(d)) + 1
      <4>1. Payers(d) \cup {s} \in SUBSET Sweeps
        BY <2>1
      <4>2. /\ Cardinality(Payers(d)') <= Cardinality(Payers(d) \cup {s})
            /\ Cardinality(Payers(d) \cup {s}) \in Nat
        BY <3>1, <4>1, FewerSweeps
      <4>3. Cardinality(Payers(d) \cup {s}) <= Cardinality(Payers(d)) + 1
        BY <2>1, OneSweepMore
      <4> QED
        BY <2>2, <4>2, <4>3, SMT
    <3>3. rows'[d].attempts = rows[d].attempts + 1
      BY <2>5, ClaimedRow, SMT DEF Claim, IInv, TypeOK
    <3> QED
      BY <2>2, <2>3, <2>4, <3>2, <3>3, SMT
  <2>6. CASE ~Claimable(s, d)
    <3>1. rows'[d] = rows[d]
      BY <2>6, SMT DEF Claim
    <3>2. Payers(d)' \in SUBSET Payers(d)
      BY <3>1, SMT DEF Claim, Goto, Payers, IInv, NotYetClaimed
    <3>3. Cardinality(Payers(d)') <= Cardinality(Payers(d))
      BY <2>1, <3>2, FewerSweeps
    <3> QED
      BY <2>2, <2>3, <2>4, <3>1, <3>3, SMT
  <2> QED
    BY <2>5, <2>6
<1> QED
  BY <1>1, <1>2, <1>3, <1>4, <1>5, <1>6, <1>7 DEF IInv

LEMMA StepReread ==
  ASSUME IInv, NEW s \in Sweeps, Reread(s)
  PROVE  IInv'
<1> USE DeliveryAssumption
<1>1. TypeOK'
  BY SMT DEF Reread, Finish, Goto, IInv, TypeOK, SweepPc
<1>2. KindsApart' /\ Untouched'
  <2>1. rows' = rows /\ sender' = sender
    BY DEF Reread
  <2>2. \A c \in Sweeps : held'[c] \subseteq held[c]
    BY SMT DEF Reread, Finish, IInv, TypeOK
  <2>3. KindsApart'
    BY <2>1, <2>2, Zenon DEF IInv, KindsApart
  <2>4. Untouched'
    BY <2>1 DEF IInv, Untouched
  <2> QED
    BY <2>3, <2>4
<1>3. SenderKnows'
  BY SMT DEF Reread, IInv, SenderKnows
<1>4. NotYetClaimed'
  BY SMT DEF Reread, Finish, Goto, IInv, TypeOK, NotYetClaimed
<1>5. Owned'
  BY SMT DEF Reread, Finish, Goto, IInv, TypeOK, Owned
<1>6. AttemptsBounded'
  <2>1. \A e \in Deliveries : rows'[e].queued = rows[e].queued /\ rows'[e].attempts = rows[e].attempts
    BY SMT DEF Reread
  <2>2. \A c \in Sweeps, e \in Deliveries :
          (pc'[c] = "claim" /\ e \in held'[c]) => (pc[c] = "claim" /\ e \in held[c])
    BY SMT DEF Reread, Finish, Goto, IInv, TypeOK
  <2> QED
    BY <2>1, <2>2, KeepsAttempts
<1>7. CopiesCharged'
  <2>1. \A e \in Deliveries : rows'[e].attempts = rows[e].attempts
    BY SMT DEF Reread
  <2>2. copies' = copies /\ \A e \in Deliveries : sender'[e].pc = "send" => sender[e].pc = "send"
    BY SMT DEF Reread
  <2>3. \A e \in Deliveries : Payers(e)' \subseteq Payers(e)
    BY SMT DEF Reread, Finish, Goto, Payers, IInv, TypeOK
  <2> QED
    BY <2>1, <2>2, <2>3, KeepsCopies
<1> QED
  BY <1>1, <1>2, <1>3, <1>4, <1>5, <1>6, <1>7 DEF IInv

LEMMA StepResolve ==
  ASSUME IInv, NEW s \in Sweeps, Resolve(s)
  PROVE  IInv'
<1> USE DeliveryAssumption
<1>1. TypeOK'
  BY FailedRow, SMT DEF Resolve, Finish, Goto, UpdateRows, Kept, IInv, TypeOK, SweepPc
<1>2. KindsApart' /\ Untouched'
  <2>1. KindsApart'
    <3>1. \A e \in Deliveries : /\ rows'[e].queued = rows[e].queued
                                 /\ rows'[e].backoff = rows[e].backoff
      BY FailedRow, SMT DEF Resolve, UpdateRows, IInv, TypeOK
    <3>2. \A c \in Sweeps : held'[c] \subseteq held[c]
      BY SMT DEF Resolve, Finish, Kept, IInv, TypeOK
    <3>3. sender' = sender
      BY DEF Resolve
    <3> QED
      BY <3>1, <3>2, <3>3, Zenon DEF IInv, KindsApart
  <2>2. Untouched'
    BY FailedRow, SMT DEF Resolve, UpdateRows, IInv, TypeOK, Untouched, Sender, NotSending
  <2> QED
    BY <2>1, <2>2
<1>3. SenderKnows'
  BY FailedRow, SMT DEF Resolve, UpdateRows, IInv, TypeOK, SenderKnows, Sender, NotSending
<1>4. NotYetClaimed'
  BY FailedRow, SMT DEF Resolve, Finish, Goto, UpdateRows, IInv, TypeOK, NotYetClaimed
<1>5. Owned'
  BY FailedRow, SMT DEF Resolve, Finish, Goto, UpdateRows, Kept, IInv, TypeOK, Owned
<1>6. AttemptsBounded'
  <2>1. \A e \in Deliveries : rows'[e].queued = rows[e].queued /\ rows'[e].attempts = rows[e].attempts
    BY FailedRow, SMT DEF Resolve, UpdateRows, IInv, TypeOK
  <2>2. \A c \in Sweeps, e \in Deliveries :
          (pc'[c] = "claim" /\ e \in held'[c]) => (pc[c] = "claim" /\ e \in held[c])
    BY FailedRow, SMT DEF Resolve, Finish, Goto, IInv, TypeOK
  <2> QED
    BY <2>1, <2>2, KeepsAttempts
<1>7. CopiesCharged'
  <2>1. \A e \in Deliveries : rows'[e].attempts = rows[e].attempts
    BY FailedRow, SMT DEF Resolve, UpdateRows, IInv, TypeOK
  <2>2. copies' = copies /\ \A e \in Deliveries : sender'[e].pc = "send" => sender[e].pc = "send"
    BY FailedRow, SMT DEF Resolve
  <2>3. \A e \in Deliveries : Payers(e)' \subseteq Payers(e)
    BY FailedRow, SMT DEF Resolve, Finish, Goto, UpdateRows, Kept, Payers, IInv, TypeOK, Row
  <2> QED
    BY <2>1, <2>2, <2>3, KeepsCopies
<1> QED
  BY <1>1, <1>2, <1>3, <1>4, <1>5, <1>6, <1>7 DEF IInv

(* The digest spends what its claim charged. *)
LEMMA StepSendDigest ==
  ASSUME IInv, NEW s \in Sweeps, SendDigest(s)
  PROVE  IInv'
<1> USE DeliveryAssumption
<1>1. TypeOK'
  BY SMT DEF SendDigest, Goto, Mailed, IInv, TypeOK, SweepPc
<1>2. KindsApart' /\ Untouched'
  <2>1. KindsApart'
    BY SMT DEF SendDigest, IInv, KindsApart
  <2>2. Untouched'
    BY SMT DEF SendDigest, IInv, Untouched
  <2> QED
    BY <2>1, <2>2
<1>3. SenderKnows'
  BY SMT DEF SendDigest, IInv, SenderKnows
<1>4. NotYetClaimed'
  BY SMT DEF SendDigest, Goto, IInv, TypeOK, NotYetClaimed
<1>5. Owned'
  BY SMT DEF SendDigest, Goto, IInv, TypeOK, Owned
<1>6. AttemptsBounded'
  <2>1. \A e \in Deliveries : rows'[e].queued = rows[e].queued /\ rows'[e].attempts = rows[e].attempts
    BY SMT DEF SendDigest
  <2>2. \A c \in Sweeps, e \in Deliveries :
          (pc'[c] = "claim" /\ e \in held'[c]) => (pc[c] = "claim" /\ e \in held[c])
    BY SMT DEF SendDigest, Goto, IInv, TypeOK
  <2> QED
    BY <2>1, <2>2, KeepsAttempts
<1>7. CopiesCharged'
  <2> SUFFICES ASSUME NEW d \in Deliveries
               PROVE  copies'[d] + Cardinality(Payers(d)')
                        + (IF sender[d].pc = "send" THEN 1 ELSE 0) <= rows[d].attempts
      BY DEF SendDigest, CopiesCharged
  <2>1. Payers(d) \in SUBSET Sweeps /\ Payers(d)' = Payers(d) \ {s}
    BY SMT DEF SendDigest, Goto, Payers, IInv, TypeOK
  <2>2. /\ Cardinality(Payers(d)) \in Nat /\ Cardinality(Payers(d)') \in Nat
        /\ Cardinality(Payers(d)') <= Cardinality(Payers(d))
    BY <2>1, FewerSweeps
  <2>3. copies[d] \in Nat /\ rows[d].attempts \in Nat
    BY SMT DEF IInv, TypeOK, Row
  <2>4. copies[d] + Cardinality(Payers(d)) + (IF sender[d].pc = "send" THEN 1 ELSE 0)
          <= rows[d].attempts
    BY DEF IInv, CopiesCharged
  <2>5. CASE d \in held[s]
    <3>1. s \in Payers(d)
      BY <2>5, SMT DEF SendDigest, Payers
    <3>2. Cardinality(Payers(d)') = Cardinality(Payers(d)) - 1
      BY <2>1, <3>1, OneSweepLess
    <3>3. copies'[d] \in {copies[d], copies[d] + 1}
      BY SMT DEF SendDigest, Mailed
    <3> QED
      BY <2>2, <2>3, <2>4, <3>2, <3>3, SMT
  <2>6. CASE d \notin held[s]
    <3>1. copies'[d] = copies[d]
      BY <2>6, SMT DEF SendDigest, Mailed
    <3> QED
      BY <2>2, <2>3, <2>4, <3>1, SMT
  <2> QED
    BY <2>5, <2>6
<1> QED
  BY <1>1, <1>2, <1>3, <1>4, <1>5, <1>6, <1>7 DEF IInv

LEMMA StepSettleDelivered ==
  ASSUME IInv, NEW s \in Sweeps, SettleDelivered(s)
  PROVE  IInv'
<1> USE DeliveryAssumption
<1>1. TypeOK'
  <2>1. \A row \in Row : Deliver(row) \in Row
    BY SMT DEF Deliver, Row
  <2>2. rows' \in [Deliveries -> Row]
    BY <2>1, SMT DEF SettleDelivered, UpdateRows, IInv, TypeOK
  <2>3. pc' \in [Sweeps -> SweepPc] /\ held' \in [Sweeps -> SUBSET Deliveries]
    BY SMT DEF SettleDelivered, Finish, Goto, IInv, TypeOK, SweepPc
  <2> QED
    BY <2>2, <2>3 DEF SettleDelivered, IInv, TypeOK
<1>2. KindsApart' /\ Untouched'
  <2>1. KindsApart'
    BY SMT DEF SettleDelivered, Finish, UpdateRows, Deliver, IInv, KindsApart, Sender, NotSending
  <2>2. Untouched'
    BY SMT DEF SettleDelivered, UpdateRows, Deliver, IInv, Untouched, Sender, NotSending
  <2> QED
    BY <2>1, <2>2
<1>3. SenderKnows'
  BY SMT DEF SettleDelivered, UpdateRows, Deliver, IInv, SenderKnows, Sender, NotSending
<1>4. NotYetClaimed'
  BY SMT DEF SettleDelivered, Finish, Goto, UpdateRows, Deliver, IInv, NotYetClaimed
<1>5. Owned'
  BY SMT DEF SettleDelivered, Finish, Goto, UpdateRows, Deliver, IInv, Owned
<1>6. AttemptsBounded'
  <2>1. \A e \in Deliveries : rows'[e].queued = rows[e].queued /\ rows'[e].attempts = rows[e].attempts
    BY SMT DEF SettleDelivered, UpdateRows, Deliver
  <2>2. \A c \in Sweeps, e \in Deliveries :
          (pc'[c] = "claim" /\ e \in held'[c]) => (pc[c] = "claim" /\ e \in held[c])
    BY SMT DEF SettleDelivered, Finish, Goto
  <2> QED
    BY <2>1, <2>2, KeepsAttempts
<1>7. CopiesCharged'
  <2>1. \A e \in Deliveries : rows'[e].attempts = rows[e].attempts
    BY SMT DEF SettleDelivered, UpdateRows, Deliver
  <2>2. copies' = copies /\ \A e \in Deliveries : sender'[e].pc = "send" => sender[e].pc = "send"
    BY SMT DEF SettleDelivered
  <2>3. \A e \in Deliveries : Payers(e)' \subseteq Payers(e)
    BY SMT DEF SettleDelivered, Finish, Goto, UpdateRows, Deliver, Payers, Row
  <2> QED
    BY <2>1, <2>2, <2>3, KeepsCopies
<1> QED
  BY <1>1, <1>2, <1>3, <1>4, <1>5, <1>6, <1>7 DEF IInv

LEMMA StepSettleDeclined ==
  ASSUME IInv, NEW s \in Sweeps, SettleDeclined(s)
  PROVE  IInv'
<1> USE DeliveryAssumption
<1>1. TypeOK'
  BY FailedRow, SMT DEF SettleDeclined, Finish, Goto, UpdateRows, IInv, TypeOK, SweepPc
<1>2. KindsApart' /\ Untouched'
  <2>1. KindsApart'
    BY FailedRow, SMT DEF SettleDeclined, Finish, UpdateRows, IInv, TypeOK, KindsApart, SenderKnows, NotSending
  <2>2. Untouched'
    BY FailedRow, SMT DEF SettleDeclined, UpdateRows, IInv, TypeOK, Untouched, NotSending
  <2> QED
    BY <2>1, <2>2
<1>3. SenderKnows'
  BY FailedRow, SMT DEF SettleDeclined, UpdateRows, IInv, TypeOK, SenderKnows, NotSending
<1>4. NotYetClaimed'
  BY FailedRow, SMT DEF SettleDeclined, Finish, Goto, UpdateRows, IInv, TypeOK, NotYetClaimed
<1>5. Owned'
  BY FailedRow, SMT DEF SettleDeclined, Finish, Goto, UpdateRows, IInv, TypeOK, Owned
<1>6. AttemptsBounded'
  <2>1. \A e \in Deliveries : rows'[e].queued = rows[e].queued /\ rows'[e].attempts = rows[e].attempts
    BY FailedRow, SMT DEF SettleDeclined, UpdateRows, IInv, TypeOK
  <2>2. \A c \in Sweeps, e \in Deliveries :
          (pc'[c] = "claim" /\ e \in held'[c]) => (pc[c] = "claim" /\ e \in held[c])
    BY FailedRow, SMT DEF SettleDeclined, Finish, Goto
  <2> QED
    BY <2>1, <2>2, KeepsAttempts
<1>7. CopiesCharged'
  <2>1. \A e \in Deliveries : rows'[e].attempts = rows[e].attempts
    BY FailedRow, SMT DEF SettleDeclined, UpdateRows, IInv, TypeOK
  <2>2. copies' = copies /\ \A e \in Deliveries : sender'[e].pc = "send" => sender[e].pc = "send"
    BY FailedRow, SMT DEF SettleDeclined
  <2>3. \A e \in Deliveries : Payers(e)' \subseteq Payers(e)
    BY FailedRow, SMT DEF SettleDeclined, Finish, Goto, UpdateRows, Payers, IInv, TypeOK
  <2> QED
    BY <2>1, <2>2, <2>3, KeepsCopies
<1> QED
  BY <1>1, <1>2, <1>3, <1>4, <1>5, <1>6, <1>7 DEF IInv

LEMMA StepSettleFailed ==
  ASSUME IInv, NEW s \in Sweeps, SettleFailed(s)
  PROVE  IInv'
<1> USE DeliveryAssumption
<1>1. TypeOK'
  <2>1. \A row \in Row : Release(row) \in Row
    BY Zenon DEF Release, Row
  <2>2. rows' \in [Deliveries -> Row]
    BY <2>1, SMT DEF SettleFailed, UpdateRows, IInv, TypeOK
  <2>3. pc' \in [Sweeps -> SweepPc] /\ held' \in [Sweeps -> SUBSET Deliveries]
    BY SMT DEF SettleFailed, Goto, IInv, TypeOK, SweepPc
  <2> QED
    BY <2>2, <2>3 DEF SettleFailed, IInv, TypeOK
<1>2. KindsApart' /\ Untouched'
  <2>1. KindsApart'
    BY SMT DEF SettleFailed, UpdateRows, Release, IInv, KindsApart, NotSending
  <2>2. Untouched'
    BY SMT DEF SettleFailed, UpdateRows, Release, IInv, Untouched, NotSending
  <2> QED
    BY <2>1, <2>2
<1>3. SenderKnows'
  BY SMT DEF SettleFailed, UpdateRows, Release, IInv, SenderKnows, NotSending
<1>4. NotYetClaimed'
  BY SMT DEF SettleFailed, Goto, UpdateRows, Release, IInv, NotYetClaimed
<1>5. Owned'
  BY SMT DEF SettleFailed, Goto, UpdateRows, Release, IInv, TypeOK, Owned
<1>6. AttemptsBounded'
  <2>1. \A e \in Deliveries : rows'[e].queued = rows[e].queued /\ rows'[e].attempts = rows[e].attempts
    BY SMT DEF SettleFailed, UpdateRows, Release
  <2>2. \A c \in Sweeps, e \in Deliveries :
          (pc'[c] = "claim" /\ e \in held'[c]) => (pc[c] = "claim" /\ e \in held[c])
    BY SMT DEF SettleFailed, Goto
  <2> QED
    BY <2>1, <2>2, KeepsAttempts
<1>7. CopiesCharged'
  <2>1. \A e \in Deliveries : rows'[e].attempts = rows[e].attempts
    BY SMT DEF SettleFailed, UpdateRows, Release
  <2>2. copies' = copies /\ \A e \in Deliveries : sender'[e].pc = "send" => sender[e].pc = "send"
    BY SMT DEF SettleFailed
  <2>3. \A e \in Deliveries : Payers(e)' \subseteq Payers(e)
    BY SMT DEF SettleFailed, Goto, UpdateRows, Release, Payers
  <2> QED
    BY <2>1, <2>2, <2>3, KeepsCopies
<1> QED
  BY <1>1, <1>2, <1>3, <1>4, <1>5, <1>6, <1>7 DEF IInv

LEMMA StepTogglePreference ==
  ASSUME IInv, NEW t \in EventTypes, TogglePreference(t)
  PROVE  IInv'
<1> USE DeliveryAssumption
<1>1. TypeOK'
  BY SMT DEF TogglePreference, IInv, TypeOK
<1>2. KindsApart' /\ Untouched'
  <2>1. KindsApart'
    BY SMT DEF TogglePreference, IInv, KindsApart
  <2>2. Untouched'
    BY SMT DEF TogglePreference, IInv, Untouched
  <2> QED
    BY <2>1, <2>2
<1>3. SenderKnows'
  BY SMT DEF TogglePreference, IInv, SenderKnows
<1>4. NotYetClaimed'
  BY SMT DEF TogglePreference, IInv, NotYetClaimed
<1>5. Owned'
  BY SMT DEF TogglePreference, IInv, Owned
<1>6. AttemptsBounded'
  <2>1. \A e \in Deliveries : rows'[e].queued = rows[e].queued /\ rows'[e].attempts = rows[e].attempts
    BY SMT DEF TogglePreference
  <2>2. \A c \in Sweeps, e \in Deliveries :
          (pc'[c] = "claim" /\ e \in held'[c]) => (pc[c] = "claim" /\ e \in held[c])
    BY SMT DEF TogglePreference
  <2> QED
    BY <2>1, <2>2, KeepsAttempts
<1>7. CopiesCharged'
  <2>1. \A e \in Deliveries : rows'[e].attempts = rows[e].attempts
    BY SMT DEF TogglePreference
  <2>2. copies' = copies /\ \A e \in Deliveries : sender'[e].pc = "send" => sender[e].pc = "send"
    BY SMT DEF TogglePreference
  <2>3. \A e \in Deliveries : Payers(e)' \subseteq Payers(e)
    BY SMT DEF TogglePreference, Payers
  <2> QED
    BY <2>1, <2>2, <2>3, KeepsCopies
<1> QED
  BY <1>1, <1>2, <1>3, <1>4, <1>5, <1>6, <1>7 DEF IInv

LEMMA StepDeactivate ==
  ASSUME IInv, Deactivate
  PROVE  IInv'
<1> USE DeliveryAssumption
<1>1. TypeOK'
  BY DEF Deactivate, IInv, TypeOK
<1>2. KindsApart' /\ Untouched'
  <2>1. KindsApart'
    BY SMT DEF Deactivate, IInv, KindsApart
  <2>2. Untouched'
    BY SMT DEF Deactivate, IInv, Untouched
  <2> QED
    BY <2>1, <2>2
<1>3. SenderKnows'
  BY SMT DEF Deactivate, IInv, SenderKnows
<1>4. NotYetClaimed'
  BY SMT DEF Deactivate, IInv, NotYetClaimed
<1>5. Owned'
  BY SMT DEF Deactivate, IInv, Owned
<1>6. AttemptsBounded'
  <2>1. \A e \in Deliveries : rows'[e].queued = rows[e].queued /\ rows'[e].attempts = rows[e].attempts
    BY SMT DEF Deactivate
  <2>2. \A c \in Sweeps, e \in Deliveries :
          (pc'[c] = "claim" /\ e \in held'[c]) => (pc[c] = "claim" /\ e \in held[c])
    BY SMT DEF Deactivate
  <2> QED
    BY <2>1, <2>2, KeepsAttempts
<1>7. CopiesCharged'
  <2>1. \A e \in Deliveries : rows'[e].attempts = rows[e].attempts
    BY SMT DEF Deactivate
  <2>2. copies' = copies /\ \A e \in Deliveries : sender'[e].pc = "send" => sender[e].pc = "send"
    BY SMT DEF Deactivate
  <2>3. \A e \in Deliveries : Payers(e)' \subseteq Payers(e)
    BY SMT DEF Deactivate, Payers
  <2> QED
    BY <2>1, <2>2, <2>3, KeepsCopies
<1> QED
  BY <1>1, <1>2, <1>3, <1>4, <1>5, <1>6, <1>7 DEF IInv

LEMMA StepBackoffEnds ==
  ASSUME IInv, NEW d \in Deliveries, BackoffEnds(d)
  PROVE  IInv'
<1> USE DeliveryAssumption
<1>1. TypeOK'
  BY SMT DEF BackoffEnds, IInv, TypeOK, Row
<1>2. KindsApart' /\ Untouched'
  <2>1. KindsApart'
    BY SMT DEF BackoffEnds, IInv, KindsApart
  <2>2. Untouched'
    BY SMT DEF BackoffEnds, IInv, Untouched
  <2> QED
    BY <2>1, <2>2
<1>3. SenderKnows'
  BY SMT DEF BackoffEnds, IInv, SenderKnows
<1>4. NotYetClaimed'
  BY SMT DEF BackoffEnds, IInv, NotYetClaimed
<1>5. Owned'
  BY SMT DEF BackoffEnds, IInv, Owned
<1>6. AttemptsBounded'
  <2>1. \A e \in Deliveries : rows'[e].queued = rows[e].queued /\ rows'[e].attempts = rows[e].attempts
    BY SMT DEF BackoffEnds
  <2>2. \A c \in Sweeps, e \in Deliveries :
          (pc'[c] = "claim" /\ e \in held'[c]) => (pc[c] = "claim" /\ e \in held[c])
    BY SMT DEF BackoffEnds
  <2> QED
    BY <2>1, <2>2, KeepsAttempts
<1>7. CopiesCharged'
  <2>1. \A e \in Deliveries : rows'[e].attempts = rows[e].attempts
    BY SMT DEF BackoffEnds
  <2>2. copies' = copies /\ \A e \in Deliveries : sender'[e].pc = "send" => sender[e].pc = "send"
    BY SMT DEF BackoffEnds
  <2>3. \A e \in Deliveries : Payers(e)' \subseteq Payers(e)
    BY SMT DEF BackoffEnds, Payers
  <2> QED
    BY <2>1, <2>2, <2>3, KeepsCopies
<1> QED
  BY <1>1, <1>2, <1>3, <1>4, <1>5, <1>6, <1>7 DEF IInv

LEMMA StepTick ==
  ASSUME IInv, Tick
  PROVE  IInv'
<1> USE DeliveryAssumption
<1>1. TypeOK'
  BY SMT DEF Tick, IInv, TypeOK, AgeCap
<1>2. KindsApart' /\ Untouched'
  <2>1. KindsApart'
    BY SMT DEF Tick, IInv, KindsApart
  <2>2. Untouched'
    BY SMT DEF Tick, IInv, Untouched
  <2> QED
    BY <2>1, <2>2
<1>3. SenderKnows'
  BY SMT DEF Tick, IInv, SenderKnows
<1>4. NotYetClaimed'
  BY SMT DEF Tick, IInv, NotYetClaimed
<1>5. Owned'
  BY SMT DEF Tick, IInv, Owned
<1>6. AttemptsBounded'
  <2>1. \A e \in Deliveries : rows'[e].queued = rows[e].queued /\ rows'[e].attempts = rows[e].attempts
    BY SMT DEF Tick
  <2>2. \A c \in Sweeps, e \in Deliveries :
          (pc'[c] = "claim" /\ e \in held'[c]) => (pc[c] = "claim" /\ e \in held[c])
    BY SMT DEF Tick
  <2> QED
    BY <2>1, <2>2, KeepsAttempts
<1>7. CopiesCharged'
  <2>1. \A e \in Deliveries : rows'[e].attempts = rows[e].attempts
    BY SMT DEF Tick
  <2>2. copies' = copies /\ \A e \in Deliveries : sender'[e].pc = "send" => sender[e].pc = "send"
    BY SMT DEF Tick
  <2>3. \A e \in Deliveries : Payers(e)' \subseteq Payers(e)
    BY SMT DEF Tick, Payers
  <2> QED
    BY <2>1, <2>2, <2>3, KeepsCopies
<1> QED
  BY <1>1, <1>2, <1>3, <1>4, <1>5, <1>6, <1>7 DEF IInv

LEMMA StepKillSender ==
  ASSUME IInv, NEW d \in Deliveries, KillSender(d)
  PROVE  IInv'
<1> USE DeliveryAssumption
<1>1. TypeOK'
  BY SMT DEF KillSender, IInv, TypeOK, Sender, NotSending
<1>2. KindsApart' /\ Untouched'
  <2>1. KindsApart'
    BY SMT DEF KillSender, IInv, KindsApart
  <2>2. Untouched'
    BY SMT DEF KillSender, IInv, Untouched
  <2> QED
    BY <2>1, <2>2
<1>3. SenderKnows'
  BY SMT DEF KillSender, IInv, SenderKnows, NotSending
<1>4. NotYetClaimed'
  BY SMT DEF KillSender, IInv, NotYetClaimed
<1>5. Owned'
  BY SMT DEF KillSender, IInv, Owned
<1>6. AttemptsBounded'
  <2>1. \A e \in Deliveries : rows'[e].queued = rows[e].queued /\ rows'[e].attempts = rows[e].attempts
    BY SMT DEF KillSender
  <2>2. \A c \in Sweeps, e \in Deliveries :
          (pc'[c] = "claim" /\ e \in held'[c]) => (pc[c] = "claim" /\ e \in held[c])
    BY SMT DEF KillSender
  <2> QED
    BY <2>1, <2>2, KeepsAttempts
<1>7. CopiesCharged'
  <2>1. \A e \in Deliveries : rows'[e].attempts = rows[e].attempts
    BY SMT DEF KillSender
  <2>2. copies' = copies /\ \A e \in Deliveries : sender'[e].pc = "send" => sender[e].pc = "send"
    BY SMT DEF KillSender, NotSending
  <2>3. \A e \in Deliveries : Payers(e)' \subseteq Payers(e)
    BY SMT DEF KillSender, Payers
  <2> QED
    BY <2>1, <2>2, <2>3, KeepsCopies
<1> QED
  BY <1>1, <1>2, <1>3, <1>4, <1>5, <1>6, <1>7 DEF IInv

LEMMA StepKillSweep ==
  ASSUME IInv, NEW s \in Sweeps, KillSweep(s)
  PROVE  IInv'
<1> USE DeliveryAssumption
<1>1. TypeOK'
  BY SMT DEF KillSweep, Finish, Goto, IInv, TypeOK, SweepPc
<1>2. KindsApart' /\ Untouched'
  <2>1. KindsApart'
    BY SMT DEF KillSweep, Finish, IInv, KindsApart
  <2>2. Untouched'
    BY SMT DEF KillSweep, IInv, Untouched
  <2> QED
    BY <2>1, <2>2
<1>3. SenderKnows'
  BY SMT DEF KillSweep, IInv, SenderKnows
<1>4. NotYetClaimed'
  BY SMT DEF KillSweep, Finish, Goto, IInv, NotYetClaimed
<1>5. Owned'
  BY SMT DEF KillSweep, Finish, Goto, IInv, Owned
<1>6. AttemptsBounded'
  <2>1. \A e \in Deliveries : rows'[e].queued = rows[e].queued /\ rows'[e].attempts = rows[e].attempts
    BY SMT DEF KillSweep
  <2>2. \A c \in Sweeps, e \in Deliveries :
          (pc'[c] = "claim" /\ e \in held'[c]) => (pc[c] = "claim" /\ e \in held[c])
    BY SMT DEF KillSweep, Finish, Goto
  <2> QED
    BY <2>1, <2>2, KeepsAttempts
<1>7. CopiesCharged'
  <2>1. \A e \in Deliveries : rows'[e].attempts = rows[e].attempts
    BY SMT DEF KillSweep
  <2>2. copies' = copies /\ \A e \in Deliveries : sender'[e].pc = "send" => sender[e].pc = "send"
    BY SMT DEF KillSweep
  <2>3. \A e \in Deliveries : Payers(e)' \subseteq Payers(e)
    BY SMT DEF KillSweep, Finish, Goto, Payers
  <2> QED
    BY <2>1, <2>2, <2>3, KeepsCopies
<1> QED
  BY <1>1, <1>2, <1>3, <1>4, <1>5, <1>6, <1>7 DEF IInv

-----------------------------------------------------------------------------
LEMMA StepIInv == IInv /\ [Next]_vars => IInv'
<1> SUFFICES ASSUME IInv, [Next]_vars PROVE IInv'
    OBVIOUS
<1>1. CASE UNCHANGED vars
  BY <1>1 DEF vars, IInv, TypeOK, KindsApart, Untouched, SenderKnows, NotYetClaimed, Owned,
     AttemptsBounded, Choosers, CopiesCharged, Payers
<1>2. ASSUME NEW d \in Deliveries,
             \/ \E batched \in BOOLEAN : Notify(d, batched)
             \/ Sending(d) \/ BackoffEnds(d) \/ KillSender(d)
      PROVE  IInv'
  BY <1>2, StepNotify, StepRetry, StepCharge, StepSend, StepRecord, StepBackoffEnds,
     StepKillSender DEF Sending
<1>3. ASSUME NEW s \in Sweeps, StartSweep(s) \/ Sweeping(s) \/ KillSweep(s)
      PROVE  IInv'
  BY <1>3, StepStartSweep, StepReapExhaustedBatches, StepReapDeactivatedRecipients, StepChoose,
     StepNothingDue, StepClaim, StepReread, StepResolve, StepSendDigest, StepSettleDelivered,
     StepSettleDeclined, StepSettleFailed, StepKillSweep DEF Sweeping
<1>4. CASE (\E t \in EventTypes : TogglePreference(t)) \/ Deactivate \/ Tick
  BY <1>4, StepTogglePreference, StepDeactivate, StepTick
<1> QED
  BY <1>1, <1>2, <1>3, <1>4 DEF Next

LEMMA SpecIInv == Spec => []IInv
  BY InitIInv, StepIInv, PTL DEF Spec

-----------------------------------------------------------------------------
(* Rows, senders and sweeps keep their types. *)
THEOREM DeliveryTypeCorrect == Spec => []TypeOK
<1>1. IInv => TypeOK
  BY DEF IInv
<1> QED
  BY SpecIInv, <1>1, PTL

(* However many sweeps overlap, are killed, raise after the message went out
   or time out, a delivery is mailed at most MAX_RETRY_ATTEMPTS times, and
   once more per further sweep (engine.py 308-311, 677-686). *)
THEOREM CopiesAreBounded == Spec => []CopiesBounded
<1>1. IInv => CopiesBounded
  <2> SUFFICES ASSUME IInv, NEW d \in Deliveries
               PROVE  copies[d] <= MAX_RETRY_ATTEMPTS
                                     + (IF rows[d].queued THEN Cardinality(Sweeps) - 1 ELSE 0)
      BY DEF CopiesBounded
  <2>1. Choosers(d) \in SUBSET Sweeps /\ Payers(d) \in SUBSET Sweeps
    BY DEF Choosers, Payers
  <2>2. /\ Cardinality(Choosers(d)) \in Nat /\ Cardinality(Payers(d)) \in Nat
        /\ Cardinality(Sweeps) \in Nat
    BY <2>1, FewerSweeps
  <2>3. copies[d] \in Nat /\ rows[d].attempts \in Nat
    BY SMT DEF IInv, TypeOK, Row
  <2>4. copies[d] <= rows[d].attempts
    BY <2>2, <2>3, SMT DEF IInv, CopiesCharged
  <2>5. CASE rows[d].queued
    <3>1. rows[d].attempts + Cardinality(Choosers(d)) <= MAX_RETRY_ATTEMPTS + Cardinality(Sweeps) - 1
      BY <2>5 DEF IInv, AttemptsBounded
    <3> QED
      BY <2>2, <2>3, <2>4, <2>5, <3>1, DeliveryAssumption, SMT
  <2>6. CASE ~rows[d].queued
    <3>1. rows[d].attempts <= MAX_RETRY_ATTEMPTS
      BY <2>6 DEF IInv, SenderKnows
    <3> QED
      BY <2>3, <2>4, <2>6, <3>1, DeliveryAssumption, SMT
  <2> QED
    BY <2>5, <2>6
<1> QED
  BY SpecIInv, <1>1, PTL

(* Two sweeps never mail one waiting delivery, but for a sweep that was too
   slow for its claim (engine.py 671-676). *)
THEOREM OneMailerAtATime == Spec => []OneMailer
<1>1. IInv => OneMailer
  BY SMT DEF IInv, Owned, OneMailer, Mailing
<1> QED
  BY SpecIInv, <1>1, PTL
=============================================================================
