-------------------------- MODULE Publisher_proofs --------------------------
(***************************************************************************)
(* Proofs about the publish engine, for every set of rows, every retry     *)
(* limit and any number of kills.  First what any number of engines keep:  *)
(* types, published rows that are live, groups that respect a hold.  Then  *)
(* what one engine process does to a row between two deliberate schedules: *)
(* it tries it at most MAX_RETRIES + 1 times, never on its backoff, leaves *)
(* no more copies than it was asked for, and the sweep confirms uploads of *)
(* the present schedule only.                                              *)
(*                                                                         *)
(* The web requests of the second part read and write their row in one     *)
(* step: what an overtaken request breaks, the README says.                *)
(***************************************************************************)
EXTENDS Publisher, SequenceTheorems, FiniteSetTheorems, TLAPS

-----------------------------------------------------------------------------
(* What the operators that build a row return                              *)

(* The rows the engine and the requests write are rows: each write changes *)
(* fields of a row to values of their types (the saves of engine.py and    *)
(* PlatformPost.transition_to).                                            *)
LEMMA WrittenRowTypes ==
  ASSUME NEW r \in Rows, NEW obj \in Row, NEW n \in Nat, NEW due \in BOOLEAN,
         NEW to \in RowStatus
  PROVE  /\ SuccessRow(r, obj, n) \in Row
         /\ FailedRow(obj) \in Row
         /\ RetryRow(obj) \in Row
         /\ Requeued(obj) \in Row
         /\ TransitionTo(obj, to) \in Row
         /\ [obj EXCEPT !.status = "published", !.age = 0] \in Row
         /\ [obj EXCEPT !.status = "publishing", !.age = 0] \in Row
         /\ [obj EXCEPT !.due = due, !.age = 0] \in Row
         /\ [TransitionTo(obj, to) EXCEPT !.due = due, !.age = 0] \in Row
         /\ [obj EXCEPT !.age = 0, !.due = FALSE] \in Row
  <1>1. 0 \in Age /\ obj.retry + 1 \in Nat
    BY DEF Age, Row
  <1>2. SuccessRow(r, obj, n) \in Row
    BY <1>1 DEF SuccessRow, Row, RowStatus
  <1>3. FailedRow(obj) \in Row
    BY <1>1 DEF FailedRow, Row, RowStatus
  <1>4. RetryRow(obj) \in Row
    BY <1>1 DEF RetryRow, Row, RowStatus
  <1>5. Requeued(obj) \in Row
    BY DEF Requeued, Row, RowStatus
  <1>6. TransitionTo(obj, to) \in Row
    BY <1>5 DEF TransitionTo, Row
  <1>7. \A row \in Row : [row EXCEPT !.due = due, !.age = 0] \in Row
    BY <1>1 DEF Row
  <1>8. /\ [obj EXCEPT !.status = "published", !.age = 0] \in Row
        /\ [obj EXCEPT !.status = "publishing", !.age = 0] \in Row
        /\ [obj EXCEPT !.age = 0, !.due = FALSE] \in Row
    BY <1>1 DEF Row, RowStatus
  <1> QED BY <1>2, <1>3, <1>4, <1>5, <1>6, <1>7, <1>8

(* What those writes do to the handle and to the status.                   *)
LEMMA WrittenRowFields ==
  ASSUME NEW r \in Rows, NEW obj \in Row, NEW n \in Nat
  PROVE  /\ SuccessRow(r, obj, n).handle = n
         /\ SuccessRow(r, obj, n).status = IF r \in AsyncRows THEN "publishing" ELSE "published"
         /\ FailedRow(obj).handle = obj.handle /\ FailedRow(obj).status = "failed"
         /\ RetryRow(obj).handle = obj.handle /\ RetryRow(obj).status = "scheduled"
         /\ \A to \in RowStatus : /\ TransitionTo(obj, to).handle \in {0, obj.handle}
                                  /\ TransitionTo(obj, to).status = to
         /\ [obj EXCEPT !.status = "published", !.age = 0].handle = obj.handle
  <1>1. /\ SuccessRow(r, obj, n).handle = n
        /\ SuccessRow(r, obj, n).status = IF r \in AsyncRows THEN "publishing" ELSE "published"
    BY DEF SuccessRow, Row
  <1>2. FailedRow(obj).handle = obj.handle /\ FailedRow(obj).status = "failed"
    BY DEF FailedRow, Row
  <1>3. RetryRow(obj).handle = obj.handle /\ RetryRow(obj).status = "scheduled"
    BY DEF RetryRow, Row
  <1>4. \A to \in RowStatus : /\ TransitionTo(obj, to).handle \in {0, obj.handle}
                              /\ TransitionTo(obj, to).status = to
    BY DEF TransitionTo, Requeued, Row
  <1>5. [obj EXCEPT !.status = "published", !.age = 0].handle = obj.handle
    BY DEF Row
  <1> QED BY <1>1, <1>2, <1>3, <1>4, <1>5

LEMMA FreshTypes == FreshRow \in Row /\ NoJob \in Job
  BY DEF FreshRow, NoJob, Row, RowStatus, Age, Job, JobPc

(* A platform accepting a post appends one upload and leaves the others.   *)
LEMMA AcceptAppends ==
  ASSUME TypeOK, NEW r \in Rows, Accept(r)
  PROVE  /\ uploads' \in [Rows -> Seq(Upload)]
         /\ Len(uploads'[r]) = Len(uploads[r]) + 1
         /\ \A q \in Rows : q # r => uploads'[q] = uploads[q]
         /\ \A n \in 1..Len(uploads[r]) : uploads'[r][n] = uploads[r][n]
         /\ r \notin AsyncRows => uploads'[r][Len(uploads[r]) + 1].state = "live"
  <1> DEFINE new == [state |-> IF r \in AsyncRows THEN "processing" ELSE "live",
                     epoch |-> epoch[r]]
  <1>1. new \in Upload /\ uploads[r] \in Seq(Upload)
    BY DEF TypeOK, Upload
  <1>2. uploads' = [uploads EXCEPT ![r] = Append(@, new)]
    BY DEF Accept
  <1>3. /\ Append(uploads[r], new) \in Seq(Upload)
        /\ Len(Append(uploads[r], new)) = Len(uploads[r]) + 1
        /\ \A n \in 1..Len(uploads[r]) : Append(uploads[r], new)[n] = uploads[r][n]
        /\ Append(uploads[r], new)[Len(uploads[r]) + 1] = new
    BY <1>1
  <1>4. uploads'[r] = Append(uploads[r], new)
    BY <1>2 DEF TypeOK
  <1> HIDE DEF new
  <1>5. uploads' \in [Rows -> Seq(Upload)] /\ \A q \in Rows : q # r => uploads'[q] = uploads[q]
    BY <1>2, <1>3 DEF TypeOK
  <1>6. r \notin AsyncRows => new.state = "live"
    BY DEF new
  <1> QED BY <1>3, <1>4, <1>5, <1>6

(* The platform settling an upload changes no other, and no settled one.   *)
LEMMA FinishSettlesOne ==
  ASSUME TypeOK, NEW r \in Rows, PlatformFinishes(r)
  PROVE  /\ uploads' \in [Rows -> Seq(Upload)]
         /\ \A q \in Rows : Len(uploads'[q]) = Len(uploads[q])
         /\ \A q \in Rows : \A n \in 1..Len(uploads[q]) :
              uploads[q][n].state # "processing" => uploads'[q][n] = uploads[q][n]
  <1>1. PICK n \in 1..Len(uploads[r]), outcome \in {"live", "refused"} :
          /\ uploads[r][n].state = "processing"
          /\ uploads' = [uploads EXCEPT ![r][n].state = outcome]
    BY DEF PlatformFinishes
  <1> DEFINE new == [uploads[r][n] EXCEPT !.state = outcome]
  <1>2. uploads[r] \in Seq(Upload) /\ uploads[r][n] \in Upload
    BY ElementOfSeq DEF TypeOK
  <1>3. new \in Upload
    BY <1>2 DEF Upload
  <1>4. /\ [uploads[r] EXCEPT ![n] = new] \in Seq(Upload)
        /\ Len([uploads[r] EXCEPT ![n] = new]) = Len(uploads[r])
        /\ \A j \in 1..Len(uploads[r]) :
             [uploads[r] EXCEPT ![n] = new][j] = IF j = n THEN new ELSE uploads[r][j]
    BY <1>2, <1>3, ExceptSeq
  <1>5. uploads' = [uploads EXCEPT ![r] = [uploads[r] EXCEPT ![n] = new]]
    BY <1>1 DEF TypeOK
  <1> HIDE DEF new
  <1>6. uploads'[r] = [uploads[r] EXCEPT ![n] = new] /\ \A q \in Rows : q # r => uploads'[q] = uploads[q]
    BY <1>5 DEF TypeOK
  <1>7. uploads' \in [Rows -> Seq(Upload)]
    BY <1>4, <1>5 DEF TypeOK
  <1> QED BY <1>1, <1>4, <1>6, <1>7

(* What the threads of other rows and workers see is left alone.           *)
LEMMA JobTypes ==
  ASSUME TypeOK, NEW w \in Workers, NEW r \in Rows
  PROVE  /\ job[w][r] \in Job /\ job[w][r].obj \in Row /\ rows[r] \in Row
         /\ \A j \in Job : [job EXCEPT ![w][r] = j] \in [Workers -> [Rows -> Job]]
         /\ \A pc \in JobPc : [job EXCEPT ![w][r].pc = pc] \in [Workers -> [Rows -> Job]]
         /\ \A all \in [Rows -> Job] : [job EXCEPT ![w] = all] \in [Workers -> [Rows -> Job]]
         /\ \A row \in Row : [rows EXCEPT ![r] = row] \in [Rows -> Row]
         /\ Claimed(r) \in Row
  <1>1. job[w][r] \in Job /\ job[w][r].obj \in Row /\ rows[r] \in Row
    BY DEF TypeOK, Job
  <1>2. \A pc \in JobPc : [job[w][r] EXCEPT !.pc = pc] \in Job
    BY <1>1 DEF Job
  <1>3. \A j \in Job : [job EXCEPT ![w][r] = j] \in [Workers -> [Rows -> Job]]
    BY DEF TypeOK
  <1>4. \A pc \in JobPc :
          [job EXCEPT ![w][r].pc = pc] = [job EXCEPT ![w][r] = [job[w][r] EXCEPT !.pc = pc]]
    BY DEF TypeOK
  <1>5. \A all \in [Rows -> Job] : [job EXCEPT ![w] = all] \in [Workers -> [Rows -> Job]]
    BY DEF TypeOK
  <1>6. \A row \in Row : [rows EXCEPT ![r] = row] \in [Rows -> Row]
    BY DEF TypeOK
  <1>7. Claimed(r) \in Row
    <2>1. 0 \in Age
      BY DEF Age
    <2> QED BY <1>1, <2>1 DEF Claimed, Row, RowStatus
  <1> QED BY <1>1, <1>2, <1>3, <1>4, <1>5, <1>6, <1>7

-----------------------------------------------------------------------------
(* Type correctness                                                        *)

LEMMA TypeInit == Init => TypeOK
  <1> SUFFICES ASSUME Init PROVE TypeOK
    OBVIOUS
  <1>1. \A s \in {"draft", "approved"} : [FreshRow EXCEPT !.status = s] \in Row
    BY FreshTypes DEF FreshRow, Row, RowStatus
  <1>2. rows \in [Rows -> Row]
    BY <1>1 DEF Init
  <1>3. uploads \in [Rows -> Seq(Upload)]
    BY DEF Init
  <1>4. job \in [Workers -> [Rows -> Job]]
    BY FreshTypes DEF Init
  <1>5. phase \in [Workers -> Phase] /\ batch \in [Workers -> SUBSET Rows]
    BY DEF Init, Phase
  <1>6. read \in [Rows -> Row \cup {NoRow}]
    BY DEF Init
  <1> QED BY <1>2, <1>3, <1>4, <1>5, <1>6 DEF Init, TypeOK

(* The publish cycle keeps the types.                                      *)
LEMMA TypeCycle ==
  ASSUME TypeOK, NEW w \in Workers, Cycle(w) \/ StartSweep(w) \/ Crash(w)
  PROVE  TypeOK'
  <1> USE DEF ghosts
  <1>1. CASE Poll(w)
    BY <1>1 DEF Poll, TypeOK, Phase, GetDuePlatformPosts
  <1>2. CASE ClaimGroup(w)
    <2>1. \A r \in Rows : Claimed(r) \in Row
      BY JobTypes
    <2>2. rows' \in [Rows -> Row]
      BY <1>2, <2>1 DEF ClaimGroup, TypeOK
    <2>3. \A r \in Rows : [pc |-> "dispatch", obj |-> rows[r], upload |-> 0] \in Job
      BY DEF TypeOK, Job, JobPc
    <2>4. job' \in [Workers -> [Rows -> Job]]
      BY <1>2, <2>3, FreshTypes DEF ClaimGroup, TypeOK
    <2> QED BY <1>2, <2>2, <2>4 DEF ClaimGroup, TypeOK, Phase
  <1>3. CASE JoinGroup(w)
    BY <1>3 DEF JoinGroup, TypeOK, Phase
  <1>4. CASE QueryRetries(w)
    <2>1. \A r \in Rows : [pc |-> "queued", obj |-> rows[r], upload |-> 0] \in Job
      BY DEF TypeOK, Job, JobPc
    <2>2. job' \in [Workers -> [Rows -> Job]]
      BY <1>4, <2>1, FreshTypes DEF QueryRetries, TypeOK
    <2> QED BY <1>4, <2>2 DEF QueryRetries, TypeOK, Phase
  <1>5. CASE CycleDone(w)
    BY <1>5 DEF CycleDone, TypeOK, Phase
  <1>6. CASE StartSweep(w)
    <2>1. \A r \in Rows : [pc |-> "sweep", obj |-> rows[r], upload |-> 0] \in Job
      BY DEF TypeOK, Job, JobPc
    <2>2. job' \in [Workers -> [Rows -> Job]]
      BY <1>6, <2>1, FreshTypes DEF StartSweep, TypeOK
    <2> QED BY <1>6, <2>2 DEF StartSweep, TypeOK, Phase
  <1>7. CASE Crash(w)
    <2>1. job' \in [Workers -> [Rows -> Job]]
      BY <1>7, FreshTypes DEF Crash, TypeOK
    <2> QED BY <1>7, <2>1 DEF Crash, TypeOK, Phase
  <1> QED BY <1>1, <1>2, <1>3, <1>4, <1>5, <1>6, <1>7 DEF Cycle

(* So does every step of a thread.                                         *)
LEMMA TypeThread ==
  ASSUME TypeOK, NEW w \in Workers, NEW r \in Rows, Thread(w, r)
  PROVE  TypeOK'
  <1> USE DEF ghosts
  <1>0. /\ {"checked", "dispatch", "accepted", "logging", "retryable", "permanent"} \subseteq JobPc
        /\ NoJob \in Job
        /\ FailedRow(rows[r]) \in Row
    BY FreshTypes, JobTypes, WrittenRowTypes DEF JobPc, RowStatus
  <1>a. FailPermanently(r) => rows' \in [Rows -> Row]
    BY <1>0, JobTypes DEF FailPermanently, TypeOK
  <1>b. EndJob(w, r) => job' \in [Workers -> [Rows -> Job]]
    BY <1>0, JobTypes DEF EndJob, SetJob
  <1>c. Attempt(r) => calls' \in [Rows -> Nat]
    BY DEF Attempt, TypeOK
  <1>1. CASE CheckHold(w, r)
    <2>1. EndJob(w, r) \/ job' = [job EXCEPT ![w][r].pc = "checked"]
      BY <1>1 DEF CheckHold
    <2>2. [job EXCEPT ![w][r].pc = "checked"] \in [Workers -> [Rows -> Job]]
      BY <1>0, JobTypes
    <2>3. job' \in [Workers -> [Rows -> Job]]
      BY <1>b, <2>1, <2>2
    <2>4. UNCHANGED <<rows, uploads, phase, batch, read, crashes, ghosts>>
      BY <1>1 DEF CheckHold
    <2> QED BY <2>3, <2>4 DEF TypeOK
  <1>2. CASE ClaimRetry(w, r)
    <2>1. rows' \in [Rows -> Row]
      BY <1>2, JobTypes DEF ClaimRetry
    <2>2. job' \in [Workers -> [Rows -> Job]]
      BY <1>2, <1>0, JobTypes DEF ClaimRetry
    <2> QED BY <1>2, <2>1, <2>2 DEF ClaimRetry, TypeOK
  <1>3. CASE Refused(w, r)
    <2>1. job' \in [Workers -> [Rows -> Job]]
      BY <1>3, <1>0, JobTypes DEF Refused
    <2> QED BY <1>3, <1>c, <2>1 DEF Refused, TypeOK
  <1>4. CASE Accepted(w, r)
    <2>1. job' = [job EXCEPT ![w][r] = [job[w][r] EXCEPT !.pc = "accepted",
                                                         !.upload = Len(uploads[r]) + 1]]
      BY <1>4 DEF Accepted, TypeOK
    <2>2. Len(uploads[r]) + 1 \in Nat
      BY DEF TypeOK
    <2>3. [job[w][r] EXCEPT !.pc = "accepted", !.upload = Len(uploads[r]) + 1] \in Job
      BY <1>0, <2>2, JobTypes DEF Job
    <2>4. job' \in [Workers -> [Rows -> Job]]
      BY <2>1, <2>3, JobTypes
    <2>5. uploads' \in [Rows -> Seq(Upload)]
      BY <1>4, AcceptAppends DEF Accepted
    <2> QED BY <1>4, <1>c, <2>4, <2>5 DEF Accepted, TypeOK
  <1>5. CASE AcceptedUnclear(w, r)
    <2>1. job' \in [Workers -> [Rows -> Job]]
      BY <1>5, <1>0, JobTypes DEF AcceptedUnclear
    <2>2. uploads' \in [Rows -> Seq(Upload)]
      BY <1>5, AcceptAppends DEF AcceptedUnclear
    <2>3. unclear' \in [Rows -> Nat]
      BY <1>5 DEF AcceptedUnclear, TypeOK
    <2> QED BY <1>5, <1>c, <2>1, <2>2, <2>3 DEF AcceptedUnclear, TypeOK
  <1>6. CASE SaveSuccess(w, r)
    <2> DEFINE new == SuccessRow(r, job[w][r].obj, job[w][r].upload)
    <2>1. new \in Row
      BY JobTypes, WrittenRowTypes DEF Job, RowStatus
    <2> HIDE DEF new
    <2>2. [job[w][r] EXCEPT !.pc = "logging", !.obj = new] \in Job
      BY <1>0, <2>1, JobTypes DEF Job
    <2> DEFINE logging == [job[w][r] EXCEPT !.pc = "logging", !.obj = new]
    <2>3. rows' = [rows EXCEPT ![r] = new] /\ (EndJob(w, r) \/ SetJob(w, r, logging))
      BY <1>6 DEF SaveSuccess, new
    <2> HIDE DEF logging
    <2>4. SetJob(w, r, logging) => job' \in [Workers -> [Rows -> Job]]
      BY <2>2, JobTypes DEF SetJob, logging
    <2>5. rows' \in [Rows -> Row]
      BY <2>1, <2>3, JobTypes
    <2> QED BY <1>6, <1>b, <2>3, <2>4, <2>5 DEF SaveSuccess, TypeOK
  <1>7. CASE WriteLog(w, r)
    <2>1. EndJob(w, r) \/ job' = [job EXCEPT ![w][r].pc = "retryable"]
      BY <1>7 DEF WriteLog
    <2>2. [job EXCEPT ![w][r].pc = "retryable"] \in [Workers -> [Rows -> Job]]
      BY <1>0, JobTypes
    <2>3. job' \in [Workers -> [Rows -> Job]]
      BY <1>b, <2>1, <2>2
    <2> QED BY <1>7, <2>3 DEF WriteLog, TypeOK
  <1>8. CASE FailureUnlogged(w, r)
    BY <1>8, <1>b DEF FailureUnlogged, TypeOK
  <1>9. CASE ScheduleRetry(w, r)
    <2> DEFINE new == RetryRow(job[w][r].obj)
    <2>1. new \in Row
      BY JobTypes, WrittenRowTypes DEF RowStatus
    <2>2. FailPermanently(r) \/ rows' = [rows EXCEPT ![r] = new]
      BY <1>9 DEF ScheduleRetry
    <2> HIDE DEF new
    <2>3. rows' \in [Rows -> Row]
      BY <1>a, <2>1, <2>2, JobTypes
    <2> QED BY <1>9, <1>b, <2>3 DEF ScheduleRetry, TypeOK
  <1>10. CASE GiveUp(w, r)
    BY <1>10, <1>a, <1>b DEF GiveUp, TypeOK
  <1>11. CASE ConfirmOne(w, r)
    <2>1. [job[w][r].obj EXCEPT !.status = "published", !.age = 0] \in Row
      BY JobTypes, WrittenRowTypes DEF RowStatus
    <2>2. \/ MarkConfirmedPublished(r, job[w][r].obj)
          \/ FailPermanently(r)
          \/ UNCHANGED rows
      BY <1>11 DEF ConfirmOne
    <2>a. MarkConfirmedPublished(r, job[w][r].obj) => rows' \in [Rows -> Row]
      BY <2>1, JobTypes DEF MarkConfirmedPublished
    <2>b. UNCHANGED rows => rows' \in [Rows -> Row]
      BY DEF TypeOK
    <2>3. rows' \in [Rows -> Row]
      BY <1>a, <2>2, <2>a, <2>b
    <2>4. EndJob(w, r) /\ UNCHANGED <<uploads, phase, batch, read, crashes, ghosts>>
      BY <1>11 DEF ConfirmOne
    <2> QED BY <1>b, <2>3, <2>4 DEF TypeOK
  <1> QED BY <1>1, <1>2, <1>3, <1>4, <1>5, <1>6, <1>7, <1>8, <1>9, <1>10, <1>11 DEF Thread

(* A request, and the passing of time, keep the types.                     *)
LEMMA TypeApply ==
  ASSUME TypeOK, NEW r \in Rows, NEW obj \in Row, Apply(r, obj)
  PROVE  /\ rows' \in [Rows -> Row]
         /\ epoch' \in [Rows -> Nat]
         /\ calls' \in [Rows -> Nat]
         /\ declared' \in SUBSET Rows
         /\ overridden' \in SUBSET Rows
  <1>0. ASSUME NEW row \in Row, NEW due \in BOOLEAN, Write(r, row, due)
        PROVE  rows' \in [Rows -> Row]
    <2>1. [row EXCEPT !.due = due, !.age = 0] \in Row
      BY WrittenRowTypes DEF RowStatus
    <2> QED BY <1>0, <2>1, JobTypes DEF Write, TypeOK
  <1>1. CASE Schedule(r, obj)
    <2>1. TransitionTo(obj, "scheduled") \in Row
      BY WrittenRowTypes DEF RowStatus
    <2>2. rows' \in [Rows -> Row]
      BY <1>0, <1>1, <2>1 DEF Schedule
    <2>3. epoch' \in [Rows -> Nat] /\ calls' \in [Rows -> Nat]
      BY <1>1 DEF Schedule, TypeOK
    <2> QED BY <1>1, <2>2, <2>3 DEF Schedule, TypeOK
  <1>2. CASE Edit(r, obj)
    BY <1>0, <1>2 DEF Edit, TypeOK
  <1>3. ASSUME NEW to \in RowStatus, MoveTo(r, obj, to)
        PROVE  rows' \in [Rows -> Row] /\ declared' \in SUBSET Rows /\ overridden' \in SUBSET Rows
    <2>1. TransitionTo(obj, to) \in Row
      BY WrittenRowTypes
    <2>a. rows[r].due \in BOOLEAN
      BY DEF TypeOK, Row
    <2>2. rows' \in [Rows -> Row]
      BY <1>0, <1>3, <2>1, <2>a DEF MoveTo
    <2> QED BY <1>3, <2>2 DEF MoveTo, TypeOK
  <1> QED BY <1>1, <1>2, <1>3 DEF Apply, MoveTo, TypeOK

LEMMA TypeUser ==
  ASSUME TypeOK, NEW r \in Rows, User(r)
  PROVE  TypeOK'
  <1> USE DEF ghosts
  <1>1. CASE Request(r)
    BY <1>1, TypeApply DEF Request, TypeOK
  <1>2. CASE ReadRow(r)
    <2>1. [rows[r] EXCEPT !.age = 0, !.due = FALSE] \in Row
      BY WrittenRowTypes DEF TypeOK, RowStatus
    <2> QED BY <1>2, <2>1 DEF ReadRow, TypeOK
  <1>3. CASE FinishRequest(r)
    <2>1. read[r] \in Row
      BY <1>3 DEF FinishRequest, TypeOK
    <2> QED BY <1>3, <2>1, TypeApply DEF FinishRequest, TypeOK
  <1> QED BY <1>1, <1>2, <1>3 DEF User

LEMMA TypeClock ==
  ASSUME TypeOK, NEW r \in Rows, Clock(r) \/ PlatformFinishes(r)
  PROVE  TypeOK'
  <1> USE DEF ghosts
  <1>1. CASE BecomesDue(r)
    <2>1. \A row \in Row : [row EXCEPT !.due = TRUE] \in Row
      BY DEF Row
    <2> QED BY <1>1, <2>1 DEF BecomesDue, TypeOK
  <1>2. CASE BackoffEnds(r)
    <2>1. \A row \in Row : [row EXCEPT !.backoff = "over"] \in Row
      BY DEF Row
    <2>2. rows' \in [Rows -> Row]
      BY <1>2, <2>1 DEF BackoffEnds, TypeOK
    <2>3. read[r] # NoRow => read[r] \in Row
      BY DEF TypeOK
    <2>4. read' \in [Rows -> Row \cup {NoRow}]
      BY <1>2, <2>1, <2>3 DEF BackoffEnds, TypeOK
    <2> QED BY <1>2, <2>2, <2>4 DEF BackoffEnds, TypeOK
  <1>3. CASE Ages(r)
    <2>1. \A row \in Row : row.age \in Age /\ \A a \in Age : [row EXCEPT !.age = a] \in Row
      BY DEF Row
    <2>2. \A a \in Age : a < UnconfirmedAge => a + 1 \in Age
      BY DEF Age, UnconfirmedAge
    <2>3. rows[r].age + 1 \in Age
      BY <1>3, <2>1, <2>2 DEF Ages, TypeOK
    <2>4. rows' = [rows EXCEPT ![r] = [rows[r] EXCEPT !.age = rows[r].age + 1]]
      BY <1>3 DEF Ages
    <2>5. rows' \in [Rows -> Row]
      BY <2>1, <2>3, <2>4, JobTypes DEF TypeOK
    <2> QED BY <1>3, <2>5 DEF Ages, TypeOK
  <1>4. CASE PlatformFinishes(r)
    <2>1. uploads' \in [Rows -> Seq(Upload)]
      BY <1>4, FinishSettlesOne
    <2> QED BY <1>4, <2>1 DEF PlatformFinishes, TypeOK
  <1> QED BY <1>1, <1>2, <1>3, <1>4 DEF Clock

(* The engine, the requests and the platform keep every variable in its    *)
(* type: no step leaves a row without a status, a handle or a retry count  *)
(* of the model (apps/composer/models.py 339-350).                         *)
THEOREM TypeCorrect == Spec => []TypeOK
  <1>1. TypeOK /\ [Next]_vars => TypeOK'
    <2> SUFFICES ASSUME TypeOK, [Next]_vars PROVE TypeOK'
      OBVIOUS
    <2>1. ASSUME NEW w \in Workers, Cycle(w) \/ StartSweep(w) \/ Crash(w) PROVE TypeOK'
      BY <2>1, TypeCycle
    <2>2. ASSUME NEW w \in Workers, NEW r \in Rows, Thread(w, r) PROVE TypeOK'
      BY <2>2, TypeThread
    <2>3. ASSUME NEW r \in Rows, User(r) \/ Clock(r) \/ PlatformFinishes(r) PROVE TypeOK'
      BY <2>3, TypeUser, TypeClock
    <2>4. CASE UNCHANGED vars
      BY <2>4 DEF vars, ghosts, TypeOK
    <2> QED BY <2>1, <2>2, <2>3, <2>4 DEF Next
  <1> QED BY TypeInit, <1>1, PTL DEF Spec

-----------------------------------------------------------------------------
(* Published is live                                                       *)
(*                                                                         *)
(* PublishedIsLive alone is not inductive: the sweep publishes a row under *)
(* the handle of the object it loaded, and a thread records an upload made *)
(* two steps earlier.  LiveInv says what those copies know.                *)

LEMMA LiveInit == Init => LiveInv
  <1> SUFFICES ASSUME Init PROVE LiveInv
    OBVIOUS
  <1>1. TypeOK
    BY TypeInit
  <1>2. \A r \in Rows : Len(uploads[r]) = 0 /\ rows[r].handle = 0 /\ rows[r].status # "published"
    BY DEF Init, FreshRow
  <1>3. \A w \in Workers, r \in Rows : job[w][r].obj.handle = 0 /\ job[w][r].pc = "none"
    BY DEF Init, NoJob, FreshRow
  <1>4. \A r \in Rows : read[r] = NoRow
    BY DEF Init
  <1> QED BY <1>1, <1>2, <1>3, <1>4
    DEF LiveInv, HandlesExist, AcceptedIsUploaded, ReadIsLive, SyncIsLive, PublishedIsLive

\* The parts of LiveInv that look at the rows, the copies, the threads.
RowHandles == \A r \in Rows : rows[r].handle <= Len(uploads[r])
ReadHandles == \A r \in Rows : read[r] # NoRow => read[r].handle <= Len(uploads[r])
JobHandles == \A w \in Workers, r \in Rows : job[w][r].obj.handle <= Len(uploads[r])

LEMMA HandlesSplit ==
  /\ HandlesExist <=> RowHandles /\ ReadHandles /\ JobHandles
  /\ HandlesExist' <=> RowHandles' /\ ReadHandles' /\ JobHandles'
  BY DEF HandlesExist, RowHandles, ReadHandles, JobHandles

(* One thread's step changes its own job only.                             *)
LEMMA OneJob ==
  ASSUME LiveInv, NEW w \in Workers, NEW r \in Rows, NEW j \in Job, SetJob(w, r, j),
         \A q \in Rows : Len(uploads'[q]) \in Nat /\ Len(uploads[q]) <= Len(uploads'[q]),
         j.obj.handle <= Len(uploads'[r]),
         j.pc = "accepted" => j.upload \in 1..Len(uploads'[r])
  PROVE  JobHandles' /\ AcceptedIsUploaded'
  <1>1. \A v \in Workers, q \in Rows :
          job'[v][q] = IF v = w /\ q = r THEN j ELSE job[v][q]
    BY DEF LiveInv, TypeOK, SetJob
  <1>2. \A v \in Workers, q \in Rows : job[v][q] \in Job /\ job[v][q].obj.handle \in Nat
    BY DEF LiveInv, TypeOK, Job, Row
  <1>3. \A q \in Rows : Len(uploads[q]) \in Nat
    BY DEF LiveInv, TypeOK
  <1>4. JobHandles'
    BY <1>1, <1>2, <1>3 DEF LiveInv, HandlesExist, JobHandles
  <1>5. AcceptedIsUploaded'
    BY <1>1, <1>3 DEF LiveInv, AcceptedIsUploaded
  <1> QED BY <1>4, <1>5

(* Writing one row, of an upload that exists and, if it reads published,   *)
(* is live.                                                                *)
LEMMA OneRowWritten ==
  ASSUME LiveInv, NEW r \in Rows, NEW row \in Row, rows' = [rows EXCEPT ![r] = row],
         UNCHANGED uploads, declared \subseteq declared', row.handle <= Len(uploads[r]),
         row.status = "published" => r \in declared' \/ IsLive(r, row.handle)
  PROVE  RowHandles' /\ SyncIsLive' /\ PublishedIsLive'
  <1>1. \A q \in Rows : rows'[q] = IF q = r THEN row ELSE rows[q]
    BY DEF LiveInv, TypeOK
  <1>2. RowHandles'
    BY <1>1 DEF LiveInv, HandlesExist, RowHandles
  <1>3. SyncIsLive' /\ PublishedIsLive'
    BY <1>1 DEF LiveInv, SyncIsLive, PublishedIsLive, IsLive
  <1> QED BY <1>2, <1>3

(* Nothing LiveInv looks at changes but the threads' positions.            *)
LEMMA RowsStay ==
  ASSUME LiveInv, UNCHANGED <<rows, uploads, declared>>
  PROVE  RowHandles' /\ SyncIsLive' /\ PublishedIsLive'
  BY DEF LiveInv, HandlesExist, RowHandles, SyncIsLive, PublishedIsLive, IsLive

LEMMA ReadsStay ==
  ASSUME LiveInv, UNCHANGED <<read, uploads>>, declared \subseteq declared'
  PROVE  ReadHandles' /\ ReadIsLive'
  BY DEF LiveInv, HandlesExist, ReadHandles, ReadIsLive, IsLive

LEMMA JobsStay ==
  ASSUME LiveInv, UNCHANGED <<job, uploads>>
  PROVE  JobHandles' /\ AcceptedIsUploaded'
  BY DEF LiveInv, HandlesExist, JobHandles, AcceptedIsUploaded

LEMMA LiveCycle ==
  ASSUME LiveInv, NEW w \in Workers, Cycle(w) \/ StartSweep(w) \/ Crash(w)
  PROVE  LiveInv'
  <1> USE DEF ghosts
  <1>0. TypeOK'
    BY TypeCycle DEF LiveInv
  <1>a. \A r \in Rows : rows[r].handle <= Len(uploads[r]) /\ Len(uploads[r]) \in Nat
    BY DEF LiveInv, HandlesExist, TypeOK
  <1>b. NoJob.pc = "none" /\ NoJob.obj.handle = 0
    BY DEF NoJob, FreshRow
  \* A worker whose threads are replaced by fresh ones, or by none.
  <1>c. ASSUME NEW S, NEW pc \in {"dispatch", "queued", "sweep"}, UNCHANGED uploads,
               job' = [job EXCEPT ![w] =
                 [r \in Rows |-> IF r \in S THEN [pc |-> pc, obj |-> rows[r], upload |-> 0]
                                 ELSE NoJob]]
        PROVE  JobHandles' /\ AcceptedIsUploaded'
    <2>1. \A v \in Workers, r \in Rows :
            job'[v][r] = IF v = w THEN (IF r \in S THEN [pc |-> pc, obj |-> rows[r], upload |-> 0]
                                        ELSE NoJob)
                         ELSE job[v][r]
      BY <1>c DEF LiveInv, TypeOK
    <2>2. JobHandles'
      BY <1>a, <1>b, <1>c, <2>1 DEF LiveInv, HandlesExist, JobHandles
    <2>3. AcceptedIsUploaded'
      BY <1>b, <1>c, <2>1 DEF LiveInv, AcceptedIsUploaded
    <2> QED BY <2>2, <2>3
  <1>1. CASE Poll(w) \/ JoinGroup(w) \/ CycleDone(w)
    <2>1. UNCHANGED <<rows, uploads, declared, read, job>>
      BY <1>1 DEF Poll, JoinGroup, CycleDone
    <2> QED BY <1>0, <2>1, RowsStay, ReadsStay, JobsStay, HandlesSplit DEF LiveInv
  <1>2. CASE ClaimGroup(w)
    <2>1. UNCHANGED <<uploads, declared, read>>
      BY <1>2 DEF ClaimGroup
    <2>2. JobHandles' /\ AcceptedIsUploaded'
      BY <1>2, <1>c DEF ClaimGroup
    <2>3. \A r \in Rows : /\ rows'[r].handle = rows[r].handle
                          /\ rows'[r].status = "published" => rows[r].status = "published"
      BY <1>2 DEF ClaimGroup, Claimed, LiveInv, TypeOK, Row
    <2>4. RowHandles' /\ SyncIsLive' /\ PublishedIsLive'
      BY <2>1, <2>3 DEF LiveInv, HandlesExist, RowHandles, SyncIsLive, PublishedIsLive, IsLive
    <2> QED BY <1>0, <2>1, <2>2, <2>4, ReadsStay, HandlesSplit DEF LiveInv
  <1>3. CASE QueryRetries(w)
    <2>1. UNCHANGED <<rows, uploads, declared, read>>
      BY <1>3 DEF QueryRetries
    <2> DEFINE S == {r \in Rows : RetryDue(r)}
    <2>2. job' = [job EXCEPT ![w] =
            [r \in Rows |-> IF r \in S THEN [pc |-> "queued", obj |-> rows[r], upload |-> 0]
                            ELSE NoJob]]
      BY <1>3 DEF QueryRetries
    <2> HIDE DEF S
    <2>3. JobHandles' /\ AcceptedIsUploaded'
      BY <1>c, <2>1, <2>2
    <2> QED BY <1>0, <2>1, <2>3, RowsStay, ReadsStay, HandlesSplit DEF LiveInv
  <1>4. CASE StartSweep(w)
    <2>1. UNCHANGED <<rows, uploads, declared, read>>
      BY <1>4 DEF StartSweep
    <2> DEFINE S == {r \in Rows : rows[r].status = "publishing"}
    <2>2. job' = [job EXCEPT ![w] =
            [r \in Rows |-> IF r \in S THEN [pc |-> "sweep", obj |-> rows[r], upload |-> 0]
                            ELSE NoJob]]
      BY <1>4 DEF StartSweep
    <2> HIDE DEF S
    <2>3. JobHandles' /\ AcceptedIsUploaded'
      BY <1>c, <2>1, <2>2
    <2> QED BY <1>0, <2>1, <2>3, RowsStay, ReadsStay, HandlesSplit DEF LiveInv
  <1>5. CASE Crash(w)
    <2>1. UNCHANGED <<rows, uploads, declared, read>>
      BY <1>5 DEF Crash
    <2>2. \A v \in Workers, r \in Rows : job'[v][r] = IF v = w THEN NoJob ELSE job[v][r]
      BY <1>5 DEF Crash, LiveInv, TypeOK
    <2>3. JobHandles' /\ AcceptedIsUploaded'
      BY <1>a, <1>b, <2>1, <2>2 DEF LiveInv, HandlesExist, JobHandles, AcceptedIsUploaded
    <2> QED BY <1>0, <2>1, <2>3, RowsStay, ReadsStay, HandlesSplit DEF LiveInv
  <1> QED BY <1>1, <1>2, <1>3, <1>4, <1>5 DEF Cycle

(* The sweep publishes a row only on the platform's word about an upload   *)
(* that exists.                                                            *)
LEMMA PublishVerdictIsLive ==
  ASSUME NEW r \in Rows, NEW obj \in Row, obj.handle <= Len(uploads[r]),
         "publish" \in ConfirmVerdicts(r, obj), uploads[r] \in Seq(Upload)
  PROVE  IsLive(r, obj.handle)
  <1>1. \A t \in Age : After(t, obj) # "publish"
    BY DEF After
  <1>2. SyncVerdict(obj) # "publish" /\ UnreachableVerdict(obj) # "publish"
    BY <1>1 DEF SyncVerdict, UnreachableVerdict, Age, StaleAge, UnconfirmedAge
  <1>3. obj.handle # 0
    BY DEF ConfirmVerdicts, After
  <1>4. AnswerVerdict(obj, uploads[r][obj.handle].state) = "publish"
    BY <1>2, <1>3 DEF ConfirmVerdicts
  <1>5. uploads[r][obj.handle].state = "live"
    BY <1>4 DEF AnswerVerdict, After
  <1>6. obj.handle \in 1..Len(uploads[r])
    BY <1>3 DEF Row
  <1> QED BY <1>5, <1>6 DEF IsLive

LEMMA LiveThread ==
  ASSUME LiveInv, NEW w \in Workers, NEW r \in Rows, Thread(w, r)
  PROVE  LiveInv'
  <1> USE DEF ghosts
  <1>0. TypeOK' /\ TypeOK
    BY TypeThread DEF LiveInv
  <1> DEFINE me == job[w][r]
             At(pc) == [job[w][r] EXCEPT !.pc = pc]
  <1>a. /\ me \in Job /\ me.obj \in Row /\ rows[r] \in Row
        /\ me.obj.handle <= Len(uploads[r]) /\ rows[r].handle <= Len(uploads[r])
        /\ \A q \in Rows : Len(uploads[q]) \in Nat
    BY JobTypes DEF LiveInv, HandlesExist, TypeOK
  <1>b. \A pc \in JobPc : /\ At(pc) \in Job
                          /\ At(pc).obj = me.obj
                          /\ At(pc).pc = pc
                          /\ At(pc).upload = me.upload
    BY <1>a DEF Job
  <1>c. ASSUME EndJob(w, r), UNCHANGED uploads
        PROVE  JobHandles' /\ AcceptedIsUploaded'
    <2>1. NoJob \in Job /\ NoJob.pc # "accepted" /\ NoJob.obj.handle = 0
      BY FreshTypes DEF NoJob, FreshRow
    <2> QED BY <1>a, <1>c, <2>1, OneJob DEF EndJob
  <1>d. ASSUME NEW pc \in JobPc \ {"accepted"}, job' = [job EXCEPT ![w][r].pc = pc],
               \A q \in Rows : Len(uploads'[q]) \in Nat /\ Len(uploads[q]) <= Len(uploads'[q])
        PROVE  JobHandles' /\ AcceptedIsUploaded'
    <2>1. SetJob(w, r, At(pc))
      BY <1>d DEF SetJob
    <2>2. At(pc).obj.handle <= Len(uploads'[r])
      <3>1. /\ At(pc).obj = me.obj /\ me.obj.handle \in Nat /\ me.obj.handle <= Len(uploads[r])
        BY <1>a, <1>b DEF Row
      <3>2. Len(uploads[r]) \in Nat /\ Len(uploads'[r]) \in Nat /\ Len(uploads[r]) <= Len(uploads'[r])
        BY <1>a, <1>d
      <3> HIDE DEF At, me
      <3> QED
        BY <3>1, <3>2
    <2> HIDE DEF At
    <2> QED BY <1>b, <1>d, <2>1, <2>2, OneJob
  <1>e. ASSUME FailPermanently(r), UNCHANGED <<uploads, declared>>
        PROVE  RowHandles' /\ SyncIsLive' /\ PublishedIsLive'
    <2>1. /\ FailedRow(rows[r]) \in Row /\ FailedRow(rows[r]).handle = rows[r].handle
          /\ FailedRow(rows[r]).status = "failed"
      BY <1>a, WrittenRowTypes, WrittenRowFields DEF RowStatus
    <2>2. CASE rows[r].status = "publishing"
      BY <1>a, <1>e, <2>1, <2>2, OneRowWritten DEF FailPermanently
    <2>3. CASE rows[r].status # "publishing"
      BY <1>e, <2>3, RowsStay DEF FailPermanently
    <2> QED BY <2>2, <2>3
  <1>g. {"checked", "dispatch", "logging", "retryable", "permanent"} \subseteq JobPc \ {"accepted"}
    BY DEF JobPc
  <1>h. ASSUME NEW pc \in JobPc \ {"accepted"}, job' = [job EXCEPT ![w][r].pc = pc], UNCHANGED uploads
        PROVE  JobHandles' /\ AcceptedIsUploaded'
    <2>1. \A q \in Rows : Len(uploads'[q]) \in Nat /\ Len(uploads[q]) <= Len(uploads'[q])
      BY <1>a, <1>h
    <2> HIDE DEF At
    <2> QED BY <1>d, <1>h, <2>1
  \* An upload the platform accepts leaves what is known of the rows alone.
  <1>f. ASSUME Accept(r), UNCHANGED <<rows, read, declared>>
        PROVE  /\ RowHandles' /\ ReadHandles' /\ ReadIsLive' /\ SyncIsLive' /\ PublishedIsLive'
               /\ \A q \in Rows : Len(uploads'[q]) \in Nat /\ Len(uploads[q]) <= Len(uploads'[q])
               /\ Len(uploads'[r]) = Len(uploads[r]) + 1
    <2>1. /\ Len(uploads'[r]) = Len(uploads[r]) + 1
          /\ \A q \in Rows : q # r => uploads'[q] = uploads[q]
          /\ \A n \in 1..Len(uploads[r]) : uploads'[r][n] = uploads[r][n]
          /\ r \notin AsyncRows => uploads'[r][Len(uploads[r]) + 1].state = "live"
      BY <1>0, <1>f, AcceptAppends
    <2>2. \A q \in Rows : Len(uploads'[q]) \in Nat /\ Len(uploads[q]) <= Len(uploads'[q])
      BY <1>a, <2>1
    <2>3. \A q \in Rows : rows[q].handle \in Nat /\ (read[q] # NoRow => read[q].handle \in Nat)
      BY <1>0 DEF TypeOK, Row
    <2>4. RowHandles' /\ ReadHandles'
      BY <1>a, <1>f, <2>2, <2>3 DEF LiveInv, HandlesExist, RowHandles, ReadHandles
    <2>5. \A q \in Rows, n \in Nat : IsLive(q, n) => IsLive(q, n)'
      BY <1>a, <2>1 DEF IsLive
    <2>6. PublishedIsLive' /\ ReadIsLive'
      BY <1>f, <2>3, <2>5 DEF LiveInv, PublishedIsLive, ReadIsLive
    <2>7. SyncIsLive'
      <3> SUFFICES ASSUME NEW q \in Rows \ AsyncRows, NEW n \in 1..Len(uploads'[q])
                   PROVE  IsLive(q, n)'
        BY DEF SyncIsLive
      <3>1. CASE n \in 1..Len(uploads[q])
        BY <3>1, <2>5 DEF LiveInv, SyncIsLive
      <3>2. CASE n \notin 1..Len(uploads[q])
        BY <1>a, <2>1, <3>2 DEF IsLive
      <3> QED BY <3>1, <3>2
    <2> QED BY <2>1, <2>2, <2>4, <2>6, <2>7
  <1> HIDE DEF At
  <1>1. CASE CheckHold(w, r)
    <2>1. UNCHANGED <<rows, uploads, declared, read>> /\
          (EndJob(w, r) \/ job' = [job EXCEPT ![w][r].pc = "checked"])
      BY <1>1 DEF CheckHold
    <2>2. JobHandles' /\ AcceptedIsUploaded'
      BY <1>c, <1>g, <1>h, <2>1
    <2> QED BY <1>0, <2>1, <2>2, RowsStay, ReadsStay, HandlesSplit DEF LiveInv
  <1>2. CASE ClaimRetry(w, r)
    <2>1. /\ UNCHANGED <<uploads, declared, read>>
          /\ rows' = [rows EXCEPT ![r] = Claimed(r)]
          /\ job' = [job EXCEPT ![w][r].pc = "dispatch"]
      BY <1>2 DEF ClaimRetry
    <2>2. Claimed(r) \in Row /\ Claimed(r).handle = rows[r].handle /\ Claimed(r).status = "publishing"
      BY <1>0, <1>a, JobTypes DEF Claimed, Row
    <2>3. JobHandles' /\ AcceptedIsUploaded'
      BY <1>g, <1>h, <2>1
    <2>4. RowHandles' /\ SyncIsLive' /\ PublishedIsLive'
      BY <1>a, <2>1, <2>2, OneRowWritten
    <2> QED BY <1>0, <2>1, <2>3, <2>4, ReadsStay, HandlesSplit DEF LiveInv
  <1>3. CASE Refused(w, r)
    <2>1. PICK kind \in {"retryable", "permanent"} : job' = [job EXCEPT ![w][r].pc = kind]
      BY <1>3 DEF Refused
    <2>2. UNCHANGED <<rows, uploads, declared, read>>
      BY <1>3 DEF Refused
    <2>3. JobHandles' /\ AcceptedIsUploaded'
      BY <1>g, <1>h, <2>1, <2>2
    <2> QED BY <1>0, <2>2, <2>3, RowsStay, ReadsStay, HandlesSplit DEF LiveInv
  <1>4. CASE Accepted(w, r)
    <2> DEFINE new == [job[w][r] EXCEPT !.pc = "accepted", !.upload = Len(uploads[r]) + 1]
    <2>1. SetJob(w, r, new)
      BY <1>4 DEF Accepted, SetJob
    <2>a. Len(uploads[r]) + 1 \in Nat
      BY <1>a
    <2>2. /\ new \in Job /\ new.obj = me.obj /\ new.upload = Len(uploads[r]) + 1
      BY <1>a, <2>a DEF Job, JobPc
    <2>3. /\ RowHandles' /\ ReadHandles' /\ ReadIsLive' /\ SyncIsLive' /\ PublishedIsLive'
          /\ \A q \in Rows : Len(uploads'[q]) \in Nat /\ Len(uploads[q]) <= Len(uploads'[q])
          /\ Len(uploads'[r]) = Len(uploads[r]) + 1
      BY <1>4, <1>f DEF Accepted
    <2>4. new.obj.handle <= Len(uploads'[r]) /\ new.upload \in 1..Len(uploads'[r])
      BY <1>a, <2>2, <2>3 DEF Row
    <2> HIDE DEF new
    <2>5. JobHandles' /\ AcceptedIsUploaded'
      BY <2>1, <2>2, <2>3, <2>4, OneJob
    <2> QED BY <1>0, <2>3, <2>5, HandlesSplit DEF LiveInv
  <1>5. CASE AcceptedUnclear(w, r)
    <2>1. PICK kind \in {"retryable", "permanent"} : job' = [job EXCEPT ![w][r].pc = kind]
      BY <1>5 DEF AcceptedUnclear
    <2>2. /\ RowHandles' /\ ReadHandles' /\ ReadIsLive' /\ SyncIsLive' /\ PublishedIsLive'
          /\ \A q \in Rows : Len(uploads'[q]) \in Nat /\ Len(uploads[q]) <= Len(uploads'[q])
      BY <1>5, <1>f DEF AcceptedUnclear
    <2>3. JobHandles' /\ AcceptedIsUploaded'
      BY <1>d, <1>g, <2>1, <2>2
    <2> QED BY <1>0, <2>2, <2>3, HandlesSplit DEF LiveInv
  <1>6. CASE SaveSuccess(w, r)
    <2> DEFINE new == SuccessRow(r, job[w][r].obj, job[w][r].upload)
               logging == [job[w][r] EXCEPT !.pc = "logging", !.obj = new]
    <2>1. /\ rows' = [rows EXCEPT ![r] = new]
          /\ EndJob(w, r) \/ SetJob(w, r, logging)
          /\ UNCHANGED <<uploads, declared, read>>
          /\ me.pc = "accepted"
      BY <1>6 DEF SaveSuccess
    <2>a. job[w][r].obj \in Row /\ job[w][r].upload \in Nat
      BY <1>a DEF Job
    <2>b. new \in Row
      BY <2>a, WrittenRowTypes DEF RowStatus
    <2>c. /\ new.handle = me.upload
          /\ new.status = IF r \in AsyncRows THEN "publishing" ELSE "published"
      BY <2>a, WrittenRowFields
    <2>2. /\ new \in Row /\ new.handle = me.upload
          /\ new.status = IF r \in AsyncRows THEN "publishing" ELSE "published"
      BY <2>b, <2>c
    <2> HIDE DEF new
    <2>3. logging \in Job /\ logging.pc = "logging" /\ logging.obj = new
      BY <1>a, <2>2 DEF Job, JobPc
    <2> HIDE DEF logging
    <2>4. me.upload \in 1..Len(uploads[r])
      BY <2>1 DEF LiveInv, AcceptedIsUploaded
    <2>5. r \notin AsyncRows => IsLive(r, me.upload)
      BY <2>4 DEF LiveInv, SyncIsLive
    <2>6. new.handle <= Len(uploads[r])
      BY <1>a, <2>2, <2>4
    <2>7. RowHandles' /\ SyncIsLive' /\ PublishedIsLive'
      BY <2>1, <2>2, <2>5, <2>6, OneRowWritten
    <2>8. JobHandles' /\ AcceptedIsUploaded'
      BY <1>a, <1>c, <2>1, <2>3, <2>6, OneJob
    <2> QED BY <1>0, <2>1, <2>7, <2>8, ReadsStay, HandlesSplit DEF LiveInv
  <1>7. CASE WriteLog(w, r) \/ FailureUnlogged(w, r)
    <2>1. UNCHANGED <<rows, uploads, declared, read>>
          /\ (EndJob(w, r) \/ job' = [job EXCEPT ![w][r].pc = "retryable"])
      BY <1>7 DEF WriteLog, FailureUnlogged
    <2>2. JobHandles' /\ AcceptedIsUploaded'
      BY <1>c, <1>g, <1>h, <2>1
    <2> QED BY <1>0, <2>1, <2>2, RowsStay, ReadsStay, HandlesSplit DEF LiveInv
  <1>8. CASE ScheduleRetry(w, r)
    <2> DEFINE new == RetryRow(job[w][r].obj)
    <2>1. UNCHANGED <<uploads, declared, read>> /\ EndJob(w, r)
          /\ (FailPermanently(r) \/ rows' = [rows EXCEPT ![r] = new])
      BY <1>8 DEF ScheduleRetry
    <2>2. new \in Row /\ new.handle = me.obj.handle /\ new.status = "scheduled"
      BY <1>a, WrittenRowTypes, WrittenRowFields DEF RowStatus
    <2> HIDE DEF new
    <2>3. RowHandles' /\ SyncIsLive' /\ PublishedIsLive'
      BY <1>a, <1>e, <2>1, <2>2, OneRowWritten
    <2> QED BY <1>0, <1>c, <2>1, <2>3, ReadsStay, HandlesSplit DEF LiveInv
  <1>9. CASE GiveUp(w, r)
    <2>1. UNCHANGED <<uploads, declared, read>> /\ EndJob(w, r) /\ FailPermanently(r)
      BY <1>9 DEF GiveUp
    <2> QED BY <1>0, <1>c, <1>e, <2>1, ReadsStay, HandlesSplit DEF LiveInv
  <1>10. CASE ConfirmOne(w, r)
    <2>1. UNCHANGED <<uploads, declared, read>> /\ EndJob(w, r)
      BY <1>10 DEF ConfirmOne
    <2>2. \/ /\ "publish" \in ConfirmVerdicts(r, me.obj)
             /\ MarkConfirmedPublished(r, me.obj)
          \/ FailPermanently(r)
          \/ UNCHANGED rows
      BY <1>10 DEF ConfirmOne
    <2>3. ASSUME "publish" \in ConfirmVerdicts(r, me.obj), MarkConfirmedPublished(r, me.obj)
          PROVE  RowHandles' /\ SyncIsLive' /\ PublishedIsLive'
      <3> DEFINE new == [job[w][r].obj EXCEPT !.status = "published", !.age = 0]
      <3>1. rows' = [rows EXCEPT ![r] = new]
        BY <2>3 DEF MarkConfirmedPublished
      <3>2. new \in Row /\ new.handle = me.obj.handle
        BY <1>a, WrittenRowTypes, WrittenRowFields DEF RowStatus
      <3>3. IsLive(r, me.obj.handle)
        BY <1>a, <1>0, <2>3, PublishVerdictIsLive DEF TypeOK
      <3> HIDE DEF new
      <3> QED BY <1>a, <2>1, <3>1, <3>2, <3>3, OneRowWritten
    <2>4. RowHandles' /\ SyncIsLive' /\ PublishedIsLive'
      BY <1>e, <2>1, <2>2, <2>3, RowsStay
    <2> QED BY <1>0, <1>c, <2>1, <2>4, ReadsStay, HandlesSplit DEF LiveInv
  <1> QED BY <1>1, <1>2, <1>3, <1>4, <1>5, <1>6, <1>7, <1>8, <1>9, <1>10 DEF Thread

(* A request writes a handle it read or none, and reads published only     *)
(* what a user declares so.                                                *)
LEMMA LiveApply ==
  ASSUME LiveInv, NEW r \in Rows, NEW obj \in Row, obj.handle <= Len(uploads[r]),
         obj.status = "published" => r \in declared \/ IsLive(r, obj.handle),
         Apply(r, obj), UNCHANGED uploads
  PROVE  /\ RowHandles' /\ SyncIsLive' /\ PublishedIsLive'
         /\ declared \subseteq declared'
  <1>a. \A row \in Row : row.status \in RowStatus /\ row.handle \in Nat
    BY DEF Row
  <1>b. /\ rows[r] \in Row /\ rows[r].due \in BOOLEAN
        /\ Len(uploads[r]) \in Nat
    BY DEF LiveInv, TypeOK, Row
  <1>0. ASSUME NEW row \in Row, NEW due \in BOOLEAN, Write(r, row, due),
               declared \subseteq declared', row.handle <= Len(uploads[r]),
               row.status = "published" => r \in declared' \/ IsLive(r, row.handle)
        PROVE  RowHandles' /\ SyncIsLive' /\ PublishedIsLive'
    <2> DEFINE new == [row EXCEPT !.due = due, !.age = 0]
    <2>1. new \in Row
      BY WrittenRowTypes DEF RowStatus
    <2>2. new.handle = row.handle /\ new.status = row.status
      BY DEF Row
    <2>3. rows' = [rows EXCEPT ![r] = new]
      BY <1>0 DEF Write
    <2> HIDE DEF new
    <2> QED BY <1>0, <2>1, <2>2, <2>3, OneRowWritten
  <1>1. ASSUME NEW to \in RowStatus
        PROVE  /\ TransitionTo(obj, to) \in Row
               /\ TransitionTo(obj, to).handle <= Len(uploads[r])
               /\ TransitionTo(obj, to).status = to
    <2>1. TransitionTo(obj, to) \in Row
      BY WrittenRowTypes
    <2>2. TransitionTo(obj, to).handle \in {0, obj.handle} /\ TransitionTo(obj, to).status = to
      BY WrittenRowFields
    <2> QED BY <1>b, <2>1, <2>2
  <1>2. CASE Schedule(r, obj)
    <2>1. PICK due \in BOOLEAN : Write(r, TransitionTo(obj, "scheduled"), due)
      BY <1>2 DEF Schedule
    <2>2. declared \subseteq declared'
      BY <1>2 DEF Schedule
    <2> QED BY <1>0, <1>1, <2>1, <2>2 DEF RowStatus
  <1>3. CASE Edit(r, obj)
    <2>1. PICK due \in BOOLEAN : Write(r, obj, due)
      BY <1>3 DEF Edit
    <2>2. declared \subseteq declared'
      BY <1>3 DEF Edit
    <2> QED BY <1>0, <2>1, <2>2
  <1>4. ASSUME NEW to \in RowStatus, MoveTo(r, obj, to)
        PROVE  RowHandles' /\ SyncIsLive' /\ PublishedIsLive'
    <2>1. PICK due \in BOOLEAN : Write(r, TransitionTo(obj, to), due)
      BY <1>4, <1>b DEF MoveTo
    <2>2. declared \subseteq declared' /\ (to = "published" => r \in declared')
      BY <1>4 DEF MoveTo
    <2> QED BY <1>0, <1>1, <2>1, <2>2
  <1>5. declared \subseteq declared'
    BY DEF Apply, Schedule, Edit, MoveTo
  <1> QED BY <1>2, <1>3, <1>4, <1>5 DEF Apply

LEMMA LiveUser ==
  ASSUME LiveInv, NEW r \in Rows, User(r)
  PROVE  LiveInv'
  <1> USE DEF ghosts
  <1>0. /\ TypeOK' /\ rows[r] \in Row /\ rows[r].handle <= Len(uploads[r])
        /\ rows[r].status = "published" => r \in declared \/ IsLive(r, rows[r].handle)
    BY TypeUser DEF LiveInv, TypeOK, HandlesExist, PublishedIsLive
  <1>1. CASE Request(r)
    <2>1. UNCHANGED <<uploads, job, read>> /\ Apply(r, rows[r])
      BY <1>1 DEF Request
    <2> QED BY <1>0, <2>1, LiveApply, ReadsStay, JobsStay, HandlesSplit DEF LiveInv
  <1>2. CASE ReadRow(r)
    <2> DEFINE copy == [rows[r] EXCEPT !.age = 0, !.due = FALSE]
    <2>1. UNCHANGED <<uploads, rows, declared, job>> /\ read' = [read EXCEPT ![r] = copy]
      BY <1>2 DEF ReadRow
    <2>2. copy.handle = rows[r].handle /\ copy.status = rows[r].status
      BY <1>0 DEF Row
    <2> HIDE DEF copy
    <2>3. ReadHandles' /\ ReadIsLive'
      BY <1>0, <2>1, <2>2 DEF LiveInv, TypeOK, HandlesExist, ReadHandles, ReadIsLive, IsLive
    <2> QED BY <1>0, <2>1, <2>3, RowsStay, JobsStay, HandlesSplit DEF LiveInv
  <1>3. CASE FinishRequest(r)
    <2>1. UNCHANGED <<uploads, job>> /\ Apply(r, read[r]) /\ read[r] # NoRow
          /\ read' = [read EXCEPT ![r] = NoRow]
      BY <1>3 DEF FinishRequest
    <2>2. /\ read[r] \in Row /\ read[r].handle <= Len(uploads[r])
          /\ read[r].status = "published" => r \in declared \/ IsLive(r, read[r].handle)
      BY <2>1 DEF LiveInv, TypeOK, HandlesExist, ReadIsLive
    <2>3. RowHandles' /\ SyncIsLive' /\ PublishedIsLive' /\ declared \subseteq declared'
      BY <2>1, <2>2, LiveApply
    <2>4. ReadHandles' /\ ReadIsLive'
      BY <2>1, <2>3 DEF LiveInv, TypeOK, HandlesExist, ReadHandles, ReadIsLive, IsLive
    <2> QED BY <1>0, <2>1, <2>3, <2>4, JobsStay, HandlesSplit DEF LiveInv
  <1> QED BY <1>1, <1>2, <1>3 DEF User

LEMMA LiveClock ==
  ASSUME LiveInv, NEW r \in Rows, Clock(r) \/ PlatformFinishes(r)
  PROVE  LiveInv'
  <1> USE DEF ghosts
  <1>0. TypeOK' /\ TypeOK /\ rows[r] \in Row /\ rows[r].handle <= Len(uploads[r])
    BY TypeClock DEF LiveInv, TypeOK, HandlesExist
  <1>1. CASE Clock(r)
    <2>1. /\ UNCHANGED <<uploads, declared, job>>
          /\ \A q \in Rows : rows'[q].handle = rows[q].handle /\ rows'[q].status = rows[q].status
      <3>1. CASE BecomesDue(r)
        BY <1>0, <3>1 DEF BecomesDue, TypeOK, Row
      <3>2. CASE BackoffEnds(r)
        BY <1>0, <3>2 DEF BackoffEnds, TypeOK, Row
      <3>3. CASE Ages(r)
        BY <1>0, <3>3 DEF Ages, TypeOK, Row
      <3> QED BY <1>1, <3>1, <3>2, <3>3 DEF Clock
    <2>2. \A q \in Rows : /\ read'[q] # NoRow => read[q] # NoRow
                          /\ read'[q] # NoRow => /\ read'[q].handle = read[q].handle
                                                 /\ read'[q].status = read[q].status
      <3>1. CASE UNCHANGED read
        BY <3>1
      <3>2. CASE BackoffEnds(r) /\ read[r] # NoRow /\ read[r].backoff = "waiting"
        <4>1. read[r] \in Row
          BY <1>0, <3>2 DEF TypeOK
        <4>2. [read[r] EXCEPT !.backoff = "over"].handle = read[r].handle
              /\ [read[r] EXCEPT !.backoff = "over"].status = read[r].status
          BY <4>1 DEF Row
        <4>3. read' = [read EXCEPT ![r] = [read[r] EXCEPT !.backoff = "over"]]
          BY <3>2 DEF BackoffEnds
        <4> QED BY <1>0, <3>2, <4>2, <4>3 DEF TypeOK
      <3> QED BY <1>1, <3>1, <3>2 DEF Clock, BecomesDue, BackoffEnds, Ages
    <2>3. RowHandles' /\ ReadHandles' /\ ReadIsLive' /\ SyncIsLive' /\ PublishedIsLive'
      BY <2>1, <2>2 DEF LiveInv, HandlesExist, RowHandles, ReadHandles, ReadIsLive,
                        SyncIsLive, PublishedIsLive, IsLive
    <2> QED BY <1>0, <2>1, <2>3, JobsStay, HandlesSplit DEF LiveInv
  <1>2. CASE PlatformFinishes(r)
    <2>1. UNCHANGED <<rows, read, job, declared>>
      BY <1>2 DEF PlatformFinishes
    <2>2. /\ \A q \in Rows : Len(uploads'[q]) = Len(uploads[q])
          /\ \A q \in Rows : \A n \in 1..Len(uploads[q]) :
               uploads[q][n].state # "processing" => uploads'[q][n] = uploads[q][n]
      BY <1>0, <1>2, FinishSettlesOne
    <2>3. \A q \in Rows, n \in Nat : IsLive(q, n) => IsLive(q, n)'
      BY <2>2 DEF IsLive
    <2>4. HandlesExist' /\ AcceptedIsUploaded'
      BY <2>1, <2>2 DEF LiveInv, HandlesExist, AcceptedIsUploaded
    <2>5. \A q \in Rows : rows[q].handle \in Nat
      BY <1>0 DEF TypeOK, Row
    <2>6. SyncIsLive'
      BY <2>2, <2>3 DEF LiveInv, SyncIsLive
    <2>7. PublishedIsLive' /\ ReadIsLive'
      <3>1. \A q \in Rows : read[q] # NoRow => read[q].handle \in Nat
        BY <1>0 DEF TypeOK, Row
      <3> QED BY <2>1, <2>3, <2>5, <3>1 DEF LiveInv, PublishedIsLive, ReadIsLive
    <2> QED BY <1>0, <2>4, <2>6, <2>7 DEF LiveInv
  <1> QED BY <1>1, <1>2

(* The parts of the invariant hold in every reachable state: the handles rows
   carry exist, an upload accepted for a row is recorded before the row reads
   published, and every copy of a published row held in memory is of a live
   upload (engine.py 603-664, 1326-1336; the full saves of views.py). *)
THEOREM LiveInvariant == Spec => []LiveInv
  <1>1. LiveInv /\ [Next]_vars => LiveInv'
    <2> SUFFICES ASSUME LiveInv, [Next]_vars PROVE LiveInv'
      OBVIOUS
    <2>1. ASSUME NEW w \in Workers, Cycle(w) \/ StartSweep(w) \/ Crash(w) PROVE LiveInv'
      BY <2>1, LiveCycle
    <2>2. ASSUME NEW w \in Workers, NEW r \in Rows, Thread(w, r) PROVE LiveInv'
      BY <2>2, LiveThread
    <2>3. ASSUME NEW r \in Rows, User(r) \/ Clock(r) \/ PlatformFinishes(r) PROVE LiveInv'
      BY <2>3, LiveUser, LiveClock
    <2>4. CASE UNCHANGED vars
      BY <2>4 DEF vars, ghosts, LiveInv, TypeOK, HandlesExist, AcceptedIsUploaded,
                  ReadIsLive, SyncIsLive, PublishedIsLive, IsLive
    <2> QED BY <2>1, <2>2, <2>3, <2>4 DEF Next
  <1> QED BY LiveInit, <1>1, PTL DEF Spec

(* A post reads "Published" only when the platform has it live, whatever   *)
(* the number of rows, of engine processes, of kills, of overtaken web     *)
(* writes and of failing log inserts (engine.py 590-604, 1226-1231).       *)
THEOREM PublishedAlwaysLive == Spec => []PublishedIsLive
  BY LiveInvariant, PTL DEF LiveInv

-----------------------------------------------------------------------------
(* The hold and the publish group                                          *)

(* The group that dispatches found no row of the post on hold when it took *)
(* its locks, however late after the due query the hold was placed and     *)
(* however many engines run (engine.py 438-466).                           *)
THEOREM GroupRespectsHold == Spec => GroupNeverClaimsHeldPost
  <1>1. TypeOK /\ [Next]_vars =>
          [\A w \in Workers : (phase[w] = "batch" /\ phase'[w] = "publishing") => ~Held]_vars
    <2> SUFFICES ASSUME TypeOK, Next, NEW w \in Workers,
                        phase[w] = "batch", phase'[w] = "publishing"
                 PROVE  ~Held
      OBVIOUS
    <2> USE DEF ghosts
    <2>1. ASSUME NEW v \in Workers, ClaimGroup(v) PROVE ~Held
      <3>1. v = w
        BY <2>1 DEF ClaimGroup, TypeOK
      <3>2. Claimable(w) # {}
        BY <2>1, <3>1 DEF ClaimGroup, TypeOK
      <3> QED BY <3>2 DEF Claimable
    <2>2. ASSUME NEW v \in Workers,
                 Poll(v) \/ JoinGroup(v) \/ QueryRetries(v) \/ CycleDone(v)
                   \/ StartSweep(v) \/ Crash(v)
          PROVE  ~Held
      BY <2>2 DEF Poll, JoinGroup, QueryRetries, CycleDone, StartSweep, Crash, TypeOK
    <2>3. ASSUME NEW v \in Workers, NEW r \in Rows, Thread(v, r) PROVE ~Held
      BY <2>3 DEF Thread, CheckHold, ClaimRetry, Refused, Accepted, AcceptedUnclear,
                  SaveSuccess, WriteLog, FailureUnlogged, ScheduleRetry, GiveUp, ConfirmOne
    <2>4. ASSUME NEW r \in Rows, User(r) \/ Clock(r) \/ PlatformFinishes(r) PROVE ~Held
      BY <2>4 DEF User, Request, ReadRow, FinishRequest, Clock, BecomesDue, BackoffEnds,
                  Ages, PlatformFinishes
    <2> QED BY <2>1, <2>2, <2>3, <2>4 DEF Next, Cycle
  <1> QED BY TypeCorrect, <1>1, PTL DEF Spec, GroupNeverClaimsHeldPost

-----------------------------------------------------------------------------
(* One engine between two deliberate schedules.                            *)

OneEngine == \A v, w \in Workers : v = w

\* No web request is between its read and its write.
NoneRead == \A r \in Rows : read[r] = NoRow

-----------------------------------------------------------------------------
(* What a step does to the row q, as far as these proofs look              *)

KeepsJobs(q) == \A v \in Workers : job'[v][q] = job[v][q]
KeepsOthers(w, q) == \A v \in Workers : v # w => job'[v][q] = job[v][q]
KeepsUploads(q) == uploads'[q] = uploads[q]
KeepsCalls(q) == calls'[q] = calls[q] /\ unclear'[q] = unclear[q]
KeepsGhosts(q) ==
  epoch'[q] = epoch[q] /\ KeepsCalls(q) /\ (q \in overridden' <=> q \in overridden)
KeepsFields(q) == rows'[q].retry = rows[q].retry /\ rows'[q].handle = rows[q].handle
KeepsRow(q) == rows'[q].status = rows[q].status /\ KeepsFields(q)

\* Uploads that were refused stay refused, and none is added.
Settles(q) ==
  /\ Len(uploads'[q]) = Len(uploads[q])
  /\ \A n \in 1..Len(uploads[q]) :
       /\ uploads'[q][n].epoch = uploads[q][n].epoch
       /\ uploads[q][n].state = "refused" => uploads'[q][n].state = "refused"

Grows(q) ==
  /\ Len(uploads'[q]) = Len(uploads[q]) + 1
  /\ \A n \in 1..Len(uploads[q]) : uploads'[q][n] = uploads[q][n]
  /\ uploads'[q][Len(uploads[q]) + 1].epoch = epoch[q]

Stays(q) == KeepsRow(q) /\ KeepsJobs(q) /\ KeepsGhosts(q) /\ Settles(q)

Scheduled(q) ==
  /\ rows'[q].status = "scheduled" /\ rows'[q].retry = 0 /\ rows'[q].handle = 0
  /\ epoch'[q] = epoch[q] + 1 /\ calls'[q] = 0 /\ unclear'[q] = unclear[q]
  /\ q \in overridden' <=> (q \in overridden \/ rows[q].status = "publishing")
  /\ KeepsJobs(q) /\ KeepsUploads(q)

Moved(q) ==
  /\ rows[q].status # "published"
  /\ rows'[q].status # "scheduled" /\ KeepsFields(q)
  /\ epoch'[q] = epoch[q] /\ KeepsCalls(q)
  /\ q \in overridden' <=> (q \in overridden \/ rows[q].status = "publishing")
  /\ KeepsJobs(q) /\ KeepsUploads(q)

\* The steps of an engine: j is its thread on the row, k the thread after it.
Leaves(j, k, q) == k = NoJob /\ KeepsRow(q) /\ KeepsGhosts(q) /\ KeepsUploads(q)

Claims(j, k, q) ==
  /\ rows[q].status = "scheduled" /\ rows'[q].status = "publishing" /\ KeepsFields(q)
  /\ \E w \in Workers : q \in batch[w]
  /\ k = [pc |-> "dispatch", obj |-> rows[q], upload |-> 0]
  /\ KeepsGhosts(q) /\ KeepsUploads(q)

Queues(j, k, q) ==
  /\ RetryDue(q) /\ KeepsRow(q)
  /\ k = [pc |-> "queued", obj |-> rows[q], upload |-> 0]
  /\ KeepsGhosts(q) /\ KeepsUploads(q)

Checks(j, k, q) ==
  /\ j.pc = "queued" /\ k.pc = "checked" /\ k.obj = j.obj
  /\ KeepsRow(q) /\ KeepsGhosts(q) /\ KeepsUploads(q)

Reclaims(j, k, q) ==
  /\ j.pc = "checked" /\ k.pc = "dispatch" /\ k.obj = j.obj
  /\ rows'[q].status = "publishing" /\ KeepsFields(q)
  /\ KeepsGhosts(q) /\ KeepsUploads(q)

Tries(j, k, q) ==
  /\ j.pc = "dispatch" /\ k.obj = j.obj /\ KeepsRow(q)
  /\ epoch'[q] = epoch[q] /\ (q \in overridden' <=> q \in overridden)
  /\ calls'[q] <= calls[q] + 1
  /\ \/ k.pc \in {"retryable", "permanent"} /\ KeepsUploads(q) /\ unclear'[q] = unclear[q]
     \/ k.pc \in {"retryable", "permanent"} /\ Grows(q) /\ unclear'[q] = unclear[q] + 1
     \/ /\ k.pc = "accepted" /\ Grows(q) /\ unclear'[q] = unclear[q]
        /\ k.upload = Len(uploads[q]) + 1

Records(j, k, q) ==
  /\ j.pc = "accepted" /\ (k.pc = "none" \/ (WriteErrors /\ k.pc = "logging"))
  /\ rows'[q].status \in {"publishing", "published"}
  /\ rows'[q].retry = 0 /\ rows'[q].handle = j.upload
  /\ KeepsGhosts(q) /\ KeepsUploads(q)

Misreads(j, k, q) ==
  /\ j.pc = "logging" /\ k.pc = "retryable" /\ k.obj = j.obj
  /\ KeepsRow(q) /\ KeepsGhosts(q) /\ KeepsUploads(q)

Reschedules(j, k, q) ==
  /\ j.pc = "retryable" /\ j.obj.retry < MAX_RETRIES /\ k = NoJob
  /\ rows'[q].status = "scheduled" /\ rows'[q].retry = j.obj.retry + 1
  /\ rows'[q].handle = j.obj.handle
  /\ KeepsGhosts(q) /\ KeepsUploads(q)

Fails(j, k, q) ==
  /\ rows[q].status = "publishing" /\ rows'[q].status = "failed" /\ KeepsFields(q)
  /\ k = NoJob /\ KeepsGhosts(q) /\ KeepsUploads(q)

Sweeps(j, k, q) ==
  /\ rows[q].status = "publishing" /\ KeepsRow(q)
  /\ k = [pc |-> "sweep", obj |-> rows[q], upload |-> 0]
  /\ KeepsGhosts(q) /\ KeepsUploads(q)

Confirms(j, k, q) ==
  /\ j.pc = "sweep" /\ "publish" \in ConfirmVerdicts(q, j.obj)
  /\ rows'[q].status = "published" /\ rows'[q].handle = j.obj.handle
  /\ k = NoJob /\ KeepsGhosts(q) /\ KeepsUploads(q)

EngineStep(j, k, q) ==
  \/ Leaves(j, k, q) \/ Claims(j, k, q) \/ Queues(j, k, q) \/ Checks(j, k, q)
  \/ Reclaims(j, k, q) \/ Tries(j, k, q) \/ Records(j, k, q) \/ Misreads(j, k, q)
  \/ Reschedules(j, k, q) \/ Fails(j, k, q) \/ Sweeps(j, k, q) \/ Confirms(j, k, q)

RowStep(q) ==
  \/ Stays(q) \/ Scheduled(q) \/ Moved(q)
  \/ \E w \in Workers : KeepsOthers(w, q) /\ EngineStep(job[w][q], job'[w][q], q)

-----------------------------------------------------------------------------
(* Every step of the engine, of a request, of the clock or of the platform *)
(* is one of these for each row.                                           *)

LEMMA StaysWhenAllStays ==
  ASSUME TypeOK, NEW q \in Rows,
         rows'[q] = rows[q], KeepsJobs(q), uploads'[q] = uploads[q], UNCHANGED ghosts
  PROVE  Stays(q)
  BY DEF Stays, KeepsRow, KeepsFields, KeepsGhosts, KeepsCalls, Settles, ghosts

(* The tasks of a worker, as a row sees them.                              *)
LEMMA CycleOfRow ==
  ASSUME TypeOK, NEW q \in Rows, NEW w \in Workers,
         Cycle(w) \/ StartSweep(w) \/ Crash(w)
  PROVE  RowStep(q)
  <1> USE DEF ghosts
  <1>a. \A j : UNCHANGED <<rows, uploads, ghosts>> => KeepsRow(q) /\ KeepsGhosts(q) /\ KeepsUploads(q)
    BY DEF KeepsRow, KeepsFields, KeepsGhosts, KeepsCalls, KeepsUploads
  <1>1. CASE Poll(w) \/ JoinGroup(w) \/ CycleDone(w)
    <2>1. rows'[q] = rows[q] /\ KeepsJobs(q) /\ uploads'[q] = uploads[q] /\ UNCHANGED ghosts
      BY <1>1 DEF Poll, JoinGroup, CycleDone, KeepsJobs
    <2> QED BY <2>1, StaysWhenAllStays DEF RowStep
  <1>2. CASE ClaimGroup(w)
    <2>1. /\ rows'[q] = IF q \in Claimable(w) THEN Claimed(q) ELSE rows[q]
          /\ job'[w][q] = IF q \in Claimable(w)
                            THEN [pc |-> "dispatch", obj |-> rows[q], upload |-> 0] ELSE NoJob
          /\ KeepsOthers(w, q) /\ UNCHANGED <<uploads, ghosts>>
      BY <1>2 DEF ClaimGroup, KeepsOthers, TypeOK
    <2>2. KeepsGhosts(q) /\ KeepsUploads(q)
      BY <2>1 DEF KeepsGhosts, KeepsCalls, KeepsUploads
    <2>3. CASE q \in Claimable(w)
      <3>1. rows[q].status = "scheduled" /\ q \in batch[w]
        BY <2>3 DEF Claimable
      <3>2. rows'[q].status = "publishing" /\ KeepsFields(q)
        BY <2>1, <2>3 DEF Claimed, KeepsFields, TypeOK, Row
      <3> QED BY <2>1, <2>2, <2>3, <3>1, <3>2 DEF RowStep, EngineStep, Claims
    <2>4. CASE q \notin Claimable(w)
      BY <2>1, <2>2, <2>4 DEF RowStep, EngineStep, Leaves, KeepsRow, KeepsFields
    <2> QED BY <2>3, <2>4
  <1>3. CASE QueryRetries(w)
    <2>1. /\ job'[w][q] = IF RetryDue(q) THEN [pc |-> "queued", obj |-> rows[q], upload |-> 0]
                                         ELSE NoJob
          /\ KeepsOthers(w, q) /\ UNCHANGED <<rows, uploads, ghosts>>
      BY <1>3 DEF QueryRetries, KeepsOthers, TypeOK
    <2> QED BY <1>a, <2>1 DEF RowStep, EngineStep, Leaves, Queues
  <1>4. CASE StartSweep(w)
    <2>1. /\ job'[w][q] = IF rows[q].status = "publishing"
                            THEN [pc |-> "sweep", obj |-> rows[q], upload |-> 0] ELSE NoJob
          /\ KeepsOthers(w, q) /\ UNCHANGED <<rows, uploads, ghosts>>
      BY <1>4 DEF StartSweep, KeepsOthers, TypeOK
    <2> QED BY <1>a, <2>1 DEF RowStep, EngineStep, Leaves, Sweeps
  <1>5. CASE Crash(w)
    <2>1. job'[w][q] = NoJob /\ KeepsOthers(w, q) /\ UNCHANGED <<rows, uploads, ghosts>>
      BY <1>5 DEF Crash, KeepsOthers, TypeOK
    <2> QED BY <1>a, <2>1 DEF RowStep, EngineStep, Leaves
  <1> QED BY <1>1, <1>2, <1>3, <1>4, <1>5 DEF Cycle

(* A thread on another row is nothing to this one.                         *)
LEMMA ThreadOfOther ==
  ASSUME TypeOK, NEW q \in Rows, NEW w \in Workers, NEW r \in Rows, Thread(w, r), q # r
  PROVE  Stays(q)
  <1> USE DEF ghosts
  <1>a. FailPermanently(r) => rows'[q] = rows[q]
    BY DEF FailPermanently, TypeOK
  <1>b. EndJob(w, r) => KeepsJobs(q)
    BY DEF EndJob, SetJob, KeepsJobs, TypeOK
  <1>s. \A x : job' = [job EXCEPT ![w][r] = x] => KeepsJobs(q)
    BY DEF KeepsJobs, TypeOK
  <1>p. \A pc : job' = [job EXCEPT ![w][r].pc = pc] => KeepsJobs(q)
    BY DEF KeepsJobs, TypeOK
  <1>c. Accept(r) => uploads'[q] = uploads[q]
    BY AcceptAppends
  <1>d. Attempt(r) => calls'[q] = calls[q]
    BY DEF Attempt, TypeOK
  <1>1. CASE CheckHold(w, r) \/ ClaimRetry(w, r) \/ WriteLog(w, r) \/ FailureUnlogged(w, r)
    <2>1. rows'[q] = rows[q] /\ KeepsJobs(q) /\ uploads'[q] = uploads[q] /\ UNCHANGED ghosts
      <3>1. KeepsJobs(q) /\ uploads'[q] = uploads[q] /\ UNCHANGED ghosts
        BY <1>1, <1>b, <1>p DEF CheckHold, ClaimRetry, WriteLog, FailureUnlogged
      <3>2. rows'[q] = rows[q]
        BY <1>1 DEF CheckHold, ClaimRetry, WriteLog, FailureUnlogged, TypeOK
      <3> QED BY <3>1, <3>2
    <2> QED BY <2>1, StaysWhenAllStays
  <1>2. CASE Refused(w, r) \/ Accepted(w, r) \/ AcceptedUnclear(w, r)
    <2>1. /\ rows'[q] = rows[q] /\ KeepsJobs(q) /\ uploads'[q] = uploads[q]
          /\ UNCHANGED <<epoch, overridden>> /\ calls'[q] = calls[q] /\ unclear'[q] = unclear[q]
      <3>1. CASE Refused(w, r)
        BY <1>d, <1>p, <3>1 DEF Refused
      <3>2. CASE Accepted(w, r)
        <4>1. KeepsJobs(q)
          BY <3>2 DEF Accepted, KeepsJobs, TypeOK
        <4> QED BY <1>c, <1>d, <3>2, <4>1 DEF Accepted
      <3>3. CASE AcceptedUnclear(w, r)
        BY <1>c, <1>d, <1>p, <3>3 DEF AcceptedUnclear, TypeOK
      <3> QED BY <1>2, <3>1, <3>2, <3>3
    <2> QED BY <2>1 DEF Stays, KeepsRow, KeepsFields, KeepsGhosts, KeepsCalls, Settles
  <1>3. CASE SaveSuccess(w, r)
    <2>1. rows'[q] = rows[q] /\ KeepsJobs(q) /\ uploads'[q] = uploads[q] /\ UNCHANGED ghosts
      <3>1. KeepsJobs(q)
        BY <1>3, <1>b, <1>s DEF SaveSuccess, SetJob
      <3>2. rows'[q] = rows[q]
        BY <1>3 DEF SaveSuccess, TypeOK
      <3> QED BY <1>3, <3>1, <3>2 DEF SaveSuccess
    <2> QED BY <2>1, StaysWhenAllStays
  <1>4. CASE ScheduleRetry(w, r) \/ GiveUp(w, r) \/ ConfirmOne(w, r)
    <2>1. rows'[q] = rows[q]
      BY <1>4, <1>a DEF ScheduleRetry, GiveUp, ConfirmOne, MarkConfirmedPublished, TypeOK
    <2>2. KeepsJobs(q) /\ uploads'[q] = uploads[q] /\ UNCHANGED ghosts
      BY <1>4, <1>b DEF ScheduleRetry, GiveUp, ConfirmOne
    <2> QED BY <2>1, <2>2, StaysWhenAllStays
  <1> QED BY <1>1, <1>2, <1>3, <1>4 DEF Thread

(* The thread on the row itself.                                           *)
LEMMA ThreadOfRow ==
  ASSUME TypeOK, NEW q \in Rows, NEW w \in Workers, Thread(w, q)
  PROVE  KeepsOthers(w, q) /\ EngineStep(job[w][q], job'[w][q], q)
  <1> USE DEF ghosts
  <1> DEFINE j == job[w][q]
             k == job'[w][q]
  <1>0. j \in Job /\ j.obj \in Row /\ rows[q] \in Row /\ j.upload \in Nat
    BY JobTypes DEF Job
  <1>a. UNCHANGED <<rows, uploads, ghosts>> => KeepsRow(q) /\ KeepsGhosts(q) /\ KeepsUploads(q)
    BY DEF KeepsRow, KeepsFields, KeepsGhosts, KeepsCalls, KeepsUploads
  <1>b. EndJob(w, q) => k = NoJob /\ KeepsOthers(w, q)
    BY DEF EndJob, SetJob, KeepsOthers, TypeOK
  <1>c. \A pc \in JobPc : job' = [job EXCEPT ![w][q].pc = pc]
                            => k.pc = pc /\ k.obj = j.obj /\ KeepsOthers(w, q)
    BY <1>0 DEF KeepsOthers, TypeOK, Job
  <1>d. UNCHANGED <<uploads, ghosts>> => KeepsGhosts(q) /\ KeepsUploads(q)
    BY DEF KeepsGhosts, KeepsCalls, KeepsUploads
  <1>e. ASSUME FailPermanently(q)
        PROVE  \/ rows' = rows
               \/ /\ rows[q].status = "publishing" /\ rows'[q].status = "failed"
                  /\ KeepsFields(q)
    BY <1>e, <1>0 DEF FailPermanently, FailedRow, KeepsFields, TypeOK, Row
  <1>f. ASSUME FailPermanently(q), EndJob(w, q), UNCHANGED <<uploads, ghosts>>
        PROVE  Leaves(j, k, q) \/ Fails(j, k, q)
    <2>1. k = NoJob /\ KeepsGhosts(q) /\ KeepsUploads(q)
      BY <1>f, <1>b, <1>d
    <2>2. CASE rows' = rows
      BY <2>1, <2>2, <1>a, <1>f DEF Leaves, KeepsRow, KeepsFields
    <2>3. CASE rows[q].status = "publishing" /\ rows'[q].status = "failed" /\ KeepsFields(q)
      BY <2>1, <2>3 DEF Fails
    <2> QED BY <1>e, <1>f, <2>2, <2>3
  <1>g. Attempt(q) => calls'[q] <= calls[q] + 1
    BY DEF Attempt, TypeOK
  <1>h. Accept(q) => Grows(q)
    <2>1. Accept(q) => uploads'[q][Len(uploads[q]) + 1].epoch = epoch[q]
      BY DEF Accept, TypeOK
    <2> QED BY <2>1, AcceptAppends DEF Grows
  <1>i. {"checked", "dispatch", "retryable", "permanent", "accepted"} \subseteq JobPc
    BY DEF JobPc
  <1>1. CASE CheckHold(w, q)
    <2>1. UNCHANGED <<rows, uploads, ghosts>> /\ j.pc = "queued"
      BY <1>1 DEF CheckHold
    <2>2. CASE EndJob(w, q)
      BY <1>a, <1>b, <2>1, <2>2 DEF EngineStep, Leaves
    <2>3. CASE job' = [job EXCEPT ![w][q].pc = "checked"]
      BY <1>a, <1>c, <1>i, <2>1, <2>3 DEF EngineStep, Checks
    <2> QED BY <1>1, <2>2, <2>3 DEF CheckHold
  <1>2. CASE ClaimRetry(w, q)
    <2>1. j.pc = "checked" /\ UNCHANGED <<uploads, ghosts>>
          /\ job' = [job EXCEPT ![w][q].pc = "dispatch"]
      BY <1>2 DEF ClaimRetry
    <2>2. rows'[q].status = "publishing" /\ KeepsFields(q)
      BY <1>0, <1>2 DEF ClaimRetry, Claimed, KeepsFields, TypeOK, Row
    <2> QED BY <1>c, <1>d, <1>i, <2>1, <2>2 DEF EngineStep, Reclaims
  <1>3. CASE Refused(w, q) \/ Accepted(w, q) \/ AcceptedUnclear(w, q)
    <2>1. /\ j.pc = "dispatch" /\ Attempt(q) /\ UNCHANGED <<rows, epoch, overridden>>
          /\ KeepsRow(q)
      BY <1>3 DEF Refused, Accepted, AcceptedUnclear, KeepsRow, KeepsFields
    <2>2. CASE Refused(w, q)
      <3>1. k.pc \in {"retryable", "permanent"} /\ k.obj = j.obj /\ KeepsOthers(w, q)
        BY <1>c, <1>i, <2>2 DEF Refused
      <3>2. KeepsUploads(q) /\ unclear'[q] = unclear[q]
        BY <2>2 DEF Refused, KeepsUploads
      <3> QED BY <1>g, <2>1, <3>1, <3>2 DEF EngineStep, Tries
    <2>3. CASE Accepted(w, q)
      <3>1. Len(uploads[q]) + 1 \in Nat
        BY DEF TypeOK
      <3>2. /\ k.pc = "accepted" /\ k.obj = j.obj /\ k.upload = Len(uploads[q]) + 1
            /\ KeepsOthers(w, q)
        BY <1>0, <2>3, <3>1 DEF Accepted, KeepsOthers, TypeOK, Job
      <3>3. Accept(q) /\ unclear'[q] = unclear[q]
        BY <2>3 DEF Accepted
      <3> QED BY <1>g, <1>h, <2>1, <3>2, <3>3 DEF EngineStep, Tries
    <2>4. CASE AcceptedUnclear(w, q)
      <3>1. k.pc \in {"retryable", "permanent"} /\ k.obj = j.obj /\ KeepsOthers(w, q)
        BY <1>c, <1>i, <2>4 DEF AcceptedUnclear
      <3>2. Accept(q) /\ unclear'[q] = unclear[q] + 1
        BY <2>4 DEF AcceptedUnclear, TypeOK
      <3> QED BY <1>g, <1>h, <2>1, <3>1, <3>2 DEF EngineStep, Tries
    <2> QED BY <1>3, <2>2, <2>3, <2>4
  <1>4. CASE SaveSuccess(w, q)
    <2> DEFINE new == SuccessRow(q, j.obj, j.upload)
    <2>1. /\ j.pc = "accepted" /\ UNCHANGED <<uploads, ghosts>>
          /\ rows' = [rows EXCEPT ![q] = new]
          /\ IF WriteErrors THEN SetJob(w, q, [j EXCEPT !.pc = "logging", !.obj = new])
                            ELSE EndJob(w, q)
      BY <1>4 DEF SaveSuccess
    <2>2. new.status \in {"publishing", "published"} /\ new.retry = 0 /\ new.handle = j.upload
      BY <1>0 DEF SuccessRow, Row
    <2>3. rows'[q] = new
      BY <2>1 DEF TypeOK
    <2>4. KeepsOthers(w, q) /\ (k.pc = "none" \/ (WriteErrors /\ k.pc = "logging"))
      <3>1. CASE WriteErrors
        <4>1. SetJob(w, q, [j EXCEPT !.pc = "logging", !.obj = new])
          BY <2>1, <3>1
        <4>2. k = [j EXCEPT !.pc = "logging", !.obj = new] /\ KeepsOthers(w, q)
          BY <4>1 DEF SetJob, KeepsOthers, TypeOK
        <4>3. k.pc = "logging"
          BY <1>0, <4>2 DEF Job
        <4> QED BY <3>1, <4>2, <4>3
      <3>2. CASE ~WriteErrors
        <4>1. EndJob(w, q)
          BY <2>1, <3>2
        <4>2. k = NoJob /\ KeepsOthers(w, q)
          BY <1>b, <4>1
        <4>3. NoJob.pc = "none"
          BY DEF NoJob
        <4> QED BY <4>2, <4>3
      <3> QED BY <3>1, <3>2
    <2> HIDE DEF new
    <2> QED BY <1>d, <2>1, <2>2, <2>3, <2>4 DEF EngineStep, Records
  <1>5. CASE WriteLog(w, q)
    <2>1. UNCHANGED <<rows, uploads, ghosts>> /\ j.pc = "logging"
      BY <1>5 DEF WriteLog
    <2>2. CASE EndJob(w, q)
      BY <1>a, <1>b, <2>1, <2>2 DEF EngineStep, Leaves
    <2>3. CASE job' = [job EXCEPT ![w][q].pc = "retryable"]
      BY <1>a, <1>c, <1>i, <2>1, <2>3 DEF EngineStep, Misreads
    <2> QED BY <1>5, <2>2, <2>3 DEF WriteLog
  <1>6. CASE FailureUnlogged(w, q)
    BY <1>a, <1>b, <1>6 DEF FailureUnlogged, EngineStep, Leaves
  <1>7. CASE ScheduleRetry(w, q)
    <2>1. j.pc = "retryable" /\ EndJob(w, q) /\ UNCHANGED <<uploads, ghosts>>
      BY <1>7 DEF ScheduleRetry
    <2>2. CASE Exhausted(j.obj)
      <3>1. FailPermanently(q)
        BY <1>7, <2>2 DEF ScheduleRetry
      <3> QED BY <1>b, <1>f, <2>1, <3>1 DEF EngineStep
    <2>3. CASE ~Exhausted(j.obj)
      <3>1. j.obj.retry < MAX_RETRIES
        BY <1>0, <2>3, PublisherAssumption DEF Exhausted, Row
      <3>2. rows'[q] = RetryRow(j.obj)
        BY <1>7, <2>3 DEF ScheduleRetry, TypeOK
      <3>3. /\ rows'[q].status = "scheduled" /\ rows'[q].retry = j.obj.retry + 1
            /\ rows'[q].handle = j.obj.handle
        BY <1>0, <3>2 DEF RetryRow, Row
      <3> QED BY <1>b, <1>d, <2>1, <3>1, <3>3 DEF EngineStep, Reschedules
    <2> QED BY <2>2, <2>3
  <1>8. CASE GiveUp(w, q)
    BY <1>b, <1>f, <1>8 DEF GiveUp, EngineStep
  <1>9. CASE ConfirmOne(w, q)
    <2>1. j.pc = "sweep" /\ EndJob(w, q) /\ UNCHANGED <<uploads, ghosts>>
      BY <1>9 DEF ConfirmOne
    <2>2. PICK verdict \in ConfirmVerdicts(q, j.obj) :
            CASE verdict = "publish" -> MarkConfirmedPublished(q, j.obj)
              [] verdict = "fail"    -> FailPermanently(q)
              [] OTHER               -> UNCHANGED rows
      BY <1>9 DEF ConfirmOne
    <2>3. CASE verdict = "publish"
      <3>1. rows'[q] = [j.obj EXCEPT !.status = "published", !.age = 0]
        BY <2>2, <2>3 DEF MarkConfirmedPublished, TypeOK
      <3>2. rows'[q].status = "published" /\ rows'[q].handle = j.obj.handle
        BY <1>0, <3>1 DEF Row
      <3> QED BY <1>b, <1>d, <2>1, <2>3, <3>2 DEF EngineStep, Confirms
    <2>4. CASE verdict = "fail"
      <3>1. FailPermanently(q)
        BY <2>2, <2>4
      <3> QED BY <1>b, <1>f, <2>1, <3>1 DEF EngineStep
    <2>5. CASE verdict \notin {"publish", "fail"}
      <3>1. UNCHANGED rows
        BY <2>2, <2>5
      <3> QED BY <1>a, <1>b, <2>1, <3>1 DEF EngineStep, Leaves
    <2> QED BY <2>3, <2>4, <2>5
  <1> QED BY <1>1, <1>2, <1>3, <1>4, <1>5, <1>6, <1>7, <1>8, <1>9 DEF Thread

(* Requests that are not overtaken, and time.                              *)
LEMMA UserOfRow ==
  ASSUME TypeOK, NoneRead, NEW q \in Rows, NEW r \in Rows,
         User(r) \/ Clock(r) \/ PlatformFinishes(r)
  PROVE  Stays(q) \/ Scheduled(q) \/ Moved(q)
  <1> USE DEF ghosts
  <1>0. rows[q] \in Row /\ rows[r] \in Row
    BY DEF TypeOK
  <1>1. CASE Request(r)
    <2>1. Apply(r, rows[r]) /\ UNCHANGED <<uploads, job, unclear>>
      BY <1>1 DEF Request
    <2>2. KeepsJobs(q) /\ KeepsUploads(q) /\ Settles(q)
      BY <2>1 DEF KeepsJobs, KeepsUploads, Settles
    <2>3. CASE q # r
      <3>1. /\ rows'[q] = rows[q] /\ epoch'[q] = epoch[q] /\ calls'[q] = calls[q]
            /\ q \in overridden' <=> q \in overridden
        BY <2>1, <2>3 DEF Apply, Schedule, Edit, MoveTo, Write, TypeOK
      <3> QED BY <2>1, <2>2, <3>1 DEF Stays, KeepsRow, KeepsFields, KeepsGhosts, KeepsCalls
    <2>4. CASE q = r /\ Schedule(r, rows[r])
      <3>1. \E due \in BOOLEAN : rows'[q] = [Requeued(rows[q]) EXCEPT !.due = due, !.age = 0]
        BY <2>4 DEF Schedule, Write, TransitionTo, TypeOK
      <3>2. rows'[q].status = "scheduled" /\ rows'[q].retry = 0 /\ rows'[q].handle = 0
        BY <1>0, <3>1 DEF Requeued, Row
      <3>3. /\ epoch'[q] = epoch[q] + 1 /\ calls'[q] = 0 /\ unclear'[q] = unclear[q]
            /\ q \in overridden' <=> (q \in overridden \/ rows[q].status = "publishing")
        BY <2>1, <2>4 DEF Schedule, TypeOK
      <3> QED BY <2>2, <3>2, <3>3 DEF Scheduled
    <2>5. CASE q = r /\ Edit(r, rows[r])
      <3>1. \E due \in BOOLEAN : rows'[q] = [rows[q] EXCEPT !.due = due, !.age = 0]
        BY <2>5 DEF Edit, Write, TypeOK
      <3>2. KeepsRow(q)
        BY <1>0, <3>1 DEF KeepsRow, KeepsFields, Row
      <3> QED BY <2>1, <2>2, <2>5, <3>2 DEF Stays, KeepsGhosts, KeepsCalls, Edit
    <2>6. ASSUME NEW to \in RowStatus, q = r, MoveTo(r, rows[r], to)
          PROVE  Moved(q)
      <3>1. to # "scheduled"
            /\ rows'[q] = [[rows[q] EXCEPT !.status = to] EXCEPT !.due = rows[q].due, !.age = 0]
        BY <2>6 DEF MoveTo, Write, TransitionTo, TypeOK
      <3>2. rows'[q].status # "scheduled" /\ KeepsFields(q)
        BY <1>0, <3>1 DEF KeepsFields, Row
      <3>3. /\ epoch'[q] = epoch[q] /\ KeepsCalls(q)
            /\ q \in overridden' <=> (q \in overridden \/ rows[q].status = "publishing")
        BY <2>1, <2>6 DEF MoveTo, KeepsCalls, TypeOK
      <3>4. rows[q].status # "published"
        BY <2>6 DEF MoveTo, CanTransition, VALID_TRANSITIONS
      <3> QED BY <2>2, <3>2, <3>3, <3>4 DEF Moved
    <2> QED BY <2>1, <2>3, <2>4, <2>5, <2>6 DEF Apply
  <1>2. CASE ReadRow(r)
    BY <1>2, StaysWhenAllStays DEF ReadRow, KeepsJobs
  <1>3. ~FinishRequest(r)
    BY DEF FinishRequest, NoneRead
  <1>4. CASE Clock(r)
    <2>1. UNCHANGED <<uploads, job, ghosts>>
      BY <1>4 DEF Clock, BecomesDue, BackoffEnds, Ages
    <2>2. KeepsRow(q)
      <3>1. CASE BecomesDue(r)
        BY <1>0, <3>1 DEF BecomesDue, KeepsRow, KeepsFields, TypeOK, Row
      <3>2. CASE BackoffEnds(r)
        BY <1>0, <3>2 DEF BackoffEnds, KeepsRow, KeepsFields, TypeOK, Row
      <3>3. CASE Ages(r)
        BY <1>0, <3>3 DEF Ages, KeepsRow, KeepsFields, TypeOK, Row
      <3> QED BY <1>4, <3>1, <3>2, <3>3 DEF Clock
    <2> QED BY <2>1, <2>2 DEF Stays, KeepsJobs, KeepsGhosts, KeepsCalls, Settles
  <1>5. CASE PlatformFinishes(r)
    <2>1. UNCHANGED <<rows, job, ghosts>>
      BY <1>5 DEF PlatformFinishes
    <2>2. PICK n \in 1..Len(uploads[r]), outcome \in {"live", "refused"} :
            /\ uploads[r][n].state = "processing"
            /\ uploads' = [uploads EXCEPT ![r][n].state = outcome]
      BY <1>5 DEF PlatformFinishes
    <2>3. Len(uploads'[q]) = Len(uploads[q])
      BY <1>5, FinishSettlesOne
    <2>4. \A m \in 1..Len(uploads[q]) :
            /\ uploads'[q][m].epoch = uploads[q][m].epoch
            /\ uploads[q][m].state = "refused" => uploads'[q][m].state = "refused"
      <3>1. CASE q # r
        BY <2>2, <3>1 DEF TypeOK
      <3>2. CASE q = r
        <4>1. uploads[q] \in Seq(Upload) /\ \A m \in 1..Len(uploads[q]) : uploads[q][m] \in Upload
          BY ElementOfSeq DEF TypeOK
        <4>2. uploads'[q] = [uploads[q] EXCEPT ![n] = [uploads[q][n] EXCEPT !.state = outcome]]
          BY <2>2, <3>2 DEF TypeOK
        <4> QED BY <2>2, <3>2, <4>1, <4>2 DEF Upload
      <3> QED BY <3>1, <3>2
    <2> QED BY <2>1, <2>3, <2>4 DEF Stays, KeepsRow, KeepsFields, KeepsJobs, KeepsGhosts,
                                    KeepsCalls, Settles
  <1> QED BY <1>1, <1>2, <1>3, <1>4, <1>5 DEF User

LEMMA StepOfRow ==
  ASSUME TypeOK, NoneRead, [Next]_vars, NEW q \in Rows
  PROVE  RowStep(q)
  <1>1. ASSUME NEW w \in Workers, Cycle(w) \/ StartSweep(w) \/ Crash(w) PROVE RowStep(q)
    BY <1>1, CycleOfRow
  <1>2. ASSUME NEW w \in Workers, NEW r \in Rows, Thread(w, r) PROVE RowStep(q)
    BY <1>2, ThreadOfOther, ThreadOfRow DEF RowStep
  <1>3. ASSUME NEW r \in Rows, User(r) \/ Clock(r) \/ PlatformFinishes(r) PROVE RowStep(q)
    BY <1>3, UserOfRow DEF RowStep
  <1>4. CASE UNCHANGED vars
    BY <1>4, StaysWhenAllStays DEF vars, RowStep, KeepsJobs
  <1> QED BY <1>1, <1>2, <1>3, <1>4 DEF Next

(* The types are kept, and without overtaking no request is left between   *)
(* its read and its write.                                                 *)
LEMMA TypeStep == TypeOK /\ [Next]_vars => TypeOK'
  <1> SUFFICES ASSUME TypeOK, [Next]_vars PROVE TypeOK'
    OBVIOUS
  <1>1. ASSUME NEW w \in Workers, Cycle(w) \/ StartSweep(w) \/ Crash(w) PROVE TypeOK'
    BY <1>1, TypeCycle
  <1>2. ASSUME NEW w \in Workers, NEW r \in Rows, Thread(w, r) PROVE TypeOK'
    BY <1>2, TypeThread
  <1>3. ASSUME NEW r \in Rows, User(r) \/ Clock(r) \/ PlatformFinishes(r) PROVE TypeOK'
    BY <1>3, TypeUser, TypeClock
  <1>4. CASE UNCHANGED vars
    BY <1>4 DEF vars, ghosts, TypeOK
  <1> QED BY <1>1, <1>2, <1>3, <1>4 DEF Next

Base == TypeOK /\ NoneRead

LEMMA BaseHolds ==
  ASSUME Overtaking = FALSE
  PROVE  Spec => []Base
  <1>1. Init => NoneRead
    BY DEF Init, NoneRead
  <1>2. ASSUME NoneRead, [Next]_vars PROVE NoneRead'
    <2>1. ASSUME NEW w \in Workers, Cycle(w) \/ StartSweep(w) \/ Crash(w) PROVE UNCHANGED read
      BY <2>1 DEF Cycle, Poll, ClaimGroup, JoinGroup, QueryRetries, CycleDone, StartSweep, Crash
    <2>2. ASSUME NEW w \in Workers, NEW r \in Rows, Thread(w, r) PROVE UNCHANGED read
      BY <2>2 DEF Thread, CheckHold, ClaimRetry, Refused, Accepted, AcceptedUnclear, SaveSuccess,
                  WriteLog, FailureUnlogged, ScheduleRetry, GiveUp, ConfirmOne
    <2>3. ASSUME NEW r \in Rows, User(r) \/ Clock(r) \/ PlatformFinishes(r) PROVE UNCHANGED read
      BY <1>2, <2>3 DEF NoneRead, User, Request, ReadRow, FinishRequest, Clock, BecomesDue,
                        BackoffEnds, Ages, PlatformFinishes
    <2>4. CASE UNCHANGED vars
      BY <1>2, <2>4 DEF vars, NoneRead
    <2> QED BY <1>2, <2>1, <2>2, <2>3, <2>4 DEF Next, NoneRead
  <1> QED BY <1>1, <1>2, TypeInit, TypeStep, PTL DEF Spec, Base

-----------------------------------------------------------------------------
(* The retry budget                                                        *)
(*                                                                         *)
(* RetryBudget is not inductive: what bounds the calls is the retry count  *)
(* of the row, or of the copy of it a thread holds, and the two agree only *)
(* while nobody else writes the row.                                       *)

ThreadBudget(j, tried, status) ==
  /\ j.pc # "logging"
  /\ j.pc \in {"queued", "checked", "dispatch"} => tried <= j.obj.retry
  /\ j.pc \in {"accepted", "retryable", "permanent"} => tried <= j.obj.retry + 1
  /\ j.pc \in {"queued", "checked", "dispatch", "accepted", "retryable", "permanent"}
       => j.obj.retry <= MAX_RETRIES
  /\ j.pc \in {"dispatch", "accepted", "retryable", "permanent"}
       => status = "publishing"

BudgetAt(q) ==
  /\ calls[q] <= MAX_RETRIES + 1
  /\ rows[q].status = "scheduled" => calls[q] <= rows[q].retry /\ rows[q].retry <= MAX_RETRIES
  /\ \A w \in Workers : ThreadBudget(job[w][q], calls[q], rows[q].status)

BudgetInv == \A r \in Rows \ overridden : BudgetAt(r)

LEMMA BudgetStep ==
  ASSUME OneEngine, WriteErrors = FALSE, Base, BudgetInv, [Next]_vars
  PROVE  BudgetInv'
  <1> SUFFICES ASSUME NEW q \in Rows, q \notin overridden' PROVE BudgetAt(q)'
    BY DEF BudgetInv
  <1>1. RowStep(q)
    BY StepOfRow DEF Base
  <1>2. q \notin overridden
    BY <1>1 DEF RowStep, Stays, Scheduled, Moved, EngineStep, Leaves, Claims, Queues, Checks,
                Reclaims, Tries, Records, Misreads, Reschedules, Fails, Sweeps, Confirms, KeepsGhosts
  <1>3. BudgetAt(q)
    BY <1>2 DEF BudgetInv
  <1>4. /\ MAX_RETRIES \in Nat /\ calls[q] \in Nat /\ rows[q].retry \in Nat
        /\ calls'[q] \in Nat /\ rows'[q].retry \in Nat
        /\ \A w \in Workers : job[w][q].obj.retry \in Nat /\ job'[w][q].obj.retry \in Nat
    <2>1. TypeOK /\ TypeOK'
      BY TypeStep DEF Base
    <2>2. \A w \in Workers : job[w][q].obj \in Row /\ job'[w][q].obj \in Row
      BY <2>1 DEF TypeOK, Job
    <2>3. rows[q] \in Row /\ rows'[q] \in Row /\ calls[q] \in Nat /\ calls'[q] \in Nat
      BY <2>1 DEF TypeOK
    <2> QED BY <2>2, <2>3, PublisherAssumption DEF Row
  <1>5. CASE Stays(q)
    BY <1>3, <1>5 DEF Stays, KeepsRow, KeepsFields, KeepsJobs, KeepsGhosts, KeepsCalls,
                      BudgetAt, ThreadBudget
  <1>6. CASE Scheduled(q)
    BY <1>3, <1>4, <1>6 DEF Scheduled, KeepsJobs, BudgetAt, ThreadBudget
  <1>7. CASE Moved(q)
    BY <1>3, <1>4, <1>7 DEF Moved, KeepsFields, KeepsCalls, KeepsJobs, BudgetAt, ThreadBudget
  <1>8. ASSUME NEW w \in Workers, EngineStep(job[w][q], job'[w][q], q)
        PROVE  BudgetAt(q)'
    <2> DEFINE j == job[w][q]
               k == job'[w][q]
    <2>1. ThreadBudget(j, calls[q], rows[q].status)
      BY <1>3 DEF BudgetAt
    <2>2. SUFFICES /\ calls'[q] <= MAX_RETRIES + 1
                   /\ rows'[q].status = "scheduled"
                        => calls'[q] <= rows'[q].retry /\ rows'[q].retry <= MAX_RETRIES
                   /\ ThreadBudget(k, calls'[q], rows'[q].status)
      BY DEF BudgetAt, OneEngine
    <2>3. j.obj.retry \in Nat /\ k.obj.retry \in Nat
      BY <1>4
    <2>4. NoJob.pc = "none"
      BY DEF NoJob
    <2> HIDE DEF j, k
    <2>5. CASE Leaves(j, k, q) \/ Fails(j, k, q)
      BY <1>3, <1>4, <2>4, <2>5 DEF Leaves, Fails, KeepsRow, KeepsFields, KeepsGhosts, KeepsCalls,
                                    BudgetAt, ThreadBudget
    <2>6. CASE Claims(j, k, q)
      BY <1>3, <1>4, <2>6 DEF Claims, KeepsFields, KeepsGhosts, KeepsCalls, BudgetAt, ThreadBudget
    <2>7. CASE Queues(j, k, q)
      BY <1>3, <1>4, <2>7 DEF Queues, RetryDue, KeepsRow, KeepsFields, KeepsGhosts, KeepsCalls,
                              BudgetAt, ThreadBudget
    <2>8. CASE Checks(j, k, q) \/ Reclaims(j, k, q)
      BY <1>3, <1>4, <2>1, <2>3, <2>8 DEF Checks, Reclaims, KeepsRow, KeepsFields, KeepsGhosts,
                              KeepsCalls, BudgetAt, ThreadBudget
    <2>9. CASE Tries(j, k, q)
      BY <1>3, <1>4, <2>1, <2>3, <2>9 DEF Tries, KeepsRow, KeepsFields, BudgetAt, ThreadBudget
    <2>10. CASE Records(j, k, q)
      BY <1>3, <1>4, <2>10 DEF Records, KeepsGhosts, KeepsCalls, BudgetAt, ThreadBudget
    <2>11. ~Misreads(j, k, q)
      BY <2>1 DEF Misreads, ThreadBudget
    <2>12. CASE Reschedules(j, k, q)
      BY <1>3, <1>4, <2>1, <2>3, <2>4, <2>12 DEF Reschedules, KeepsGhosts, KeepsCalls, BudgetAt,
                                               ThreadBudget
    <2>13. CASE Sweeps(j, k, q)
      BY <1>3, <1>4, <2>13 DEF Sweeps, KeepsRow, KeepsFields, KeepsGhosts, KeepsCalls, BudgetAt,
                               ThreadBudget
    <2>14. CASE Confirms(j, k, q)
      BY <1>3, <1>4, <2>4, <2>14 DEF Confirms, KeepsGhosts, KeepsCalls, BudgetAt, ThreadBudget
    <2> QED BY <1>8, <2>5, <2>6, <2>7, <2>8, <2>9, <2>10, <2>11, <2>12, <2>13, <2>14
            DEF EngineStep, j, k
  <1> QED BY <1>1, <1>5, <1>6, <1>7, <1>8 DEF RowStep

(* A row is tried at most MAX_RETRIES + 1 times per deliberate schedule,   *)
(* however its attempts end and wherever the worker is killed, unless a    *)
(* user wrote over it in mid-flight (engine.py 1107-1172), for one engine  *)
(* whose log inserts go through and requests that are not overtaken.       *)
THEOREM RetriesWithinBudget ==
  ASSUME OneEngine, Overtaking = FALSE, WriteErrors = FALSE
  PROVE  Spec => []RetryBudget
  <1>1. Init => BudgetInv
    <2> SUFFICES ASSUME Init, NEW q \in Rows PROVE BudgetAt(q)
      BY DEF BudgetInv
    <2>1. rows[q].status \in {"draft", "approved"} /\ calls[q] = 0
      BY DEF Init, FreshRow
    <2>2. \A w \in Workers : job[w][q].pc = "none"
      BY DEF Init, NoJob
    <2> QED BY <2>1, <2>2, PublisherAssumption DEF BudgetAt, ThreadBudget
  <1>2. Base /\ BudgetInv /\ [Next]_vars => BudgetInv'
    BY BudgetStep
  <1>3. BudgetInv => RetryBudget
    BY DEF BudgetInv, BudgetAt, RetryBudget
  <1> QED BY BaseHolds, <1>1, <1>2, <1>3, PTL DEF Spec

-----------------------------------------------------------------------------
(* The sweep and the schedule                                              *)
(*                                                                         *)
(* A row that is queued has no handle, so the handle a row carries is of   *)
(* an upload of its present schedule; a thread carries none until the      *)
(* platform accepts, and the copy the sweep holds is of the row as it is.  *)

OfSchedule(q, n) == n \in 1..Len(uploads[q]) /\ uploads[q][n].epoch = epoch[q]

ThreadSchedule(j, q) ==
  /\ j.pc # "logging"
  /\ j.pc \in {"queued", "checked", "dispatch", "accepted", "retryable", "permanent"}
       => rows[q].handle = 0 /\ j.obj.handle = 0
  /\ j.pc \in {"dispatch", "accepted", "retryable", "permanent", "sweep"}
       => rows[q].status = "publishing"
  /\ j.pc = "accepted" => OfSchedule(q, j.upload)
  /\ j.pc = "sweep" => j.obj.handle = rows[q].handle

ScheduleAt(q) ==
  /\ rows[q].status = "scheduled" => rows[q].handle = 0
  /\ rows[q].handle # 0 => OfSchedule(q, rows[q].handle)
  /\ \A w \in Workers : ThreadSchedule(job[w][q], q)

ScheduleInv == \A r \in Rows \ overridden : ScheduleAt(r)

LEMMA ScheduleStep ==
  ASSUME OneEngine, WriteErrors = FALSE, Base, ScheduleInv, [Next]_vars
  PROVE  ScheduleInv'
  <1> SUFFICES ASSUME NEW q \in Rows, q \notin overridden' PROVE ScheduleAt(q)'
    BY DEF ScheduleInv
  <1>1. RowStep(q)
    BY StepOfRow DEF Base
  <1>2. q \notin overridden
    BY <1>1 DEF RowStep, Stays, Scheduled, Moved, EngineStep, Leaves, Claims, Queues, Checks,
                Reclaims, Tries, Records, Misreads, Reschedules, Fails, Sweeps, Confirms, KeepsGhosts
  <1>3. ScheduleAt(q)
    BY <1>2 DEF ScheduleInv
  <1>4. Len(uploads[q]) \in Nat
    BY DEF Base, TypeOK
  <1>a. ASSUME epoch'[q] = epoch[q], KeepsUploads(q) \/ Settles(q) \/ Grows(q)
        PROVE  \A n : OfSchedule(q, n) => OfSchedule(q, n)'
    BY <1>4, <1>a DEF KeepsUploads, Settles, Grows, OfSchedule
  <1>5. CASE Stays(q)
    BY <1>3, <1>5, <1>a DEF Stays, KeepsRow, KeepsFields, KeepsJobs, KeepsGhosts,
                      ScheduleAt, ThreadSchedule
  <1>6. CASE Scheduled(q)
    BY <1>3, <1>6 DEF Scheduled, KeepsJobs, ScheduleAt, ThreadSchedule
  <1>7. CASE Moved(q)
    BY <1>3, <1>7, <1>a DEF Moved, KeepsFields, KeepsJobs, ScheduleAt, ThreadSchedule
  <1>8. ASSUME NEW w \in Workers, EngineStep(job[w][q], job'[w][q], q)
        PROVE  ScheduleAt(q)'
    <2>1. ThreadSchedule(job[w][q], q)
      BY <1>3 DEF ScheduleAt
    <2>2. SUFFICES /\ rows'[q].status = "scheduled" => rows'[q].handle = 0
                   /\ rows'[q].handle # 0 => OfSchedule(q, rows[q].handle)'
                   /\ ThreadSchedule(job[w][q], q)'
      BY DEF ScheduleAt, OneEngine
    <2>4. NoJob.pc = "none"
      BY DEF NoJob
    <2> USE DEF KeepsRow, KeepsFields, KeepsGhosts, ScheduleAt, ThreadSchedule
    <2>5. CASE Leaves(job[w][q], job'[w][q], q) \/ Fails(job[w][q], job'[w][q], q)
      BY <1>3, <1>a, <2>4, <2>5 DEF Leaves, Fails
    <2>6. CASE Claims(job[w][q], job'[w][q], q)
      BY <1>3, <2>6 DEF Claims
    <2>7. CASE Queues(job[w][q], job'[w][q], q)
      BY <1>3, <2>7 DEF Queues, RetryDue
    <2>8. CASE Checks(job[w][q], job'[w][q], q) \/ Reclaims(job[w][q], job'[w][q], q)
      BY <1>3, <1>a, <2>1, <2>8 DEF Checks, Reclaims
    <2>9. CASE Tries(job[w][q], job'[w][q], q)
      <3>1. rows'[q].handle = 0 /\ rows'[q].status = "publishing"
        BY <2>1, <2>9 DEF Tries
      <3>2. job'[w][q].pc = "accepted" => OfSchedule(q, job[w][q].upload)'
        BY <1>4, <2>9 DEF Tries, Grows, OfSchedule
      <3> QED BY <2>1, <2>9, <3>1, <3>2 DEF Tries
    <2>10. CASE Records(job[w][q], job'[w][q], q)
      BY <1>a, <2>1, <2>10 DEF Records
    <2>11. ~Misreads(job[w][q], job'[w][q], q)
      BY <2>1 DEF Misreads
    <2>12. CASE Reschedules(job[w][q], job'[w][q], q)
      BY <2>1, <2>4, <2>12 DEF Reschedules
    <2>13. CASE Sweeps(job[w][q], job'[w][q], q)
      BY <1>3, <1>a, <2>13 DEF Sweeps
    <2>14. CASE Confirms(job[w][q], job'[w][q], q)
      BY <1>3, <1>a, <2>1, <2>4, <2>14 DEF Confirms
    <2> QED BY <1>8, <2>5, <2>6, <2>7, <2>8, <2>9, <2>10, <2>11, <2>12, <2>13, <2>14
            DEF EngineStep
  <1> QED BY <1>1, <1>5, <1>6, <1>7, <1>8 DEF RowStep

(* Whenever the sweep turns a row to published, the upload behind the      *)
(* handle was made since the row was last deliberately scheduled, unless a *)
(* user wrote over the row in mid-flight (models.py 581-586, engine.py     *)
(* 1223-1304), for one engine whose log inserts go through and requests    *)
(* that are not overtaken.                                                 *)
THEOREM SweepIsOfThisSchedule ==
  ASSUME OneEngine, Overtaking = FALSE, WriteErrors = FALSE
  PROVE  Spec => SweepConfirmsThisSchedule
  <1>1. Init => ScheduleInv
    <2> SUFFICES ASSUME Init, NEW q \in Rows PROVE ScheduleAt(q)
      BY DEF ScheduleInv
    <2>1. rows[q].status \in {"draft", "approved"} /\ rows[q].handle = 0
      BY DEF Init, FreshRow
    <2>2. \A w \in Workers : job[w][q].pc = "none"
      BY DEF Init, NoJob
    <2> QED BY <2>1, <2>2 DEF ScheduleAt, ThreadSchedule
  <1>2. Base /\ ScheduleInv /\ [Next]_vars => ScheduleInv'
    BY ScheduleStep
  <1>3. ASSUME Base, ScheduleInv, [Next]_vars, NEW w \in Workers, NEW q \in Rows \ overridden,
               job[w][q].pc = "sweep", job'[w][q].pc = "none",
               rows[q].status = "publishing", rows'[q].status = "published"
        PROVE  uploads[q][rows'[q].handle].epoch = epoch[q]
    <2>1. ThreadSchedule(job[w][q], q) /\ ScheduleAt(q)
      BY <1>3 DEF ScheduleInv, ScheduleAt
    <2>2. RowStep(q)
      BY <1>3, StepOfRow DEF Base
    <2>3. ~Stays(q) /\ ~Scheduled(q) /\ ~Moved(q)
      BY <1>3 DEF Stays, Scheduled, Moved, KeepsJobs
    <2>4. EngineStep(job[w][q], job'[w][q], q)
      BY <2>2, <2>3 DEF RowStep, OneEngine
    <2>5. Confirms(job[w][q], job'[w][q], q)
      BY <1>3, <2>4 DEF EngineStep, Leaves, Claims, Queues, Checks, Reclaims, Tries, Records,
                        Misreads, Reschedules, Fails, Sweeps, KeepsRow
    <2>6. rows'[q].handle = rows[q].handle /\ rows[q].handle # 0
      <3>1. "publish" \in ConfirmVerdicts(q, job[w][q].obj)
        BY <2>5 DEF Confirms
      <3>2. After(StaleAge, job[w][q].obj) # "publish"
        BY DEF After
      <3>3. job[w][q].obj.handle # 0
        BY <3>1, <3>2 DEF ConfirmVerdicts
      <3> QED BY <1>3, <2>1, <2>5, <3>3 DEF Confirms, ThreadSchedule
    <2> QED BY <2>1, <2>6 DEF ScheduleAt, OfSchedule
  <1>4. Base /\ ScheduleInv /\ [Next]_vars =>
          [\A w \in Workers, r \in Rows :
             (job[w][r].pc = "sweep" /\ job'[w][r].pc = "none" /\ rows[r].status = "publishing"
                /\ rows'[r].status = "published" /\ r \notin overridden)
               => uploads[r][rows'[r].handle].epoch = epoch[r]]_vars
    BY <1>3
  <1> QED BY BaseHolds, <1>1, <1>2, <1>4, PTL DEF Spec, SweepConfirmsThisSchedule

-----------------------------------------------------------------------------
(* The backoff                                                             *)
(*                                                                         *)
(* Between the due query and the claim the rows of the batch are not       *)
(* locked: they stay off their backoff because only a thread of the engine *)
(* puts a row on it, and the engine has none while it holds a batch.       *)

OnBackoff(q) == rows[q].retry > 0 /\ rows[q].backoff = "waiting"

BackoffInv ==
  \A w \in Workers :
    /\ phase[w] \in {"idle", "batch", "retryquery"} => \A r \in Rows : job[w][r].pc = "none"
    /\ batch[w] # {} => phase[w] = "batch"
    /\ \A r \in batch[w] : ~OnBackoff(r)
    /\ \A r \in Rows : job[w][r].pc \in {"queued", "checked"} => job[w][r].obj.backoff = "over"

(* A request never puts a row on a backoff, nor does time.                 *)
LEMMA UsersSparePatience ==
  ASSUME TypeOK, NoneRead, NEW q \in Rows, NEW r \in Rows,
         User(r) \/ Clock(r) \/ PlatformFinishes(r), ~OnBackoff(q)
  PROVE  ~OnBackoff(q)'
  <1>0. rows[q] \in Row /\ rows[r] \in Row
    BY DEF TypeOK
  <1>1. CASE Request(r)
    <2>1. CASE q # r
      BY <1>1, <2>1 DEF Request, Apply, Schedule, Edit, MoveTo, Write, OnBackoff, TypeOK
    <2>2. CASE q = r /\ Schedule(r, rows[r])
      <3>1. \E due \in BOOLEAN : rows'[q] = [Requeued(rows[q]) EXCEPT !.due = due, !.age = 0]
        BY <2>2 DEF Schedule, Write, TransitionTo, TypeOK
      <3> QED BY <1>0, <3>1 DEF Requeued, OnBackoff, Row
    <2>3. CASE q = r /\ Edit(r, rows[r])
      <3>1. \E due \in BOOLEAN : rows'[q] = [rows[q] EXCEPT !.due = due, !.age = 0]
        BY <2>3 DEF Edit, Write, TypeOK
      <3> QED BY <1>0, <3>1 DEF OnBackoff, Row
    <2>4. ASSUME NEW to \in RowStatus, q = r, MoveTo(r, rows[r], to)
          PROVE  ~OnBackoff(q)'
      <3>1. rows'[q] = [[rows[q] EXCEPT !.status = to] EXCEPT !.due = rows[q].due, !.age = 0]
        BY <2>4 DEF MoveTo, Write, TransitionTo, TypeOK
      <3> QED BY <1>0, <3>1 DEF OnBackoff, Row
    <2> QED BY <1>1, <2>1, <2>2, <2>3, <2>4 DEF Request, Apply
  <1>2. CASE ReadRow(r) \/ PlatformFinishes(r)
    BY <1>2 DEF ReadRow, PlatformFinishes, OnBackoff
  <1>3. ~FinishRequest(r)
    BY DEF FinishRequest, NoneRead
  <1>4. CASE BecomesDue(r)
    BY <1>0, <1>4 DEF BecomesDue, OnBackoff, TypeOK, Row
  <1>5. CASE BackoffEnds(r)
    BY <1>0, <1>5 DEF BackoffEnds, OnBackoff, TypeOK, Row
  <1>6. CASE Ages(r)
    BY <1>0, <1>6 DEF Ages, OnBackoff, TypeOK, Row
  <1> QED BY <1>1, <1>2, <1>3, <1>4, <1>5, <1>6 DEF User, Clock

(* A queued thread holds a row whose backoff is over.                      *)
LEMMA QueuedIsOver ==
  ASSUME OneEngine, BackoffInv, NEW w \in Workers, NEW q \in Rows, RowStep(q),
         job'[w][q].pc \in {"queued", "checked"}
  PROVE  job'[w][q].obj.backoff = "over"
  <1>1. CASE KeepsJobs(q)
    BY <1>1 DEF KeepsJobs, BackoffInv
  <1>2. CASE EngineStep(job[w][q], job'[w][q], q)
    <2>1. NoJob.pc = "none"
      BY DEF NoJob
    <2>2. Checks(job[w][q], job'[w][q], q) \/ Queues(job[w][q], job'[w][q], q)
      BY <1>2, <2>1 DEF EngineStep, Leaves, Claims, Reclaims, Tries, Records, Misreads,
                        Reschedules, Fails, Sweeps, Confirms
    <2> QED BY <2>2 DEF Checks, Queues, RetryDue, BackoffInv
  <1> QED BY <1>1, <1>2 DEF RowStep, OneEngine, Stays, Scheduled, Moved

LEMMA BackoffStep ==
  ASSUME OneEngine, Base, BackoffInv, [Next]_vars
  PROVE  BackoffInv'
  <1> USE DEF ghosts
  <1> SUFFICES ASSUME NEW w \in Workers
               PROVE  /\ phase'[w] \in {"idle", "batch", "retryquery"}
                           => \A r \in Rows : job'[w][r].pc = "none"
                      /\ batch'[w] # {} => phase'[w] = "batch"
                      /\ \A r \in batch'[w] : ~OnBackoff(r)'
    <2>1. \A v \in Workers, q \in Rows :
            job'[v][q].pc \in {"queued", "checked"} => job'[v][q].obj.backoff = "over"
      BY StepOfRow, QueuedIsOver DEF Base
    <2> QED BY <2>1 DEF BackoffInv
  <1>0. TypeOK /\ batch[w] \subseteq Rows /\ NoJob.pc = "none"
    BY DEF Base, TypeOK, NoJob
  <1>1. ASSUME NEW v \in Workers, Cycle(v) \/ StartSweep(v) \/ Crash(v)
        PROVE  /\ phase'[w] \in {"idle", "batch", "retryquery"}
                    => \A r \in Rows : job'[w][r].pc = "none"
               /\ batch'[w] # {} => phase'[w] = "batch"
               /\ \A r \in batch'[w] : ~OnBackoff(r)'
    <2>0. v = w
      BY DEF OneEngine
    <2>1. CASE Poll(w)
      <3>1. \A r \in GetDuePlatformPosts : ~OnBackoff(r)
        BY DEF GetDuePlatformPosts, IsDue, OnBackoff
      <3>2. batch'[w] = GetDuePlatformPosts /\ UNCHANGED <<rows, job>> /\ phase[w] = "idle"
            /\ phase'[w] = IF GetDuePlatformPosts = {} THEN "retryquery" ELSE "batch"
        BY <1>0, <2>1 DEF Poll, TypeOK
      <3> QED BY <3>1, <3>2 DEF BackoffInv, OnBackoff
    <2>2. CASE ClaimGroup(w)
      <3>1. /\ batch'[w] = {}
            /\ phase'[w] = IF Claimable(w) = {} THEN "retryquery" ELSE "publishing"
            /\ Claimable(w) = {} => \A r \in Rows : job'[w][r] = NoJob
        BY <1>0, <2>2 DEF ClaimGroup, TypeOK
      <3> QED BY <1>0, <3>1
    <2>3. CASE JoinGroup(w) \/ CycleDone(w)
      <3>1. /\ \A r \in Rows : job'[w][r].pc = "none"
            /\ batch'[w] = batch[w] /\ phase[w] # "batch"
        BY <2>3 DEF JoinGroup, CycleDone, Busy
      <3> QED BY <3>1 DEF BackoffInv
    <2>4. CASE QueryRetries(w) \/ StartSweep(w)
      <3>1. /\ phase'[w] \in {"retrying", "sweeping"} /\ phase[w] # "batch"
            /\ batch'[w] = batch[w]
        BY <1>0, <2>4 DEF QueryRetries, StartSweep, TypeOK
      <3> QED BY <3>1 DEF BackoffInv
    <2>5. CASE Crash(w)
      <3>1. batch'[w] = {} /\ \A r \in Rows : job'[w][r] = NoJob
        BY <1>0, <2>5 DEF Crash, TypeOK
      <3> QED BY <1>0, <3>1
    <2> QED BY <1>1, <2>0, <2>1, <2>2, <2>3, <2>4, <2>5 DEF Cycle
  <1>2. ASSUME NEW v \in Workers, NEW q \in Rows, Thread(v, q)
        PROVE  /\ phase'[w] \notin {"idle", "batch", "retryquery"}
               /\ batch'[w] = {}
    <2>0. v = w
      BY DEF OneEngine
    <2>1. job[w][q].pc # "none" /\ UNCHANGED <<phase, batch>>
      BY <1>2, <2>0 DEF Thread, CheckHold, ClaimRetry, Refused, Accepted, AcceptedUnclear,
            SaveSuccess, WriteLog, FailureUnlogged, ScheduleRetry, GiveUp, ConfirmOne
    <2> QED BY <2>1 DEF BackoffInv
  <1>3. ASSUME NEW q \in Rows, User(q) \/ Clock(q) \/ PlatformFinishes(q)
        PROVE  UNCHANGED <<phase, batch, job>> /\ \A r \in Rows : ~OnBackoff(r) => ~OnBackoff(r)'
    <2>1. UNCHANGED <<phase, batch, job>>
      BY <1>3 DEF User, Request, ReadRow, FinishRequest, Clock, BecomesDue, BackoffEnds, Ages,
                  PlatformFinishes
    <2> QED BY <1>3, <2>1, UsersSparePatience DEF Base
  <1>4. CASE UNCHANGED vars
    BY <1>4 DEF vars, BackoffInv, OnBackoff
  <1>5. CASE \E q \in Rows : User(q) \/ Clock(q) \/ PlatformFinishes(q)
    BY <1>0, <1>3, <1>5 DEF BackoffInv
  <1> QED BY <1>1, <1>2, <1>4, <1>5 DEF Next

(* The attempt that begins finds a row whose backoff is over, whatever the *)
(* requests do between the due query and the claim (engine.py 413-421,     *)
(* 1121-1145), for one engine and requests that are not overtaken.         *)
THEOREM BackoffRespected ==
  ASSUME OneEngine, Overtaking = FALSE
  PROVE  Spec => BackoffIsRespected
  <1>1. Init => BackoffInv
    BY DEF Init, BackoffInv, NoJob
  <1>2. Base /\ BackoffInv /\ [Next]_vars => BackoffInv'
    BY BackoffStep
  <1>3. ASSUME Base, BackoffInv, [Next]_vars, NEW w \in Workers, NEW q \in Rows,
               job[w][q].pc # "dispatch", job'[w][q].pc = "dispatch"
        PROVE  ~(job'[w][q].obj.retry > 0 /\ job'[w][q].obj.backoff = "waiting")
    <2>1. RowStep(q)
      BY <1>3, StepOfRow DEF Base
    <2>2. EngineStep(job[w][q], job'[w][q], q)
      BY <1>3, <2>1 DEF RowStep, Stays, Scheduled, Moved, KeepsJobs, OneEngine
    <2>3. NoJob.pc = "none"
      BY DEF NoJob
    <2>4. Claims(job[w][q], job'[w][q], q) \/ Reclaims(job[w][q], job'[w][q], q)
      BY <1>3, <2>2, <2>3 DEF EngineStep, Leaves, Queues, Checks, Tries, Records, Misreads,
                              Reschedules, Fails, Sweeps, Confirms
    <2>5. CASE Claims(job[w][q], job'[w][q], q)
      BY <1>3, <2>5 DEF Claims, BackoffInv, OnBackoff
    <2>6. CASE Reclaims(job[w][q], job'[w][q], q)
      BY <1>3, <2>6 DEF Reclaims, BackoffInv
    <2> QED BY <2>4, <2>5, <2>6
  <1>4. Base /\ BackoffInv /\ [Next]_vars =>
          [\A w \in Workers, r \in Rows :
             (job[w][r].pc # "dispatch" /\ job'[w][r].pc = "dispatch")
               => ~(job'[w][r].obj.retry > 0 /\ job'[w][r].obj.backoff = "waiting")]_vars
    BY <1>3
  <1> QED BY BaseHolds, <1>1, <1>2, <1>4, PTL DEF Spec, BackoffIsRespected

-----------------------------------------------------------------------------
(* Published is not walked back                                            *)

(* No late report of an upload, an attempt or a sweep turns a published    *)
(* row to failed (engine.py 970-999), for every number of engines, retries *)
(* and failing log inserts, and requests that are not overtaken.           *)
THEOREM PublishedStaysUnfailed ==
  ASSUME Overtaking = FALSE
  PROVE  Spec => PublishedNeverFails
  <1>1. ASSUME Base, [Next]_vars, NEW q \in Rows, rows[q].status = "published"
        PROVE  rows'[q].status # "failed"
    <2>1. RowStep(q)
      BY <1>1, StepOfRow DEF Base
    <2> QED BY <1>1, <2>1 DEF RowStep, Stays, Scheduled, Moved, EngineStep, Leaves, Claims, Queues,
               Checks, Reclaims, Tries, Records, Misreads, Reschedules, Fails, Sweeps, Confirms,
               KeepsRow
  <1>2. Base /\ [Next]_vars =>
          [\A r \in Rows : rows[r].status = "published" => rows'[r].status # "failed"]_vars
    BY <1>1
  <1> QED BY BaseHolds, <1>2, PTL DEF Spec, PublishedNeverFails

-----------------------------------------------------------------------------
(* Copies                                                                  *)
(*                                                                         *)
(* A deliberate schedule is a promise of one copy.  It is owed while the   *)
(* row waits in the queue, and then by the thread that took it there: from *)
(* the claim to the platform's answer, and through a failure that will be  *)
(* retried.  The copies that exist and those still owed never exceed the   *)
(* schedules and the answers that were lost.                               *)

Owes(j, status) ==
  \/ j.pc = "dispatch"
  \/ j.pc = "retryable" /\ MAX_RETRIES > 0
  \/ j.pc \in {"queued", "checked"} /\ status # "scheduled"

Owing(q) == {w \in Workers : Owes(job[w][q], rows[q].status)}
Waiting(q) == IF rows[q].status = "scheduled" THEN 1 ELSE 0

CopiesAt(q) ==
  /\ IsFiniteSet(Owing(q))
  /\ Cardinality(Copies(q)) + Cardinality(Owing(q)) + Waiting(q) <= epoch[q] + unclear[q]
  /\ \A w \in Workers :
       /\ MAX_RETRIES = 0 => job[w][q].pc \notin {"queued", "checked"}
       /\ ~WriteErrors => job[w][q].pc # "logging"

CopiesInv == \A r \in Rows : CopiesAt(r)

\* One process, whose log inserts go through, or any number that never retry.
OnceRegime == (OneEngine /\ WriteErrors = FALSE) \/ MAX_RETRIES = 0

LEMMA CopiesAreFinite ==
  ASSUME TypeOK, NEW q \in Rows
  PROVE  IsFiniteSet(Copies(q)) /\ Cardinality(Copies(q)) \in Nat
  <1>1. IsFiniteSet(1..Len(uploads[q]))
    BY FS_Interval DEF TypeOK
  <1>2. Copies(q) \subseteq 1..Len(uploads[q])
    BY DEF Copies
  <1> QED BY <1>1, <1>2, FS_Subset, FS_CardinalityType

(* Settled uploads are no more copies than before, one that is added is    *)
(* one more at most.                                                       *)
LEMMA CopiesCounted ==
  ASSUME TypeOK, TypeOK', NEW q \in Rows
  PROVE  /\ KeepsUploads(q) => Copies(q)' = Copies(q)
         /\ Settles(q) => Cardinality(Copies(q)') <= Cardinality(Copies(q))
         /\ Grows(q) => Cardinality(Copies(q)') <= Cardinality(Copies(q)) + 1
  <1>0. IsFiniteSet(Copies(q)) /\ Cardinality(Copies(q)) \in Nat /\ Len(uploads[q]) \in Nat
    BY CopiesAreFinite DEF TypeOK
  <1>1. KeepsUploads(q) => Copies(q)' = Copies(q)
    BY DEF KeepsUploads, Copies
  <1>2. ASSUME Settles(q) PROVE Cardinality(Copies(q)') <= Cardinality(Copies(q))
    <2>1. Copies(q)' \subseteq Copies(q)
      BY <1>2 DEF Settles, Copies
    <2> QED BY <1>0, <2>1, FS_Subset
  <1>3. ASSUME Grows(q) PROVE Cardinality(Copies(q)') <= Cardinality(Copies(q)) + 1
    <2> DEFINE n == Len(uploads[q]) + 1
    <2>1. Copies(q)' \subseteq Copies(q) \cup {n}
      BY <1>0, <1>3 DEF Grows, Copies
    <2>2. n \notin Copies(q)
      BY <1>0 DEF Copies
    <2>3. IsFiniteSet(Copies(q) \cup {n}) /\ Cardinality(Copies(q) \cup {n}) = Cardinality(Copies(q)) + 1
      BY <1>0, <2>2, FS_AddElement
    <2> QED BY <2>1, <2>3, FS_Subset
  <1> QED BY <1>1, <1>2, <1>3

(* When one worker alone may change whether it owes the row a copy.        *)
LEMMA OneMoreOwing ==
  ASSUME NEW S, NEW T, NEW w, IsFiniteSet(S), \A v : v # w => (v \in T <=> v \in S)
  PROVE  /\ IsFiniteSet(T)
         /\ Cardinality(S) \in Nat /\ Cardinality(T) \in Nat
         /\ (w \in S <=> w \in T) => Cardinality(T) = Cardinality(S)
         /\ w \in T /\ w \notin S => Cardinality(T) = Cardinality(S) + 1
         /\ w \in S /\ w \notin T => Cardinality(T) = Cardinality(S) - 1
  <1>1. CASE w \in S <=> w \in T
    <2>1. T = S
      BY <1>1
    <2> QED BY <1>1, <2>1, FS_CardinalityType
  <1>2. CASE w \in T /\ w \notin S
    <2>1. T = S \cup {w}
      BY <1>2
    <2> QED BY <1>2, <2>1, FS_AddElement, FS_CardinalityType
  <1>3. CASE w \in S /\ w \notin T
    <2>1. T = S \ {w}
      BY <1>3
    <2> QED BY <1>3, <2>1, FS_RemoveElement, FS_CardinalityType
  <1> QED BY <1>1, <1>2, <1>3

LEMMA CopiesStep ==
  ASSUME OnceRegime, Base, CopiesInv, [Next]_vars
  PROVE  CopiesInv'
  <1> SUFFICES ASSUME NEW q \in Rows PROVE CopiesAt(q)'
    BY DEF CopiesInv
  <1>1. RowStep(q) /\ CopiesAt(q) /\ TypeOK /\ TypeOK'
    BY StepOfRow, TypeStep DEF Base, CopiesInv
  <1>2. /\ MAX_RETRIES \in Nat /\ WriteErrors \in BOOLEAN
        /\ epoch[q] \in Nat /\ epoch'[q] \in Nat /\ unclear[q] \in Nat /\ unclear'[q] \in Nat
        /\ Cardinality(Copies(q)) \in Nat /\ Cardinality(Copies(q)') \in Nat
    <2>1. Cardinality(Copies(q)) \in Nat
      BY <1>1, CopiesAreFinite
    <2>2. Cardinality(Copies(q)') \in Nat
      <3>1. Copies(q)' \subseteq 1..Len(uploads'[q]) /\ Len(uploads'[q]) \in Nat
        BY <1>1 DEF Copies, TypeOK
      <3>2. IsFiniteSet(1..Len(uploads'[q]))
        BY <3>1, FS_Interval
      <3> QED BY <3>1, <3>2, FS_Subset, FS_CardinalityType
    <2> QED BY <1>1, <2>1, <2>2, PublisherAssumption DEF TypeOK
  <1>3. /\ KeepsUploads(q) => Cardinality(Copies(q)') = Cardinality(Copies(q))
        /\ Settles(q) => Cardinality(Copies(q)') <= Cardinality(Copies(q))
        /\ Grows(q) => Cardinality(Copies(q)') <= Cardinality(Copies(q)) + 1
    BY <1>1, CopiesCounted
  <1>4. NoJob.pc = "none"
    BY DEF NoJob
  <1>5. ASSUME KeepsJobs(q), Stays(q) \/ Scheduled(q) \/ Moved(q)
        PROVE  CopiesAt(q)'
    <2>1. \A w \in Workers :
            /\ MAX_RETRIES = 0 => job'[w][q].pc \notin {"queued", "checked"}
            /\ ~WriteErrors => job'[w][q].pc # "logging"
      BY <1>1, <1>5 DEF KeepsJobs, CopiesAt
    <2>2. CASE Owing(q)' = Owing(q)
      <3>1. Cardinality(Owing(q)) \in Nat
        BY <1>1, FS_CardinalityType DEF CopiesAt
      <3>2. CASE Stays(q)
        BY <1>1, <1>2, <1>3, <2>1, <2>2, <3>1, <3>2 DEF Stays, KeepsRow, KeepsGhosts, KeepsCalls,
           CopiesAt, Waiting
      <3>3. CASE Scheduled(q)
        BY <1>1, <1>2, <1>3, <2>1, <2>2, <3>1, <3>3 DEF Scheduled, CopiesAt, Waiting
      <3>4. CASE Moved(q)
        BY <1>1, <1>2, <1>3, <2>1, <2>2, <3>1, <3>4 DEF Moved, KeepsCalls, CopiesAt, Waiting
      <3> QED BY <1>5, <3>2, <3>3, <3>4
    <2>3. CASE Owing(q)' # Owing(q)
      <3>1. PICK w \in Workers : (w \in Owing(q)') # (w \in Owing(q))
        BY <2>3 DEF Owing
      <3>2. MAX_RETRIES # 0 /\ OneEngine
        BY <1>1, <1>5, <3>1 DEF Owing, Owes, KeepsJobs, CopiesAt, OnceRegime
      <3>3. \A v : v # w => (v \in Owing(q)' <=> v \in Owing(q))
        BY <3>2 DEF Owing, OneEngine
      <3>4. /\ IsFiniteSet(Owing(q)')
            /\ Cardinality(Owing(q)) \in Nat /\ Cardinality(Owing(q)') \in Nat
            /\ w \in Owing(q)' => Cardinality(Owing(q)') = Cardinality(Owing(q)) + 1
            /\ w \in Owing(q) => Cardinality(Owing(q)') = Cardinality(Owing(q)) - 1
        BY <1>1, <3>1, <3>3, OneMoreOwing DEF CopiesAt
      <3>5. /\ w \in Owing(q)' => rows[q].status = "scheduled" /\ rows'[q].status # "scheduled"
            /\ w \in Owing(q) => rows[q].status # "scheduled" /\ rows'[q].status = "scheduled"
        BY <1>5, <3>1 DEF Owing, Owes, KeepsJobs
      <3>6. CASE Stays(q)
        BY <3>1, <3>5, <3>6 DEF Stays, KeepsRow
      <3>7. CASE Scheduled(q)
        BY <1>1, <1>2, <1>3, <2>1, <3>1, <3>4, <3>5, <3>7 DEF Scheduled, CopiesAt, Waiting
      <3>8. CASE Moved(q)
        BY <1>1, <1>2, <1>3, <2>1, <3>1, <3>4, <3>5, <3>8 DEF Moved, KeepsCalls, CopiesAt, Waiting
      <3> QED BY <1>5, <3>6, <3>7, <3>8
    <2> QED BY <2>2, <2>3
  <1>6. ASSUME NEW w \in Workers, KeepsOthers(w, q), EngineStep(job[w][q], job'[w][q], q)
        PROVE  CopiesAt(q)'
    <2> DEFINE j == job[w][q]
               k == job'[w][q]
               owes == Owes(j, rows[q].status)
               owesNext == Owes(k, rows'[q].status)
    <2>0. /\ MAX_RETRIES = 0 => j.pc \notin {"queued", "checked"}
          /\ ~WriteErrors => j.pc # "logging"
          /\ j.obj.retry \in Nat
      BY <1>1, JobTypes DEF CopiesAt, Row
    <2>1. /\ MAX_RETRIES = 0 => k.pc \notin {"queued", "checked"}
          /\ ~WriteErrors => k.pc # "logging"
      BY <1>2, <1>4, <1>6, <2>0 DEF EngineStep, Leaves, Claims, Queues, Checks, Reclaims, Tries,
         Records, Misreads, Reschedules, Fails, Sweeps, Confirms, RetryDue
    <2>2. \A v \in Workers :
            /\ MAX_RETRIES = 0 => job'[v][q].pc \notin {"queued", "checked"}
            /\ ~WriteErrors => job'[v][q].pc # "logging"
      BY <1>1, <1>6, <2>1 DEF KeepsOthers, CopiesAt
    <2>3. \A v : v # w => (v \in Owing(q)' <=> v \in Owing(q))
      <3>1. CASE MAX_RETRIES = 0
        BY <1>1, <1>6, <3>1 DEF Owing, Owes, KeepsOthers, CopiesAt
      <3>2. CASE OneEngine
        BY <3>2 DEF Owing, OneEngine
      <3> QED BY <3>1, <3>2 DEF OnceRegime
    <2>4. (w \in Owing(q) <=> owes) /\ (w \in Owing(q)' <=> owesNext)
      BY DEF Owing
    <2>5. /\ IsFiniteSet(Owing(q)')
          /\ Cardinality(Owing(q)) \in Nat /\ Cardinality(Owing(q)') \in Nat
          /\ (owes <=> owesNext) => Cardinality(Owing(q)') = Cardinality(Owing(q))
          /\ owesNext /\ ~owes => Cardinality(Owing(q)') = Cardinality(Owing(q)) + 1
          /\ owes /\ ~owesNext => Cardinality(Owing(q)') = Cardinality(Owing(q)) - 1
      <3>1. IsFiniteSet(Owing(q))
        BY <1>1 DEF CopiesAt
      <3> QED BY <2>3, <2>4, <3>1, OneMoreOwing
    <2>6. SUFFICES Cardinality(Copies(q)') + Cardinality(Owing(q)') + Waiting(q)'
                     <= epoch'[q] + unclear'[q]
      BY <2>2, <2>5 DEF CopiesAt
    <2>7. Cardinality(Copies(q)) + Cardinality(Owing(q)) + Waiting(q) <= epoch[q] + unclear[q]
      BY <1>1 DEF CopiesAt
    <2>8. /\ Waiting(q) = IF rows[q].status = "scheduled" THEN 1 ELSE 0
          /\ Waiting(q)' = IF rows'[q].status = "scheduled" THEN 1 ELSE 0
      BY DEF Waiting
    <2> HIDE DEF j, k
    <2> USE <1>2, <1>3, <1>4, <2>5, <2>7, <2>8 DEF Owes, KeepsGhosts, KeepsCalls, KeepsRow
    <2>9. CASE Leaves(j, k, q) \/ Fails(j, k, q) \/ Sweeps(j, k, q) \/ Confirms(j, k, q)
      BY <2>9 DEF Leaves, Fails, Sweeps, Confirms
    <2>10. CASE Claims(j, k, q)
      BY <2>10 DEF Claims
    <2>11. CASE Queues(j, k, q)
      BY <2>11 DEF Queues, RetryDue
    <2>12. CASE Checks(j, k, q)
      BY <2>12 DEF Checks
    <2>13. CASE Reclaims(j, k, q)
      BY <2>13 DEF Reclaims
    <2>14. CASE Tries(j, k, q)
      <3>1. j.pc = "dispatch" /\ rows'[q].status = rows[q].status /\ epoch'[q] = epoch[q]
        BY <2>14 DEF Tries
      <3>2. CASE k.pc \in {"retryable", "permanent"} /\ KeepsUploads(q) /\ unclear'[q] = unclear[q]
        BY <3>1, <3>2
      <3>3. CASE k.pc \in {"retryable", "permanent"} /\ Grows(q) /\ unclear'[q] = unclear[q] + 1
        BY <3>1, <3>3
      <3>4. CASE k.pc = "accepted" /\ Grows(q) /\ unclear'[q] = unclear[q]
        BY <3>1, <3>4
      <3> QED BY <2>14, <3>2, <3>3, <3>4 DEF Tries
    <2>15. CASE Records(j, k, q)
      BY <2>15 DEF Records
    <2>16. CASE Misreads(j, k, q)
      BY <2>0, <2>16 DEF Misreads, OnceRegime
    <2>17. CASE Reschedules(j, k, q)
      BY <2>0, <2>17 DEF Reschedules
    <2> QED BY <1>6, <2>9, <2>10, <2>11, <2>12, <2>13, <2>14, <2>15, <2>16, <2>17
            DEF EngineStep, j, k
  <1> QED BY <1>1, <1>5, <1>6 DEF RowStep, Stays, Scheduled, Moved

(* The engine never posts twice of its own accord: at most one copy per    *)
(* deliberate schedule, and one per call the platform accepted and         *)
(* answered with an error, wherever the worker is killed and whatever the  *)
(* sweep settles (engine.py 438-466, 603-664, 1306-1337).  It holds of one *)
(* engine with any number of retries, and of any number of engines without *)
(* retries even when log inserts fail: the claim of a group is exclusive,  *)
(* that of a retry is not.                                                 *)
THEOREM OneCopyPerSchedule ==
  ASSUME OnceRegime, Overtaking = FALSE
  PROVE  Spec => []NoSilentDoublePost
  <1>1. Init => CopiesInv
    <2> SUFFICES ASSUME Init, NEW q \in Rows PROVE CopiesAt(q)
      BY DEF CopiesInv
    <2>1. /\ rows[q].status \in {"draft", "approved"} /\ epoch[q] = 0 /\ unclear[q] = 0
          /\ uploads[q] = <<>>
      BY DEF Init, FreshRow
    <2>2. \A w \in Workers : job[w][q].pc = "none"
      BY DEF Init, NoJob
    <2>3. Owing(q) = {} /\ Copies(q) = {}
      BY <2>1, <2>2 DEF Owing, Owes, Copies
    <2> QED BY <2>1, <2>2, <2>3, FS_EmptySet DEF CopiesAt, Waiting
  <1>2. Base /\ CopiesInv /\ [Next]_vars => CopiesInv'
    BY CopiesStep
  <1>3. Base /\ CopiesInv => NoSilentDoublePost
    <2> SUFFICES ASSUME Base, CopiesInv, NEW q \in Rows
                 PROVE  Cardinality(Copies(q)) <= epoch[q] + unclear[q]
      BY DEF NoSilentDoublePost
    <2>1. /\ Cardinality(Copies(q)) \in Nat /\ epoch[q] \in Nat /\ unclear[q] \in Nat
          /\ Cardinality(Owing(q)) \in Nat
      BY CopiesAreFinite, FS_CardinalityType DEF Base, TypeOK, CopiesInv, CopiesAt
    <2> QED BY <2>1 DEF CopiesInv, CopiesAt, Waiting
  <1> QED BY BaseHolds, <1>1, <1>2, <1>3, PTL DEF Spec
=============================================================================
