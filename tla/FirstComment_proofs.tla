------------------------ MODULE FirstComment_proofs ------------------------
(***************************************************************************)
(* The first comment is posted once, within its budget, and never left     *)
(* pending with nothing behind it: for every retry limit and any number of *)
(* interruptions.                                                          *)
(***************************************************************************)
EXTENDS FirstComment, TLAPS

TaskPc == {"loaded", "call", "confirmed", "failing", "requeue", "done"}

\* The copy of the row the task holds is the row, until it writes its outcome.
CopyIsRow ==
  pc \in {"loaded", "call", "confirmed", "failing"} =>
    seen.status = status /\ seen.retries = retries

\* A task goes to the platform only with a text and for a row that is not
\* posted, and never past a copy it could have found.
CallIsEntitled ==
  /\ pc \in {"call", "confirmed", "failing", "requeue"} =>
       status # "posted" /\ seen.text \in Texts
  /\ (pc = "call" /\ LooksFirst) => comments[seen.text] = 0

\* Whatever runs, or waits to, is in the task queue.
QueueHolds ==
  /\ pc \in TaskPc \cup {"unmarked"} => queued >= 1
  /\ (pc = "done" /\ status = "pending") => queued >= 2 \/ unrecorded > 0 \/ dropped > 0
  /\ pc \in {"published", "unmarked"} => status = "none"

\* Task rows, the one about to be queued included, that may still act; a run
\* that has acted counts no more.
RowsLeft(acted) ==
  queued + (IF pc = "published" THEN 1 ELSE 0) - (IF acted THEN 1 ELSE 0)

\* A row already posted, or a text whose copy the next look will find, gets no
\* further copy.
NoMore(t) == status = "posted" \/ (reconciles /\ retries > 0 /\ comments[t] > 0)

\* The running task has done all it will to the copies of t.
Acted(t) ==
  \/ pc \in {"confirmed", "done"}
  \/ pc = "failing" /\ (~retryable \/ (reconciles /\ comments[t] > 0))

MayStillComment(t) == IF NoMore(t) THEN 0 ELSE RowsLeft(Acted(t))
MayStillCall == RowsLeft(pc \in {"confirmed", "failing", "done"})

CommentPotential ==
  \A t \in Texts : comments[t] + MayStillComment(t) <= 1 + interruptions + unrecorded
CallPotential == calls + MayStillCall <= 1 + retries + interruptions

IInv ==
  /\ TypeOK
  /\ CopyIsRow
  /\ CallIsEntitled
  /\ QueueHolds
  /\ PendingHasTask
  /\ CommentPotential
  /\ CallPotential





-----------------------------------------------------------------------------
(* Initially the strengthened invariant holds: nothing has been asked of the
   platform, and the one task to come is counted. *)
LEMMA InitIInv == Init => IInv
<1> SUFFICES ASSUME Init PROVE IInv
    OBVIOUS
<1> USE FirstCommentAssumption
<1>1. retryable \in BOOLEAN
  BY Zenon DEF Init
<1>2. TypeOK
  BY <1>1, SMT DEF Init, TypeOK, FirstCommentStatus, Pc, Said
<1>3. CopyIsRow /\ CallIsEntitled /\ QueueHolds /\ PendingHasTask
  BY SMT DEF Init, CopyIsRow, CallIsEntitled, QueueHolds, TaskPc, PendingHasTask
<1>4. CommentPotential /\ CallPotential
  BY SMT DEF Init, CommentPotential, MayStillComment, NoMore, Acted, CallPotential,
     MayStillCall, RowsLeft
<1> QED
  BY <1>2, <1>3, <1>4 DEF IInv


(* No step of the worker, and no interruption, gives it up. *)
LEMMA StepIInv == IInv /\ [Next]_vars => IInv'
<1> SUFFICES ASSUME IInv, [Next]_vars PROVE IInv'
    OBVIOUS
<1> USE FirstCommentAssumption
<1>1. CASE Enqueue
  <2>1. TypeOK'
    BY <1>1, SMT DEF Enqueue, row, task, platform, incidents, IInv, TypeOK,
       FirstCommentStatus, Pc, Said,
       CopyIsRow, CallIsEntitled, QueueHolds, TaskPc
  <2>2. CopyIsRow' /\ CallIsEntitled'
    BY <1>1, SMT DEF Enqueue, row, task, platform, incidents, IInv, TypeOK, CopyIsRow,
       CallIsEntitled, LooksFirst, QueueHolds, TaskPc, Said
  <2>3. QueueHolds' /\ PendingHasTask'
    BY <1>1, SMT DEF Enqueue, row, task, platform, incidents, IInv, TypeOK,
       QueueHolds, PendingHasTask, TaskPc, CopyIsRow, CallIsEntitled
  <2>4. CommentPotential'
    BY <1>1, SMT DEF Enqueue, row, task, platform, incidents, IInv, TypeOK, CopyIsRow,
       CallIsEntitled, LooksFirst, QueueHolds, TaskPc,
       CommentPotential, MayStillComment, NoMore, Acted, RowsLeft
  <2>5. CallPotential'
    BY <1>1, SMT DEF Enqueue, row, task, platform, incidents, IInv, TypeOK,
       QueueHolds, TaskPc, CopyIsRow, CallPotential, MayStillCall, RowsLeft
  <2> QED
    BY <2>1, <2>2, <2>3, <2>4, <2>5 DEF IInv
<1>2. CASE MarkPending
  <2>1. TypeOK'
    BY <1>2, SMT DEF MarkPending, row, task, platform, incidents, IInv, TypeOK,
       FirstCommentStatus, Pc, Said,
       CopyIsRow, CallIsEntitled, QueueHolds, TaskPc
  <2>2. CopyIsRow' /\ CallIsEntitled'
    BY <1>2, SMT DEF MarkPending, row, task, platform, incidents, IInv, TypeOK,
       CopyIsRow, CallIsEntitled, LooksFirst, QueueHolds, TaskPc, Said
  <2>3. QueueHolds' /\ PendingHasTask'
    BY <1>2, SMT DEF MarkPending, row, task, platform, incidents, IInv, TypeOK,
       QueueHolds, PendingHasTask, TaskPc, CopyIsRow, CallIsEntitled
  <2>4. CommentPotential'
    BY <1>2, SMT DEF MarkPending, row, task, platform, incidents, IInv, TypeOK,
       CopyIsRow, CallIsEntitled, LooksFirst, QueueHolds, TaskPc,
       CommentPotential, MayStillComment, NoMore, Acted, RowsLeft
  <2>5. CallPotential'
    BY <1>2, SMT DEF MarkPending, row, task, platform, incidents, IInv, TypeOK,
       QueueHolds, TaskPc, CopyIsRow, CallPotential, MayStillCall, RowsLeft
  <2> QED
    BY <2>1, <2>2, <2>3, <2>4, <2>5 DEF IInv
<1>3. CASE EditText
  <2>1. TypeOK'
    BY <1>3, SMT DEF EditText, row, task, platform, incidents, IInv, TypeOK,
       FirstCommentStatus, Pc, Said,
       CopyIsRow, CallIsEntitled, QueueHolds, TaskPc
  <2>2. CopyIsRow' /\ CallIsEntitled'
    BY <1>3, SMT DEF EditText, row, task, platform, incidents, IInv, TypeOK,
       CopyIsRow, CallIsEntitled, LooksFirst, QueueHolds, TaskPc, Said
  <2>3. QueueHolds' /\ PendingHasTask'
    BY <1>3, SMT DEF EditText, row, task, platform, incidents, IInv, TypeOK,
       QueueHolds, PendingHasTask, TaskPc, CopyIsRow, CallIsEntitled
  <2>4. CommentPotential'
    BY <1>3, SMT DEF EditText, row, task, platform, incidents, IInv, TypeOK,
       CopyIsRow, CallIsEntitled, LooksFirst, QueueHolds, TaskPc,
       CommentPotential, MayStillComment, NoMore, Acted, RowsLeft
  <2>5. CallPotential'
    BY <1>3, SMT DEF EditText, row, task, platform, incidents, IInv, TypeOK,
       QueueHolds, TaskPc, CopyIsRow, CallPotential, MayStillCall, RowsLeft
  <2> QED
    BY <2>1, <2>2, <2>3, <2>4, <2>5 DEF IInv
<1>4. CASE Load
  <2>1. TypeOK'
    BY <1>4, SMT DEF Load, row, task, platform, incidents, IInv, TypeOK,
       FirstCommentStatus, Pc, Said,
       CopyIsRow, CallIsEntitled, QueueHolds, TaskPc
  <2>2. CopyIsRow' /\ CallIsEntitled'
    BY <1>4, SMT DEF Load, row, task, platform, incidents, IInv, TypeOK, CopyIsRow,
       CallIsEntitled, LooksFirst, QueueHolds, TaskPc, Said
  <2>3. QueueHolds' /\ PendingHasTask'
    BY <1>4, SMT DEF Load, row, task, platform, incidents, IInv, TypeOK, QueueHolds,
       PendingHasTask, TaskPc, CopyIsRow, CallIsEntitled
  <2>4. CommentPotential'
    BY <1>4, SMT DEF Load, row, task, platform, incidents, IInv, TypeOK, CopyIsRow,
       CallIsEntitled, LooksFirst, QueueHolds, TaskPc,
       CommentPotential, MayStillComment, NoMore, Acted, RowsLeft
  <2>5. CallPotential'
    BY <1>4, SMT DEF Load, row, task, platform, incidents, IInv, TypeOK, QueueHolds,
       TaskPc, CopyIsRow, CallPotential, MayStillCall, RowsLeft
  <2> QED
    BY <2>1, <2>2, <2>3, <2>4, <2>5 DEF IInv
<1>5. CASE AlreadyPosted
  <2>1. TypeOK'
    BY <1>5, SMT DEF AlreadyPosted, SeesPosted, row, task, platform, incidents, IInv,
       TypeOK, FirstCommentStatus, Pc, Said,
       CopyIsRow, CallIsEntitled, QueueHolds, TaskPc
  <2>2. CopyIsRow' /\ CallIsEntitled'
    BY <1>5, SMT DEF AlreadyPosted, SeesPosted, row, task, platform, incidents, IInv,
       TypeOK, CopyIsRow, CallIsEntitled, LooksFirst, QueueHolds, TaskPc, Said
  <2>3. QueueHolds' /\ PendingHasTask'
    BY <1>5, SMT DEF AlreadyPosted, SeesPosted, row, task, platform, incidents, IInv,
       TypeOK, QueueHolds, PendingHasTask, TaskPc, CopyIsRow, CallIsEntitled
  <2>4. CommentPotential'
    BY <1>5, SMT DEF AlreadyPosted, SeesPosted, row, task, platform, incidents, IInv,
       TypeOK, CopyIsRow, CallIsEntitled, LooksFirst, QueueHolds, TaskPc,
       CommentPotential, MayStillComment, NoMore, Acted, RowsLeft
  <2>5. CallPotential'
    BY <1>5, SMT DEF AlreadyPosted, SeesPosted, row, task, platform, incidents, IInv,
       TypeOK, QueueHolds, TaskPc, CopyIsRow, CallPotential, MayStillCall, RowsLeft
  <2> QED
    BY <2>1, <2>2, <2>3, <2>4, <2>5 DEF IInv
<1>6. CASE NothingToPost
  <2>1. TypeOK'
    BY <1>6, SMT DEF NothingToPost, SeesPosted, row, task, platform, incidents, IInv,
       TypeOK, FirstCommentStatus, Pc, Said,
       CopyIsRow, CallIsEntitled, QueueHolds, TaskPc
  <2>2. CopyIsRow' /\ CallIsEntitled'
    BY <1>6, SMT DEF NothingToPost, SeesPosted, row, task, platform, incidents, IInv,
       TypeOK, CopyIsRow, CallIsEntitled, LooksFirst, QueueHolds, TaskPc, Said
  <2>3. QueueHolds' /\ PendingHasTask'
    BY <1>6, SMT DEF NothingToPost, SeesPosted, row, task, platform, incidents, IInv,
       TypeOK, QueueHolds, PendingHasTask, TaskPc, CopyIsRow, CallIsEntitled
  <2>4. CommentPotential'
    BY <1>6, SMT DEF NothingToPost, SeesPosted, row, task, platform, incidents, IInv,
       TypeOK, CopyIsRow, CallIsEntitled, LooksFirst, QueueHolds, TaskPc,
       CommentPotential, MayStillComment, NoMore, Acted, RowsLeft
  <2>5. CallPotential'
    BY <1>6, SMT DEF NothingToPost, SeesPosted, row, task, platform, incidents, IInv,
       TypeOK, QueueHolds, TaskPc, CopyIsRow, CallPotential, MayStillCall, RowsLeft
  <2> QED
    BY <2>1, <2>2, <2>3, <2>4, <2>5 DEF IInv
<1>7. CASE CannotStart
  <2>1. TypeOK'
    BY <1>7, SMT DEF CannotStart, MustComment, SeesPosted, Fail, row, task, platform,
       incidents, IInv, TypeOK, FirstCommentStatus, Pc, Said,
       CopyIsRow, CallIsEntitled, QueueHolds, TaskPc
  <2>2. CopyIsRow' /\ CallIsEntitled'
    BY <1>7, SMT DEF CannotStart, MustComment, SeesPosted, Fail, row, task, platform,
       incidents, IInv, TypeOK, CopyIsRow, CallIsEntitled, LooksFirst, QueueHolds,
       TaskPc, Said
  <2>3. QueueHolds' /\ PendingHasTask'
    BY <1>7, SMT DEF CannotStart, MustComment, SeesPosted, Fail, row, task, platform,
       incidents, IInv, TypeOK, QueueHolds, PendingHasTask, TaskPc, CopyIsRow,
       CallIsEntitled
  <2>4. CommentPotential'
    BY <1>7, SMT DEF CannotStart, MustComment, SeesPosted, Fail, row, task, platform,
       incidents, IInv, TypeOK, CopyIsRow, CallIsEntitled, LooksFirst, QueueHolds,
       TaskPc,
       CommentPotential, MayStillComment, NoMore, Acted, RowsLeft
  <2>5. CallPotential'
    BY <1>7, SMT DEF CannotStart, MustComment, SeesPosted, Fail, row, task, platform,
       incidents, IInv, TypeOK, QueueHolds, TaskPc, CopyIsRow, CallPotential,
       MayStillCall, RowsLeft
  <2> QED
    BY <2>1, <2>2, <2>3, <2>4, <2>5 DEF IInv
<1>8. CASE GoAhead
  <2>1. TypeOK'
    BY <1>8, SMT DEF GoAhead, MustComment, SeesPosted, LooksFirst, row, task,
       platform, incidents, IInv, TypeOK, FirstCommentStatus, Pc, Said,
       CopyIsRow, CallIsEntitled, QueueHolds, TaskPc
  <2>2. CopyIsRow' /\ CallIsEntitled'
    BY <1>8, SMT DEF GoAhead, MustComment, SeesPosted, LooksFirst, row, task,
       platform, incidents, IInv, TypeOK, CopyIsRow, CallIsEntitled, LooksFirst,
       QueueHolds, TaskPc, Said
  <2>3. QueueHolds' /\ PendingHasTask'
    BY <1>8, SMT DEF GoAhead, MustComment, SeesPosted, LooksFirst, row, task,
       platform, incidents, IInv, TypeOK, QueueHolds, PendingHasTask, TaskPc,
       CopyIsRow, CallIsEntitled
  <2>4. CommentPotential'
    BY <1>8, SMT DEF GoAhead, MustComment, SeesPosted, LooksFirst, row, task,
       platform, incidents, IInv, TypeOK, CopyIsRow, CallIsEntitled, LooksFirst,
       QueueHolds, TaskPc,
       CommentPotential, MayStillComment, NoMore, Acted, RowsLeft
  <2>5. CallPotential'
    BY <1>8, SMT DEF GoAhead, MustComment, SeesPosted, LooksFirst, row, task,
       platform, incidents, IInv, TypeOK, QueueHolds, TaskPc, CopyIsRow,
       CallPotential, MayStillCall, RowsLeft
  <2> QED
    BY <2>1, <2>2, <2>3, <2>4, <2>5 DEF IInv
<1>9. CASE Look
  <2>1. TypeOK'
    <3>1. retryable' \in BOOLEAN
      BY <1>9, Zenon DEF Look, Fail, IInv, TypeOK, task
    <3> QED
      BY <1>9, <3>1, SMT DEF Look, MustComment, SeesPosted, LooksFirst, Found, Fail,
         row, task, platform, incidents, IInv, TypeOK, FirstCommentStatus, Pc, Said,
         CopyIsRow, CallIsEntitled, QueueHolds, TaskPc
  <2>2. CopyIsRow' /\ CallIsEntitled'
    BY <1>9, SMT DEF Look, MustComment, SeesPosted, LooksFirst, Found, Fail, row,
       task, platform, incidents, IInv, TypeOK, CopyIsRow, CallIsEntitled, LooksFirst,
       QueueHolds, TaskPc, Said
  <2>3. QueueHolds' /\ PendingHasTask'
    BY <1>9, SMT DEF Look, MustComment, SeesPosted, LooksFirst, Found, Fail, row,
       task, platform, incidents, IInv, TypeOK, QueueHolds, PendingHasTask, TaskPc,
       CopyIsRow, CallIsEntitled
  <2>4. CommentPotential'
    BY <1>9, SMT DEF Look, MustComment, SeesPosted, LooksFirst, Found, Fail, row,
       task, platform, incidents, IInv, TypeOK, CopyIsRow, CallIsEntitled, LooksFirst,
       QueueHolds, TaskPc,
       CommentPotential, MayStillComment, NoMore, Acted, RowsLeft
  <2>5. CallPotential'
    BY <1>9, SMT DEF Look, MustComment, SeesPosted, LooksFirst, Found, Fail, row,
       task, platform, incidents, IInv, TypeOK, QueueHolds, TaskPc, CopyIsRow,
       CallPotential, MayStillCall, RowsLeft
  <2> QED
    BY <2>1, <2>2, <2>3, <2>4, <2>5 DEF IInv
<1>10. CASE Success
  <2>1. TypeOK'
    BY <1>10, SMT DEF Success, Created, row, task, platform, incidents, IInv, TypeOK,
       FirstCommentStatus, Pc, Said,
       CopyIsRow, CallIsEntitled, QueueHolds, TaskPc
  <2>2. CopyIsRow' /\ CallIsEntitled'
    BY <1>10, SMT DEF Success, Created, row, task, platform, incidents, IInv, TypeOK,
       CopyIsRow, CallIsEntitled, LooksFirst, QueueHolds, TaskPc, Said
  <2>3. QueueHolds' /\ PendingHasTask'
    BY <1>10, SMT DEF Success, Created, row, task, platform, incidents, IInv, TypeOK,
       QueueHolds, PendingHasTask, TaskPc, CopyIsRow, CallIsEntitled
  <2>4. CommentPotential'
    BY <1>10, SMT DEF Success, Created, row, task, platform, incidents, IInv, TypeOK,
       CopyIsRow, CallIsEntitled, LooksFirst, QueueHolds, TaskPc,
       CommentPotential, MayStillComment, NoMore, Acted, RowsLeft
  <2>5. CallPotential'
    BY <1>10, SMT DEF Success, Created, row, task, platform, incidents, IInv, TypeOK,
       QueueHolds, TaskPc, CopyIsRow, CallPotential, MayStillCall, RowsLeft
  <2> QED
    BY <2>1, <2>2, <2>3, <2>4, <2>5 DEF IInv
<1>11. CASE Ambiguous
  <2>1. TypeOK'
    BY <1>11, SMT DEF Ambiguous, Created, NotCreated, Fail, RetriesAmbiguous, row,
       task, platform, incidents, IInv, TypeOK, FirstCommentStatus, Pc, Said,
       CopyIsRow, CallIsEntitled, QueueHolds, TaskPc
  <2>2. CopyIsRow' /\ CallIsEntitled'
    BY <1>11, SMT DEF Ambiguous, Created, NotCreated, Fail, RetriesAmbiguous, row,
       task, platform, incidents, IInv, TypeOK, CopyIsRow, CallIsEntitled, LooksFirst,
       QueueHolds, TaskPc, Said
  <2>3. QueueHolds' /\ PendingHasTask'
    BY <1>11, SMT DEF Ambiguous, Created, NotCreated, Fail, RetriesAmbiguous, row,
       task, platform, incidents, IInv, TypeOK, QueueHolds, PendingHasTask, TaskPc,
       CopyIsRow, CallIsEntitled
  <2>4. CommentPotential'
    BY <1>11, SMT DEF Ambiguous, Created, NotCreated, Fail, RetriesAmbiguous, row,
       task, platform, incidents, IInv, TypeOK, CopyIsRow, CallIsEntitled, LooksFirst,
       QueueHolds, TaskPc,
       CommentPotential, MayStillComment, NoMore, Acted, RowsLeft
  <2>5. CallPotential'
    BY <1>11, SMT DEF Ambiguous, Created, NotCreated, Fail, RetriesAmbiguous, row,
       task, platform, incidents, IInv, TypeOK, QueueHolds, TaskPc, CopyIsRow,
       CallPotential, MayStillCall, RowsLeft
  <2> QED
    BY <2>1, <2>2, <2>3, <2>4, <2>5 DEF IInv
<1>12. CASE Rejected
  <2>1. TypeOK'
    <3>1. retryable' \in BOOLEAN
      BY <1>12, Zenon DEF Rejected, Fail, IInv, TypeOK, task
    <3> QED
      BY <1>12, <3>1, SMT DEF Rejected, Created, NotCreated, Fail, row, task,
         platform, incidents, IInv, TypeOK, FirstCommentStatus, Pc, Said,
         CopyIsRow, CallIsEntitled, QueueHolds, TaskPc
  <2>2. CopyIsRow' /\ CallIsEntitled'
    BY <1>12, SMT DEF Rejected, Created, NotCreated, Fail, row, task, platform,
       incidents, IInv, TypeOK, CopyIsRow, CallIsEntitled, LooksFirst, QueueHolds,
       TaskPc, Said
  <2>3. QueueHolds' /\ PendingHasTask'
    BY <1>12, SMT DEF Rejected, Created, NotCreated, Fail, row, task, platform,
       incidents, IInv, TypeOK, QueueHolds, PendingHasTask, TaskPc, CopyIsRow,
       CallIsEntitled
  <2>4. CommentPotential'
    BY <1>12, SMT DEF Rejected, Created, NotCreated, Fail, row, task, platform,
       incidents, IInv, TypeOK, CopyIsRow, CallIsEntitled, LooksFirst, QueueHolds,
       TaskPc,
       CommentPotential, MayStillComment, NoMore, Acted, RowsLeft
  <2>5. CallPotential'
    BY <1>12, SMT DEF Rejected, Created, NotCreated, Fail, row, task, platform,
       incidents, IInv, TypeOK, QueueHolds, TaskPc, CopyIsRow, CallPotential,
       MayStillCall, RowsLeft
  <2> QED
    BY <2>1, <2>2, <2>3, <2>4, <2>5 DEF IInv
<1>13. CASE MarkPosted
  <2>1. TypeOK'
    BY <1>13, SMT DEF MarkPosted, row, task, platform, incidents, IInv, TypeOK,
       FirstCommentStatus, Pc, Said,
       CopyIsRow, CallIsEntitled, QueueHolds, TaskPc
  <2>2. CopyIsRow' /\ CallIsEntitled'
    BY <1>13, SMT DEF MarkPosted, row, task, platform, incidents, IInv, TypeOK,
       CopyIsRow, CallIsEntitled, LooksFirst, QueueHolds, TaskPc, Said
  <2>3. QueueHolds' /\ PendingHasTask'
    BY <1>13, SMT DEF MarkPosted, row, task, platform, incidents, IInv, TypeOK,
       QueueHolds, PendingHasTask, TaskPc, CopyIsRow, CallIsEntitled
  <2>4. CommentPotential'
    BY <1>13, SMT DEF MarkPosted, row, task, platform, incidents, IInv, TypeOK,
       CopyIsRow, CallIsEntitled, LooksFirst, QueueHolds, TaskPc,
       CommentPotential, MayStillComment, NoMore, Acted, RowsLeft
  <2>5. CallPotential'
    BY <1>13, SMT DEF MarkPosted, row, task, platform, incidents, IInv, TypeOK,
       QueueHolds, TaskPc, CopyIsRow, CallPotential, MayStillCall, RowsLeft
  <2> QED
    BY <2>1, <2>2, <2>3, <2>4, <2>5 DEF IInv
<1>14. CASE RecordFailure
  <2>1. TypeOK'
    BY <1>14, SMT DEF RecordFailure, Exhausted, row, task, platform, incidents, IInv,
       TypeOK, FirstCommentStatus, Pc, Said,
       CopyIsRow, CallIsEntitled, QueueHolds, TaskPc
  <2>2. CopyIsRow' /\ CallIsEntitled'
    BY <1>14, SMT DEF RecordFailure, Exhausted, row, task, platform, incidents, IInv,
       TypeOK, CopyIsRow, CallIsEntitled, LooksFirst, QueueHolds, TaskPc, Said
  <2>3. QueueHolds' /\ PendingHasTask'
    BY <1>14, SMT DEF RecordFailure, Exhausted, row, task, platform, incidents, IInv,
       TypeOK, QueueHolds, PendingHasTask, TaskPc, CopyIsRow, CallIsEntitled
  <2>4. CommentPotential'
    BY <1>14, SMT DEF RecordFailure, Exhausted, row, task, platform, incidents, IInv,
       TypeOK, CopyIsRow, CallIsEntitled, LooksFirst, QueueHolds, TaskPc,
       CommentPotential, MayStillComment, NoMore, Acted, RowsLeft
  <2>5. CallPotential'
    BY <1>14, SMT DEF RecordFailure, Exhausted, row, task, platform, incidents, IInv,
       TypeOK, QueueHolds, TaskPc, CopyIsRow, CallPotential, MayStillCall, RowsLeft
  <2> QED
    BY <2>1, <2>2, <2>3, <2>4, <2>5 DEF IInv
<1>15. CASE Requeue
  <2>1. TypeOK'
    BY <1>15, SMT DEF Requeue, row, task, platform, incidents, IInv, TypeOK,
       FirstCommentStatus, Pc, Said,
       CopyIsRow, CallIsEntitled, QueueHolds, TaskPc
  <2>2. CopyIsRow' /\ CallIsEntitled'
    BY <1>15, SMT DEF Requeue, row, task, platform, incidents, IInv, TypeOK,
       CopyIsRow, CallIsEntitled, LooksFirst, QueueHolds, TaskPc, Said
  <2>3. QueueHolds' /\ PendingHasTask'
    BY <1>15, SMT DEF Requeue, row, task, platform, incidents, IInv, TypeOK,
       QueueHolds, PendingHasTask, TaskPc, CopyIsRow, CallIsEntitled
  <2>4. CommentPotential'
    BY <1>15, SMT DEF Requeue, row, task, platform, incidents, IInv, TypeOK,
       CopyIsRow, CallIsEntitled, LooksFirst, QueueHolds, TaskPc,
       CommentPotential, MayStillComment, NoMore, Acted, RowsLeft
  <2>5. CallPotential'
    BY <1>15, SMT DEF Requeue, row, task, platform, incidents, IInv, TypeOK,
       QueueHolds, TaskPc, CopyIsRow, CallPotential, MayStillCall, RowsLeft
  <2> QED
    BY <2>1, <2>2, <2>3, <2>4, <2>5 DEF IInv
<1>16. CASE Finish
  <2>1. TypeOK'
    BY <1>16, SMT DEF Finish, row, task, platform, incidents, IInv, TypeOK,
       FirstCommentStatus, Pc, Said,
       CopyIsRow, CallIsEntitled, QueueHolds, TaskPc
  <2>2. CopyIsRow' /\ CallIsEntitled'
    BY <1>16, SMT DEF Finish, row, task, platform, incidents, IInv, TypeOK, CopyIsRow,
       CallIsEntitled, LooksFirst, QueueHolds, TaskPc, Said
  <2>3. QueueHolds' /\ PendingHasTask'
    BY <1>16, SMT DEF Finish, row, task, platform, incidents, IInv, TypeOK,
       QueueHolds, PendingHasTask, TaskPc, CopyIsRow, CallIsEntitled
  <2>4. CommentPotential'
    BY <1>16, SMT DEF Finish, row, task, platform, incidents, IInv, TypeOK, CopyIsRow,
       CallIsEntitled, LooksFirst, QueueHolds, TaskPc,
       CommentPotential, MayStillComment, NoMore, Acted, RowsLeft
  <2>5. CallPotential'
    BY <1>16, SMT DEF Finish, row, task, platform, incidents, IInv, TypeOK,
       QueueHolds, TaskPc, CopyIsRow, CallPotential, MayStillCall, RowsLeft
  <2> QED
    BY <2>1, <2>2, <2>3, <2>4, <2>5 DEF IInv
<1>17. CASE Interrupt
  <2>1. TypeOK'
    BY <1>17, SMT DEF Interrupt, row, task, platform, incidents, IInv, TypeOK,
       FirstCommentStatus, Pc, Said,
       CopyIsRow, CallIsEntitled, QueueHolds, TaskPc
  <2>2. CopyIsRow' /\ CallIsEntitled'
    BY <1>17, SMT DEF Interrupt, row, task, platform, incidents, IInv, TypeOK,
       CopyIsRow, CallIsEntitled, LooksFirst, QueueHolds, TaskPc, Said
  <2>3. QueueHolds' /\ PendingHasTask'
    BY <1>17, SMT DEF Interrupt, row, task, platform, incidents, IInv, TypeOK,
       QueueHolds, PendingHasTask, TaskPc, CopyIsRow, CallIsEntitled
  <2>4. CommentPotential'
    BY <1>17, SMT DEF Interrupt, row, task, platform, incidents, IInv, TypeOK,
       CopyIsRow, CallIsEntitled, LooksFirst, QueueHolds, TaskPc,
       CommentPotential, MayStillComment, NoMore, Acted, RowsLeft
  <2>5. CallPotential'
    BY <1>17, SMT DEF Interrupt, row, task, platform, incidents, IInv, TypeOK,
       QueueHolds, TaskPc, CopyIsRow, CallPotential, MayStillCall, RowsLeft
  <2> QED
    BY <2>1, <2>2, <2>3, <2>4, <2>5 DEF IInv
<1>18. CASE UNCHANGED vars
    BY <1>18, SMT DEF vars, row, task, platform, incidents, IInv, TypeOK, CopyIsRow,
       CallIsEntitled,
       LooksFirst, QueueHolds, PendingHasTask, CommentPotential, MayStillComment, NoMore,
       Acted, RowsLeft, CallPotential, MayStillCall
<1> QED
    BY <1>1, <1>2, <1>3, <1>4, <1>5, <1>6, <1>7, <1>8, <1>9, <1>10, <1>11, <1>12,
       <1>13, <1>14, <1>15, <1>16, <1>17, <1>18
    DEF Next, Work, Post, Record

LEMMA SpecIInv == Spec => []IInv
  BY InitIInv, StepIInv, PTL DEF Spec

-----------------------------------------------------------------------------
(* The status, the counts and the place of the worker have their types; in
   particular the retry count never passes its limit (engine.py 1506). *)
THEOREM FirstCommentTypeCorrect == Spec => []TypeOK
<1>1. IInv => TypeOK
  BY DEF IInv
<1> QED
  BY SpecIInv, <1>1, PTL

(* For any retry limit, any number of interruptions and whatever the platform
   answers, no text is commented twice but for an interruption or a lost
   record (engine.py 1407-1446, 1567-1570, 1600-1631). *)
THEOREM OneComment == Spec => []CommentedOnce
<1>1. IInv => CommentedOnce
  <2> SUFFICES ASSUME IInv, NEW t \in Texts
               PROVE  comments[t] <= 1 + interruptions + unrecorded
      BY DEF CommentedOnce
  <2>1. MayStillComment(t) \in Nat
    BY SMT DEF IInv, TypeOK, Pc, QueueHolds, TaskPc, MayStillComment, Acted, RowsLeft
  <2>2. comments[t] + MayStillComment(t) <= 1 + interruptions + unrecorded
    BY DEF IInv, CommentPotential
  <2> QED
    BY <2>1, <2>2, SMT DEF IInv, TypeOK
<1> QED
  BY SpecIInv, <1>1, PTL

(* The platform is asked at most once per retry allowed and once per
   interruption (engine.py 1540-1546). *)
THEOREM BudgetKept == Spec => []CallsBounded
<1>1. IInv => CallsBounded
  <2> SUFFICES ASSUME IInv PROVE CallsBounded
      OBVIOUS
  <2>1. MayStillCall \in Nat
    BY SMT DEF IInv, TypeOK, Pc, QueueHolds, TaskPc, MayStillCall, RowsLeft
  <2>2. calls + MayStillCall <= 1 + retries + interruptions
    BY DEF IInv, CallPotential
  <2> QED
    BY <2>1, <2>2, FirstCommentAssumption, SMT DEF IInv, TypeOK, CallsBounded
<1> QED
  BY SpecIInv, <1>1, PTL

(* A pending row has a task behind it, but for a lost record or a text that
   was taken away (engine.py 529-532, 1609-1613). *)
THEOREM PendingIsBacked == Spec => []PendingHasTask
<1>1. IInv => PendingHasTask
  BY DEF IInv
<1> QED
  BY SpecIInv, <1>1, PTL

(* No step walks a posted comment back: a task that has read the row before
   it was posted never gets to write (engine.py 1567-1570). *)
LEMMA StepKeepsPosted ==
  IInv /\ [Next]_vars => [status = "posted" => status' = "posted"]_vars
<1> SUFFICES ASSUME IInv, [Next]_vars, status = "posted" PROVE status' = "posted"
    OBVIOUS
<1>1. pc \notin {"unmarked", "confirmed", "failing"}
  BY DEF IInv, QueueHolds, CallIsEntitled
<1>2. CASE MarkPending \/ MarkPosted \/ RecordFailure
  BY <1>1, <1>2, SMT DEF MarkPending, MarkPosted, RecordFailure
<1>3. CASE UNCHANGED row
  BY <1>3, SMT DEF row
<1>4. MarkPending \/ MarkPosted \/ RecordFailure \/ UNCHANGED row
  BY Zenon
  DEF Next, Work, Post, Record, vars, Enqueue, EditText, Load, AlreadyPosted, NothingToPost,
      CannotStart, GoAhead, Look, Success, Ambiguous, Rejected, Requeue, Finish, Interrupt
<1> QED
  BY <1>2, <1>3, <1>4

(* A comment recorded as posted stays recorded (engine.py 1567-1570). *)
THEOREM PostedStays == Spec => PostedStaysPosted
  BY SpecIInv, StepKeepsPosted, PTL DEF Spec, PostedStaysPosted
=============================================================================
