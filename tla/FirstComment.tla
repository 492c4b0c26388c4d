--------------------------- MODULE FirstComment ---------------------------
(***************************************************************************)
(* The first comment of a published row.  The publish path queues a        *)
(* background task once the row is published and marks it pending; the     *)
(* task posts the comment, looking first for one an earlier attempt may    *)
(* have left, and queues itself again while a retry can help.              *)
(*                                                                         *)
(* One worker process runs the publish cycle and the tasks one after the   *)
(* other.  A task's row is deleted when the task returns: one that is      *)
(* interrupted (killed, or stopped by a database error) runs again.        *)
(*                                                                         *)
(* Source: apps/publisher/engine.py 508-536, 1407-1666.                    *)
(***************************************************************************)
EXTENDS Integers

CONSTANTS
  Texts,            \* what the comment may say
  NoText,           \* there is no first comment
  FIRST_COMMENT_MAX_RETRIES,
  MaxInterruptions  \* bound on interruptions of the worker

ASSUME FirstCommentAssumption ==
  /\ NoText \notin Texts
  /\ FIRST_COMMENT_MAX_RETRIES \in Nat
  /\ MaxInterruptions \in Nat

VARIABLES
  status,         \* first_comment_status
  retries,        \* first_comment_retry_count
  queued,         \* rows of the task queue, the running task's included
  pc,             \* where the worker is
  text,           \* effective_first_comment, which a save may change
  seen,           \* what the task read: status, retry count, text
  retryable,      \* what the task concluded of a failure
  reconciles,     \* can the platform be asked for a comment of ours?
  comments,       \* copies of each text under the post on the platform
  calls,          \* times the platform was asked to create one
  interruptions,
  unrecorded,     \* comments that are on the platform and could not be recorded
  dropped         \* tasks that found no text to post

Said == Texts \cup {NoText}

row == <<status, retries>>
task == <<seen, retryable>>
platform == <<reconciles, comments, calls>>
incidents == <<interruptions, unrecorded, dropped>>
vars == <<row, text, queued, pc, task, platform, incidents>>

FirstCommentStatus == {"none", "pending", "posted", "failed"}
Pc == {"published", "unmarked", "idle",
       "loaded", "call", "confirmed", "failing", "requeue", "done"}

Init ==
  /\ status = "none" /\ retries = 0
  /\ queued = 0
  /\ pc = "published"
  /\ text \in Said
  /\ seen = [status |-> "none", retries |-> 0, text |-> NoText]
  /\ retryable = FALSE
  /\ reconciles \in BOOLEAN
  /\ comments = [t \in Texts |-> 0] /\ calls = 0
  /\ interruptions = 0 /\ unrecorded = 0 /\ dropped = 0

-----------------------------------------------------------------------------
(* The publish path: the task is queued first, the row marked after it.    *)

Enqueue ==
  /\ pc = "published"
  /\ status \notin {"pending", "posted"}
  /\ text # NoText
  /\ queued' = queued + 1
  /\ pc' = "unmarked"
  /\ UNCHANGED <<row, text, task, platform, incidents>>

MarkPending ==
  /\ pc = "unmarked"
  /\ status' = "pending"
  /\ pc' = "idle"
  /\ UNCHANGED <<retries, text, queued, task, platform, incidents>>

-----------------------------------------------------------------------------
\* The text is the post's, unless the row overrides it: a post with one row
\* published is still edited for the others.
EditText ==
  /\ text' \in Said \ {text}
  /\ UNCHANGED <<row, queued, pc, task, platform, incidents>>

-----------------------------------------------------------------------------
(* The task                                                                *)

Load ==
  /\ pc = "idle"
  /\ queued > 0
  /\ seen' = [status |-> status, retries |-> retries, text |-> text]
  /\ pc' = "loaded"
  /\ UNCHANGED <<row, text, queued, retryable, platform, incidents>>

SeesPosted == seen.status = "posted"

AlreadyPosted ==
  /\ pc = "loaded"
  /\ SeesPosted
  /\ pc' = "done"
  /\ UNCHANGED <<row, text, queued, task, platform, incidents>>

\* The text is gone: the task returns, and records nothing.
NothingToPost ==
  /\ pc = "loaded"
  /\ ~SeesPosted
  /\ seen.text = NoText
  /\ dropped' = dropped + 1
  /\ pc' = "done"
  /\ UNCHANGED <<row, text, queued, task, platform, interruptions, unrecorded>>

\* The row is not posted, and there is something to post.
MustComment == ~SeesPosted /\ seen.text # NoText

Fail(canRetry) == pc' = "failing" /\ retryable' = canRetry

\* No handle was recorded, or the provider cannot be built.
CannotStart ==
  /\ pc = "loaded"
  /\ MustComment
  /\ \E canRetry \in BOOLEAN : Fail(canRetry)
  /\ UNCHANGED <<row, text, queued, seen, platform, incidents>>

\* A retry looks before it posts, where the platform can be asked.
LooksFirst == seen.retries > 0 /\ reconciles

GoAhead ==
  /\ pc = "loaded"
  /\ MustComment
  /\ ~LooksFirst
  /\ pc' = "call"
  /\ UNCHANGED <<row, text, queued, task, platform, incidents>>

\* A comment is recognised by its text.
Found == comments[seen.text] > 0

\* find_own_comment finds one, finds none, or raises: then the attempt stops
\* without posting, and must be recorded like any other failure.
Look_Unrecorded ==
  /\ pc = "loaded" /\ MustComment /\ LooksFirst
  /\ pc' \in (IF Found THEN {"confirmed"} ELSE {"call"}) \cup {"done"}
  /\ UNCHANGED <<row, text, queued, task, platform, incidents>>

Look ==
  /\ pc = "loaded"
  /\ MustComment
  /\ LooksFirst
  /\ \/ Found /\ pc' = "confirmed" /\ UNCHANGED retryable
     \/ ~Found /\ pc' = "call" /\ UNCHANGED retryable
     \/ Fail(TRUE)
  /\ UNCHANGED <<row, text, queued, seen, platform, incidents>>

Created == comments' = [comments EXCEPT ![seen.text] = @ + 1]
NotCreated == comments' = comments

Success ==
  /\ pc = "call"
  /\ Created
  /\ calls' = calls + 1
  /\ pc' = "confirmed"
  /\ UNCHANGED <<row, text, queued, task, reconciles, incidents>>

\* A timeout, a dropped connection, a 5xx: the comment may be there.  Retried
\* only where the next attempt can look, and where the error allows it.
RetriesAmbiguous_Always == TRUE
RetriesAmbiguous == reconciles

Ambiguous ==
  /\ pc = "call"
  /\ Created \/ NotCreated
  /\ calls' = calls + 1
  /\ \E permanent \in BOOLEAN : Fail(~permanent /\ RetriesAmbiguous)
  /\ UNCHANGED <<row, text, queued, seen, reconciles, incidents>>

\* A clean 4xx is final, even from a platform that created the comment all the
\* same; a rate limit or an expired token is worth another attempt.
Rejected ==
  /\ pc = "call"
  /\ \/ (Created \/ NotCreated) /\ Fail(FALSE)
     \/ NotCreated /\ Fail(TRUE)
  /\ calls' = calls + 1
  /\ UNCHANGED <<row, text, queued, seen, reconciles, incidents>>

\* The update that fails is swallowed: the task must not run again for it.
MarkPosted ==
  /\ pc = "confirmed"
  /\ \/ status' = "posted" /\ UNCHANGED unrecorded
     \/ UNCHANGED status /\ unrecorded' = unrecorded + 1
  /\ pc' = "done"
  /\ UNCHANGED <<retries, text, queued, task, platform, interruptions, dropped>>

Exhausted == seen.retries >= FIRST_COMMENT_MAX_RETRIES

RecordFailure_Uncounted ==
  /\ pc = "failing"
  /\ IF ~retryable \/ Exhausted
       THEN status' = "failed" /\ pc' = "done"
       ELSE status' = "pending" /\ pc' = "requeue"
  /\ UNCHANGED <<retries, text, queued, task, platform, incidents>>

RecordFailure ==
  /\ pc = "failing"
  /\ IF ~retryable \/ Exhausted
       THEN status' = "failed" /\ pc' = "done" /\ UNCHANGED retries
       ELSE status' = "pending" /\ pc' = "requeue" /\ retries' = retries + 1
  /\ UNCHANGED <<text, queued, task, platform, incidents>>

Requeue_Forgotten ==
  /\ pc = "requeue"
  /\ pc' = "done"
  /\ UNCHANGED <<row, text, queued, task, platform, incidents>>

Requeue ==
  /\ pc = "requeue"
  /\ queued' = queued + 1
  /\ pc' = "done"
  /\ UNCHANGED <<row, text, task, platform, incidents>>

\* The task returns and its row goes.
Finish ==
  /\ pc = "done"
  /\ queued' = queued - 1
  /\ pc' = "idle"
  /\ UNCHANGED <<row, text, task, platform, incidents>>

\* What the worker held in memory is gone; the rows stay as they are.
Interrupt ==
  /\ pc # "idle"
  /\ interruptions < MaxInterruptions
  /\ interruptions' = interruptions + 1
  /\ pc' = "idle"
  /\ UNCHANGED <<row, text, queued, task, platform, unrecorded, dropped>>

Post == Success \/ Ambiguous \/ Rejected
Record == MarkPosted \/ RecordFailure \/ Requeue
Work == \/ Enqueue \/ MarkPending
        \/ Load \/ AlreadyPosted \/ NothingToPost \/ CannotStart \/ GoAhead \/ Look
        \/ Post \/ Record \/ Finish

Next == Work \/ EditText \/ Interrupt

Spec == Init /\ [][Next]_vars

\* The worker runs what is queued, and platform calls end (every client has a
\* timeout).  Interruptions are neither assumed nor excluded.
FairSpec == Spec /\ WF_vars(Work)

-----------------------------------------------------------------------------
TypeOK ==
  /\ status \in FirstCommentStatus
  /\ retries \in 0..FIRST_COMMENT_MAX_RETRIES
  /\ queued \in Nat
  /\ pc \in Pc
  /\ text \in Said
  /\ seen \in [status : FirstCommentStatus,
              retries : 0..FIRST_COMMENT_MAX_RETRIES, text : Said]
  /\ retryable \in BOOLEAN
  /\ reconciles \in BOOLEAN
  /\ comments \in [Texts -> Nat] /\ calls \in Nat
  /\ interruptions \in Nat /\ unrecorded \in Nat /\ dropped \in Nat

(* No text is commented twice: every further copy needs an interruption of *)
(* the worker or a comment whose record was lost.  No sequence of retries, *)
(* edits, ambiguous failures and answers that deny what they did is enough *)
(* (engine.py 1407-1446, 1567-1570, 1600-1631).                            *)
CommentedOnce ==
  \A t \in Texts : comments[t] <= 1 + interruptions + unrecorded

(* The platform is asked at most once per retry allowed, plus once for     *)
(* each interruption: the count is kept by the row, so that two tasks on   *)
(* the same row share one budget (engine.py 1540-1546).                    *)
CallsBounded == calls <= 1 + FIRST_COMMENT_MAX_RETRIES + interruptions

(* A row that reads pending has a task behind it, interruptions included:  *)
(* otherwise it would read pending for ever and the post as fully          *)
(* successful (engine.py 529-532, 1609-1613).  The exceptions are a comment *)
(* that is live and could not be recorded (1461-1480), and a text taken    *)
(* away before it was posted.                                              *)
PendingHasTask ==
  status = "pending" => queued > 0 \/ unrecorded > 0 \/ dropped > 0

(* The same, as the code's comments have it: every exit of the task records *)
(* its outcome, but for the save that fails.                               *)
EveryExitRecords == status = "pending" => queued > 0 \/ unrecorded > 0

(* A comment recorded as posted stays so: no late task walks it back to    *)
(* pending or failed.                                                      *)
PostedStaysPosted == [][status = "posted" => status' = "posted"]_vars

(* A queued first comment is settled, whatever fails and whoever is        *)
(* interrupted: the row ends posted or failed, where a person can see it.  *)
CommentSettles ==
  queued > 0 ~> status \in {"posted", "failed"} \/ unrecorded > 0 \/ dropped > 0
=============================================================================
