------------------------- MODULE PlatformPostStatus -------------------------
(***************************************************************************)
(* The editorial state machine of one PlatformPost row (a post's copy for  *)
(* one social account), and the aggregation of a post's rows into the      *)
(* status the composer and the calendar show.                              *)
(*                                                                         *)
(* Source: apps/composer/models.py (PlatformPost.Status,                   *)
(* VALID_TRANSITIONS, can_transition_to) and apps/composer/status.py.      *)
(***************************************************************************)
EXTENDS Integers, FiniteSets

Status == {"draft", "pending_review", "pending_client", "approved",
           "changes_requested", "rejected", "scheduled", "publishing",
           "published", "failed", "on_hold"}

\* The allowed targets of each status.
VALID_TRANSITIONS ==
  [draft             |-> {"pending_review", "scheduled", "publishing"},
   pending_review    |-> {"approved", "changes_requested", "rejected"},
   approved          |-> {"pending_client", "scheduled", "publishing", "draft",
                          "on_hold", "pending_review"},
   pending_client    |-> {"approved", "changes_requested", "rejected"},
   changes_requested |-> {"pending_review", "draft"},
   rejected          |-> {"draft", "pending_review"},
   scheduled         |-> {"publishing", "draft"},
   publishing        |-> {"published", "failed", "scheduled"},
   failed            |-> {"publishing", "draft", "scheduled"},
   on_hold           |-> {"approved", "draft", "changes_requested"},
   published         |-> {}]

CanTransition(from, to) == to \in VALID_TRANSITIONS[from]

-----------------------------------------------------------------------------
(* Aggregation: apps/composer/status.py                                    *)

\* A name the order does not list ranks last; "failed" is such a name.
WorkflowRank ==
  [s \in Status |-> CASE s = "draft"             -> 0
                      [] s = "changes_requested" -> 1
                      [] s = "rejected"          -> 2
                      [] s = "on_hold"           -> 3
                      [] s = "pending_review"    -> 4
                      [] s = "pending_client"    -> 5
                      [] s = "approved"          -> 6
                      [] s = "scheduled"         -> 7
                      [] s = "publishing"        -> 8
                      [] s = "published"         -> 10
                      [] OTHER                   -> 11]

Lowest(S) == CHOOSE s \in S : \A t \in S : WorkflowRank[s] <= WorkflowRank[t]

\* Mutant: one live channel makes the whole post live.
DeriveAnyPublished(S) ==
  IF "published" \in S THEN "published" ELSE IF S = {} THEN "draft" ELSE Lowest(S)

\* derive_post_status looks only at the set of the children's statuses.
DerivePostStatus(S) ==
  IF S = {} THEN "draft"
  ELSE IF S = {"published", "failed"} THEN "partially_published"
  ELSE IF Lowest(S) = "on_hold" /\ "published" \in S THEN "partially_published"
  ELSE Lowest(S)

\* The aggregate statuses over which the composer offers no edit.
READONLY_STATUSES == {"publishing", "partially_published", "published"}
=============================================================================
