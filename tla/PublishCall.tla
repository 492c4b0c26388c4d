---------------------------- MODULE PublishCall ----------------------------
(***************************************************************************)
(* What the publish engine takes a provider's publish_post to be: a call   *)
(* that puts one post up and returns, or raises with nothing put up, or    *)
(* loses sight of the submission itself.  Only the last leaves open        *)
(* whether a post went up, so only after it can a retry post twice.        *)
(***************************************************************************)
EXTENDS Naturals

VARIABLES
  answer,   \* of the call: none yet, returned, or how it raised
  posted,   \* has this call put its post up, for all it knows?
  live,     \* posts that are up
  unclear   \* was the answer to some submission lost?

callVars == <<answer, posted, live, unclear>>

Init == answer = "none" /\ posted = FALSE /\ live = 0 /\ unclear = FALSE

GoLive ==
  /\ answer = "none" /\ ~posted
  /\ posted' = TRUE
  /\ live' = live + 1
  /\ UNCHANGED <<answer, unclear>>

Return ==
  /\ answer = "none" /\ posted
  /\ answer' = "returned"
  /\ UNCHANGED <<posted, live, unclear>>

Raise ==
  /\ answer = "none" /\ ~posted
  /\ answer' \in {"retryable", "permanent"}
  /\ UNCHANGED <<posted, live, unclear>>

LoseSight ==
  /\ answer = "none" /\ ~posted
  /\ answer' = "retryable"
  /\ live' \in {live, live + 1}
  /\ unclear' = TRUE
  /\ UNCHANGED posted

Retry ==
  /\ answer = "retryable"
  /\ answer' = "none"
  /\ UNCHANGED <<posted, live, unclear>>

Next == GoLive \/ Return \/ Raise \/ LoseSight \/ Retry

Spec == Init /\ [][Next]_callVars
=============================================================================
