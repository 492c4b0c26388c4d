----------------------------- MODULE AgentPosts -----------------------------
(***************************************************************************)
(* POST /posts of the Agent API under one Idempotency-Key                  *)
(* (api/routers/posts.py, api/middleware.py, api/limits.py, api/tasks.py). *)
(* An agent retries while earlier attempts are still at work, workers die  *)
(* between any two statements, the UPDATE that records the answer may fail *)
(* before or after it commits, and an hourly sweep drops old records.      *)
(***************************************************************************)
EXTENDS Naturals, FiniteSets

CONSTANTS Attempts,     \* the agent's attempts with the key
          Bodies,       \* what an attempt may ask for: request fingerprints
          Posts,        \* the posts that may be created
          DailyLimit    \* resolve_platform_limit of the account

VARIABLES record,       \* the IdempotencyRecord of the key: at most one
          posts,        \* the posts created under the key
          attempt,      \* where each attempt stands
          era           \* ghost: how often the sweep dropped the record

vars == <<record, posts, attempt, era>>

PENDING_STATUS_SENTINEL == 0
Nothing == [pc |-> "new", body |-> {}, post |-> {}, era |-> 0]

Init ==
  /\ record = {}
  /\ posts = {}
  /\ attempt = [a \in Attempts |-> Nothing]
  /\ era = 0

Goto(a, pc) == attempt' = [attempt EXCEPT ![a].pc = pc]

-----------------------------------------------------------------------------
(* claim_idempotency_slot                                                  *)

\* Mutant of Free: the slot is looked up first and taken when nobody has
\* answered yet.
Free_ReadFirst == \A r \in record : r.status = PENDING_STATUS_SENTINEL

\* The INSERT meets no row of this key.
Free == record = {}

Claim(a, body) ==
  /\ attempt[a].pc = "new"
  /\ Free
  /\ record' = {[body |-> body, status |-> PENDING_STATUS_SENTINEL, post |-> {}]}
  /\ attempt' = [attempt EXCEPT ![a] = [Nothing EXCEPT !.pc = "quota", !.body = {body}]]
  /\ UNCHANGED <<posts, era>>

\* It meets one: another body is refused, a claim at work answers 409, a
\* recorded answer is replayed.
Replay(a, body) ==
  /\ attempt[a].pc = "new"
  /\ ~Free
  /\ \E r \in record : attempt' = [attempt EXCEPT ![a] =
       [pc |-> IF r.body # body THEN "unprocessable"
               ELSE IF r.status = PENDING_STATUS_SENTINEL THEN "conflict"
               ELSE "created",
        body |-> {body}, post |-> r.post, era |-> era]]
  /\ UNCHANGED <<record, posts, era>>

-----------------------------------------------------------------------------
(* The claim's owner                                                       *)

\* check_platform_quota, with no lock.
CheckQuota(a) ==
  /\ attempt[a].pc = "quota"
  /\ Goto(a, IF Cardinality(posts) < DailyLimit THEN "create" ELSE "release")
  /\ UNCHANGED <<record, posts, era>>

\* create_post commits, or raises and creates nothing.
CreatePost(a) ==
  /\ attempt[a].pc = "create"
  /\ \E p \in Posts \ posts :
       /\ posts' = posts \cup {p}
       /\ attempt' = [attempt EXCEPT ![a].pc = "finalize", ![a].post = {p}]
  /\ UNCHANGED <<record, era>>

CreateFails(a) ==
  /\ attempt[a].pc = "create"
  /\ Goto(a, "release")
  /\ UNCHANGED <<record, posts, era>>

\* finalize_idempotent_response updates whatever row the key has by then.
Answered(a) ==
  record' = {[r EXCEPT !.status = 201, !.post = attempt[a].post] : r \in record}

Finalize(a) ==
  /\ attempt[a].pc = "finalize"
  /\ Answered(a)
  /\ attempt' = [attempt EXCEPT ![a].pc = "created", ![a].era = era]
  /\ UNCHANGED <<posts, era>>

\* Building the answer, the audit row or the UPDATE raises; the UPDATE may
\* have committed all the same.
FinalizeRaises(a) ==
  /\ attempt[a].pc = "finalize"
  /\ Answered(a) \/ UNCHANGED record
  /\ Goto(a, "release")
  /\ UNCHANGED <<posts, era>>

\* release_idempotent_claim deletes the row only while it is pending.
Released == {r \in record : r.status # PENDING_STATUS_SENTINEL}

Release(a) ==
  /\ attempt[a].pc = "release"
  /\ record' = Released
  /\ Goto(a, "failed")
  /\ UNCHANGED <<posts, era>>

AtWork(a) == attempt[a].pc \in {"quota", "create", "finalize", "release"}

Die(a) ==
  /\ AtWork(a)
  /\ Goto(a, "failed")
  /\ UNCHANGED <<record, posts, era>>

\* sweep_stale_idempotency_records: the row is a day old, the attempts of that
\* day are over.
Sweep ==
  /\ record # {}
  /\ \A a \in Attempts : ~AtWork(a)
  /\ record' = {}
  /\ era' = era + 1
  /\ UNCHANGED <<posts, attempt>>

Next ==
  \/ \E a \in Attempts :
       \/ \E body \in Bodies : Claim(a, body) \/ Replay(a, body)
       \/ CheckQuota(a) \/ CreatePost(a) \/ CreateFails(a)
       \/ Finalize(a) \/ FinalizeRaises(a) \/ Release(a) \/ Die(a)
  \/ Sweep

Spec == Init /\ [][Next]_vars

-----------------------------------------------------------------------------
(* The key makes retries safe (api/models.py, IdempotencyRecord): all      *)
(* answers given under it between two sweeps name one post and one body,   *)
(* and a further post exists only when a worker failed after it had        *)
(* created one.                                                            *)
RetriesAreSafe ==
  LET Created == {a \in Attempts : attempt[a].pc = "created"}
      LostPost == {a \in Attempts : attempt[a].pc \in {"release", "failed"}
                                    /\ attempt[a].post # {}}
  IN  /\ \A a, b \in Created : attempt[a].era = attempt[b].era =>
           attempt[a].post = attempt[b].post /\ attempt[a].body = attempt[b].body
      /\ Cardinality(posts) <= era + 1 + Cardinality(LostPost)
=============================================================================
