------------------------------ MODULE Editorial ------------------------------
(***************************************************************************)
(* The review of one post: its rows walk through submission, internal and  *)
(* client approval, holds and rejections while its content is edited, its  *)
(* rows are scheduled past or through the approval gate, and an hourly     *)
(* task reminds whoever has not decided and escalates what stays stalled.  *)
(*                                                                         *)
(* A request reads the rows in one step and writes them in another.        *)
(*                                                                         *)
(* Source: apps/approvals/services.py and tasks.py; the saves and chips of *)
(* apps/composer/views.py, the gate of apps/composer/services.py; the      *)
(* portal of apps/client_portal/views.py calls the same services.          *)
(***************************************************************************)
EXTENDS PlatformPostStatus

CONSTANTS
  Rows,          \* the PlatformPost rows of the post
  Handlers,
  Crews,         \* who serves which requests, and the stages the task looks at: a bound
  Modes,         \* approval_workflow_mode of the workspaces considered
  Idle,
  MAX_REMINDERS,
  MaxEdits,      \* bound on contents written
  MaxKills       \* bound on reminder tasks killed

Stages == {"pending_review", "pending_client"}

Decisions == {"approve", "request_changes", "reject", "hold", "resume"}
Saves == {"save", "schedule", "queue", "submit", "resubmit"}
Kinds == Decisions \cup Saves \cup {"chip", "rest"}

ASSUME EditorialAssumption ==
  /\ Crews \subseteq [handlers : SUBSET Handlers, kinds : SUBSET Kinds, reminding : SUBSET Stages]
  /\ Modes \subseteq {"none", "optional", "required_internal", "required_internal_and_client"}
  /\ MAX_REMINDERS \in Nat
  /\ MaxEdits \in Nat
  /\ MaxKills \in Nat

\* A request that has read the rows, one chip with its target, a save with its
\* form, a save about to send rows back, and one about to read the rest again.
Read == [kind : Kinds \ {"save", "chip", "rest"}, pc : {"apply"},
         rows : SUBSET Rows, copy : [Rows -> Status]]
Chosen == [kind : {"chip", "rest"}, pc : {"apply"},
           rows : SUBSET Rows, copy : [Rows -> Status], to : Status]
Form == [kind : Saves, pc : {"save"}, rows : {Rows}, orig : 0..MaxEdits, form : 0..MaxEdits]
Written == [kind : {"save", "schedule"}, pc : {"look"}, rows : {Rows},
            orig : 0..MaxEdits, form : 0..MaxEdits]
           \cup [kind : Saves \ {"save"}, pc : {"load"}, rows : {Rows},
                 orig : 0..MaxEdits, form : 0..MaxEdits]
SendingBack == [kind : {"save", "schedule"}, pc : {"revert"},
                rows : {Rows}, copy : [Rows -> Status]]
Rereading == [kind : {"schedule"}, pc : {"load"}, rows : SUBSET Rows]
Request == Read \cup Chosen \cup Form \cup Written \cup SendingBack \cup Rereading

Job == [stage : Stages, does : {"remind", "escalate"}, pc : {"send", "save"},
        count : 0..(MAX_REMINDERS + 1)]

ASSUME IdleAssumption == Idle \notin Request \cup Job

VARIABLES
  crew,
  mode,      \* the workspace's approval_workflow_mode
  status,    \* per row
  content,   \* the content of the post, numbered as it is written
  request,   \* per handler, the request in progress
  updated,   \* thresholds passed since Post.updated_at: 0, 24 hours, 48 hours
  reminder,  \* per stage, its ApprovalReminder
  job,       \* the reminder task's work on one stage
  decided,   \* per row, the content it was last approved with
  slipped,   \* rows written from a stale read, or edited by a save that does not look
  sent,      \* per stage, reminders sent since its count was last reset
  told,      \* stages escalated since a row last entered them
  muted,     \* stages entered, or reset, under an escalation they do not own
  kills

rowVars == <<crew, mode, status, content, decided, slipped>>
stageVars == <<reminder, sent, told, muted>>
vars == <<rowVars, stageVars, request, updated, job, kills>>

Reminder == [count : 0..(MAX_REMINDERS + 1), cooling : BOOLEAN, escalated : BOOLEAN]
FreshReminder == [count |-> 0, cooling |-> FALSE, escalated |-> FALSE]

Init ==
  /\ crew \in Crews
  /\ mode \in Modes
  /\ status = [r \in Rows |-> "draft"]
  /\ content = 0
  /\ request = [h \in Handlers |-> Idle]
  /\ updated = 0
  /\ reminder = [s \in Stages |-> FreshReminder]
  /\ job = Idle
  /\ decided = [r \in Rows |-> 0]
  /\ slipped = {}
  /\ sent = [s \in Stages |-> 0]
  /\ told = {}
  /\ muted = {}
  /\ kills = 0

-----------------------------------------------------------------------------
(* What a request does to a row it read with status s                      *)

Eligible ==
  [submit          |-> {"draft", "changes_requested", "rejected"},
   resubmit        |-> {"changes_requested", "rejected", "approved"},
   approve         |-> {"pending_review", "pending_client", "draft", "rejected", "changes_requested"},
   request_changes |-> {"pending_review", "pending_client"},
   reject          |-> {"pending_review", "pending_client"},
   hold            |-> {"approved"},
   resume          |-> {"on_hold"}]

Target ==
  [submit |-> "pending_review", resubmit |-> "pending_review", approve |-> "approved",
   request_changes |-> "changes_requested", reject |-> "rejected",
   hold |-> "on_hold", resume |-> "approved",
   schedule |-> "scheduled", queue |-> "scheduled"]

\* An internal approval in the two-stage flow goes on to the client.
Approved(s) ==
  IF mode = "required_internal_and_client" /\ s = "pending_review" THEN "pending_client"
  ELSE "approved"

\* The saves that schedule hop through draft where the table has no edge.
Hop(s, to) ==
  IF CanTransition(s, to) \/ (CanTransition(s, "draft") /\ CanTransition("draft", to))
    THEN to ELSE s

\* What becomes of status s under a request; s itself where it does not apply.
Outcome(q, s) ==
  CASE q.kind \in {"schedule", "queue"} -> Hop(s, "scheduled")
    [] q.kind \in {"chip", "rest"}      -> IF CanTransition(s, q.to) THEN q.to ELSE s
    [] OTHER -> IF s \notin Eligible[q.kind] \/ ~CanTransition(s, Target[q.kind]) THEN s
                ELSE IF q.kind = "approve" THEN Approved(s) ELSE Target[q.kind]

\* The rows a request moves, by the statuses it read.
Moves(q) == {r \in q.rows : Outcome(q, q.copy[r]) # q.copy[r]}

\* Who sees a stage entered: the services that reset its reminder, and the rest.
Resets(q) ==
  IF q.kind \in {"submit", "resubmit"} /\ Moves(q) # {} THEN {"pending_review"}
  ELSE IF q.kind = "approve" /\ \E r \in Moves(q) : Outcome(q, q.copy[r]) = "pending_client"
    THEN {"pending_client"} ELSE {}

\* A submission starts the reminders of its stage over; forgetting a field.
Reset_KeepsEscalation(s) == [reminder[s] EXCEPT !.count = 0, !.cooling = FALSE]
Reset(s) == FreshReminder

\* The statuses a request writes, and what follows for the stages it enters.
WriteRows(new, M, resets) ==
  LET entered == {new[r] : r \in {x \in M : new[x] # status[x]}} \cap Stages
      escalating == {s \in Stages : job # Idle /\ job.stage = s /\ job.does = "escalate"}
  IN  /\ status' = [r \in Rows |-> IF r \in M THEN new[r] ELSE status[r]]
      /\ reminder' = [s \in Stages |-> IF s \in resets THEN Reset(s) ELSE reminder[s]]
      /\ sent' = [s \in Stages |-> IF s \in resets THEN 0 ELSE sent[s]]
      /\ told' = told \ (entered \cup resets)
      /\ muted' = (muted \ resets)
                  \cup {s \in entered \ resets : reminder[s].escalated}
                  \cup ((entered \cup resets) \cap escalating)

\* Rows another request wrote since this one read them.
Overtaken(q, M) == {r \in M : status[r] # q.copy[r]}

-----------------------------------------------------------------------------
(* Requests                                                                *)

Go(h, q) == request' = [request EXCEPT ![h] = q]
End(h) == request' = [request EXCEPT ![h] = Idle]

Gated == mode \in {"required_internal", "required_internal_and_client"}

\* A decision of the team, or of the client in the portal.
Decide(h, kind) ==
  LET q == [kind |-> kind, pc |-> "apply", rows |-> Rows, copy |-> status]
  IN  /\ request[h] = Idle
      /\ Moves(q) # {}
      /\ Go(h, q)
      /\ UNCHANGED <<rowVars, stageVars, updated, job, kills>>

\* The chip of one account in the composer, and the API's schedule and cancel;
\* only the API asks the gate.
Chip(h, kind, r, to) ==
  LET q == [kind |-> kind, pc |-> "apply", rows |-> {r}, copy |-> status, to |-> to]
  IN  /\ request[h] = Idle
      /\ kind = "rest" => to \in {"scheduled", "draft"} /\ (to = "scheduled" => ~Gated)
      /\ kind = "chip" => to \notin {"publishing", "published", "failed"}
      /\ Moves(q) # {}
      /\ Go(h, q)
      /\ UNCHANGED <<rowVars, stageVars, updated, job, kills>>

\* A save of the composer, with its form as the post was read or edited.
BeginSave(h, kind, form) ==
  /\ request[h] = Idle
  /\ form = content \/ (form = content + 1 /\ form <= MaxEdits)
  /\ \E r \in Rows : status[r] \notin {"publishing", "published"}
  /\ Go(h, [kind |-> kind, pc |-> "save", rows |-> Rows, orig |-> content, form |-> form])
  /\ UNCHANGED <<rowVars, stageVars, updated, job, kills>>

\* The saves that look for approved rows to send back, if the content changed.
Looks(q) == q.kind \in {"save", "schedule"} /\ q.form # q.orig

Save(h) ==
  LET q == request[h]
  IN  /\ q # Idle /\ q.pc = "save"
      /\ content' = q.form
      /\ updated' = 0
      /\ slipped' = IF q.orig = content /\ (q.form = q.orig \/ Looks(q)) THEN slipped
                    ELSE slipped \cup {r \in Rows : status[r] = "approved"}
      /\ IF Looks(q) THEN Go(h, [q EXCEPT !.pc = "look"])
         ELSE IF q.kind = "save" THEN End(h) ELSE Go(h, [q EXCEPT !.pc = "load"])
      /\ UNCHANGED <<crew, mode, status, decided, stageVars, job, kills>>

Load(h) ==
  LET q == request[h]
  IN  /\ q # Idle /\ q.pc \in {"look", "load"}
      /\ Go(h, [kind |-> q.kind, rows |-> q.rows, copy |-> status,
                pc |-> IF q.pc = "look" THEN "revert" ELSE "apply"])
      /\ UNCHANGED <<rowVars, stageVars, updated, job, kills>>

\* Sending approved rows back; forgetting to.
Reverted_None(q) == {}
Reverted(q) == {r \in Rows : q.copy[r] = "approved"}

RevertApprovedToReview(h) ==
  LET q == request[h]
  IN  /\ q # Idle /\ q.pc = "revert"
      /\ WriteRows([r \in Rows |-> "pending_review"], Reverted(q), {})
      /\ slipped' = (slipped \ Reverted(q)) \cup Overtaken(q, Reverted(q))
      /\ IF q.kind = "save" THEN End(h)
         ELSE Go(h, [kind |-> q.kind, pc |-> "load", rows |-> Rows \ Reverted(q)])
      /\ UNCHANGED <<crew, mode, content, decided, updated, job, kills>>

Apply(h) ==
  LET q == request[h]
      new == [r \in Rows |-> Outcome(q, q.copy[r])]
      late == Overtaken(q, Moves(q))
      fresh == {r \in Moves(q) : new[r] = "approved"}
  IN  /\ q # Idle /\ q.pc = "apply"
      /\ WriteRows(new, Moves(q), Resets(q))
      /\ decided' = [r \in Rows |-> IF r \in fresh THEN content ELSE decided[r]]
      /\ slipped' = (slipped \ fresh) \cup late
      /\ End(h)
      /\ UNCHANGED <<crew, mode, content, updated, job, kills>>

\* The publish engine.
Publish(r) ==
  /\ \/ status[r] = "scheduled" /\ status' = [status EXCEPT ![r] = "publishing"]
     \/ /\ status[r] = "publishing"
        /\ \E s \in {"published", "failed"} : status' = [status EXCEPT ![r] = s]
  /\ UNCHANGED <<crew, mode, content, decided, slipped, stageVars, request, updated, job, kills>>

-----------------------------------------------------------------------------
(* The hourly reminder task                                                *)

Threshold == [pending_review |-> 1, pending_client |-> 2]
InStage(s) == \E r \in Rows : status[r] = s

\* Reminders left to send; one too many.
RemindersLeft_OneMore(s) == reminder[s].count <= MAX_REMINDERS
RemindersLeft(s) == reminder[s].count < MAX_REMINDERS

ProcessStage(s) ==
  /\ job = Idle
  /\ InStage(s)
  /\ updated >= Threshold[s]
  /\ \/ /\ RemindersLeft(s)
        /\ ~reminder[s].cooling
        /\ job' = [stage |-> s, does |-> "remind", pc |-> "send", count |-> reminder[s].count]
     \/ /\ ~RemindersLeft(s)
        /\ ~reminder[s].escalated
        /\ job' = [stage |-> s, does |-> "escalate", pc |-> "send", count |-> reminder[s].count]
  /\ UNCHANGED <<rowVars, stageVars, request, updated, kills>>

SendReminder ==
  /\ job # Idle /\ job.pc = "send"
  /\ IF job.does = "remind"
       THEN sent' = [sent EXCEPT ![job.stage] = @ + 1] /\ UNCHANGED told
       ELSE told' = told \cup {job.stage} /\ UNCHANGED sent
  /\ job' = [job EXCEPT !.pc = "save"]
  /\ UNCHANGED <<rowVars, reminder, muted, request, updated, kills>>

SaveReminder ==
  /\ job # Idle /\ job.pc = "save"
  /\ reminder' = IF job.does = "remind"
                   THEN [reminder EXCEPT ![job.stage].count = job.count + 1,
                                         ![job.stage].cooling = TRUE]
                   ELSE [reminder EXCEPT ![job.stage].escalated = TRUE]
  /\ job' = Idle
  /\ UNCHANGED <<rowVars, sent, told, muted, request, updated, kills>>

KillJob ==
  /\ job # Idle
  /\ kills < MaxKills
  /\ kills' = kills + 1
  /\ job' = Idle
  /\ UNCHANGED <<rowVars, stageVars, request, updated>>

\* Time: the post ages, and the cooldown of a stage ends.
Age ==
  /\ updated < 2
  /\ updated' = updated + 1
  /\ UNCHANGED <<rowVars, stageVars, request, job, kills>>

CooldownEnds(s) ==
  /\ reminder[s].cooling
  /\ reminder' = [reminder EXCEPT ![s].cooling = FALSE]
  /\ UNCHANGED <<rowVars, sent, told, muted, request, updated, job, kills>>

-----------------------------------------------------------------------------
Handle(h) == Save(h) \/ Load(h) \/ RevertApprovedToReview(h) \/ Apply(h)

Remind == (\E s \in crew.reminding : ProcessStage(s)) \/ SendReminder \/ SaveReminder

Next ==
  \/ \E h \in crew.handlers :
       \/ \E kind \in Decisions \cap crew.kinds : Decide(h, kind)
       \/ \E kind \in {"chip", "rest"} \cap crew.kinds, r \in Rows, to \in Status : Chip(h, kind, r, to)
       \/ \E kind \in Saves \cap crew.kinds, form \in {content, content + 1} : BeginSave(h, kind, form)
       \/ Handle(h)
  \/ \E r \in Rows : Publish(r)
  \/ Remind \/ KillJob \/ (crew.reminding # {} /\ Age)
  \/ \E s \in Stages : CooldownEnds(s)

Spec == Init /\ [][Next]_vars

\* The task runs every hour and time passes; nobody has to decide.
Fairness ==
  /\ \A s \in Stages : SF_vars(s \in crew.reminding /\ ProcessStage(s)) /\ WF_vars(CooldownEnds(s))
  /\ WF_vars(SendReminder \/ SaveReminder)
  /\ WF_vars(crew.reminding # {} /\ Age)

FairSpec == Spec /\ Fairness

-----------------------------------------------------------------------------
(* Properties                                                              *)

TypeOK ==
  /\ crew \in Crews
  /\ mode \in Modes
  /\ status \in [Rows -> Status]
  /\ content \in 0..MaxEdits
  /\ request \in [Handlers -> Request \cup {Idle}]
  /\ updated \in 0..2
  /\ reminder \in [Stages -> Reminder]
  /\ job \in Job \cup {Idle}
  /\ decided \in [Rows -> 0..MaxEdits]
  /\ slipped \subseteq Rows
  /\ sent \in [Stages -> Nat]
  /\ told \subseteq Stages
  /\ muted \subseteq Stages
  /\ kills \in 0..MaxKills

\* A save that has written new content and has not yet sent rows back.
BeingReviewed(r) ==
  \E h \in Handlers : /\ request[h] # Idle
                      /\ \/ request[h].pc = "look"
                         \/ request[h].pc = "revert" /\ request[h].copy[r] = "approved"

(* An approved row was approved with the content the post has now, or a    *)
(* save is about to send it back: editing approved content sends it back   *)
(* for re-approval (views.py 1245-1252), whatever saves and decisions      *)
(* interleave.  Rows written from a stale read are excepted, and rows of a *)
(* post edited by a save that does not look: queueing and submitting.      *)
ApprovedAsDecided ==
  \A r \in Rows \ slipped :
    status[r] = "approved" => decided[r] = content \/ BeingReviewed(r)

(* A stage gets at most MAX_REMINDERS reminders until somebody submits     *)
(* again, and one more per task killed between sending and saving          *)
(* (tasks.py 67-88), whatever submissions reset the count meanwhile.       *)
RemindersBounded == \A s \in Stages : sent[s] <= MAX_REMINDERS + kills

(* A post that stays in a stage is escalated in the end, though the task   *)
(* is killed on the way (tasks.py 25-51), unless it is saved again: every  *)
(* save, an autosave of the same content too, starts its age over.         *)
(* Excepted are a stage entered without a reset when it was escalated      *)
(* before, as the saves that send a row back and the chips enter it, and   *)
(* one entered again while the task was escalating it.                     *)
StalledIsEscalated ==
  \A s \in Stages : (s \in crew.reminding /\ InStage(s) /\ updated > 0)
                      ~> (~InStage(s) \/ updated = 0 \/ s \in told \cup muted)

(* views.py 1245-1247: "editing an approved post's reviewable content      *)
(* sends it back for re-approval so edits can't publish un-reviewed".      *)
EditsAreReviewed ==
  [][\A r \in Rows :
       (status[r] = "approved" /\ status'[r] = "scheduled") => decided[r] = content]_vars
=============================================================================
