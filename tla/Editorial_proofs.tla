--------------------------- MODULE Editorial_proofs ---------------------------
(***************************************************************************)
(* What the review of a post keeps, for any rows, handlers, crews and      *)
(* workflow modes: requests are of the shapes Editorial declares; an       *)
(* approved row carries the content it was approved with; a stage gets a   *)
(* bounded number of reminders.                                            *)
(***************************************************************************)
EXTENDS Editorial, TLAPS

-----------------------------------------------------------------------------
(* What a request makes of a status.                                       *)

\* The requests that write rows from a copy of them.
Applying == Read \cup Chosen

LEMMA TargetIsStatus ==
  ASSUME NEW kind \in DOMAIN Eligible
  PROVE  Target[kind] \in Status
  BY DEF Eligible, Target, Status

LEMMA ApprovedIsStatus ==
  ASSUME NEW s
  PROVE  Approved(s) \in Status
  BY DEF Approved, Status

\* Every outcome is a status, so the rows stay rows.
LEMMA OutcomeIsStatus ==
  ASSUME NEW q \in Applying, NEW s \in Status
  PROVE  Outcome(q, s) \in Status
<1>1. CASE q.kind \in {"schedule", "queue"}
  BY <1>1 DEF Outcome, Hop, Status
<1>2. CASE q.kind \in {"chip", "rest"}
  <2>1. q.to \in Status
    BY <1>2 DEF Applying, Read, Chosen, Kinds
  <2> QED
    BY <1>2, <2>1 DEF Outcome
<1>3. CASE q.kind \notin {"schedule", "queue", "chip", "rest"}
  <2>1. q.kind \in DOMAIN Eligible
    BY <1>3 DEF Applying, Read, Chosen, Kinds, Decisions, Saves, Eligible
  <2>2. Outcome(q, s) \in {s, Approved(s), Target[q.kind]}
    BY <1>3 DEF Outcome
  <2> QED
    BY <2>1, <2>2, TargetIsStatus, ApprovedIsStatus
<1> QED
  BY <1>1, <1>2, <1>3

\* A request that moves rows moves rows of the post only.
LEMMA MovesAreRows ==
  ASSUME NEW q \in Applying
  PROVE  Moves(q) \subseteq Rows
  BY DEF Moves, Applying, Read, Chosen

LEMMA ResetsAreStages ==
  ASSUME NEW q
  PROVE  Resets(q) \subseteq Stages
  BY DEF Resets, Stages

-----------------------------------------------------------------------------
(* Types.                                                                  *)

LEMMA FreshReminderType == FreshReminder \in Reminder
  BY EditorialAssumption DEF FreshReminder, Reminder

\* Writing rows keeps the rows and the stages well typed.
LEMMA WriteRowsType ==
  ASSUME TypeOK, NEW new \in [Rows -> Status], NEW M \in SUBSET Rows,
         NEW resets \in SUBSET Stages, WriteRows(new, M, resets)
  PROVE  /\ status' \in [Rows -> Status]
         /\ reminder' \in [Stages -> Reminder]
         /\ sent' \in [Stages -> Nat]
         /\ told' \subseteq Stages
         /\ muted' \subseteq Stages
<1>1. status' \in [Rows -> Status]
  BY DEF WriteRows, TypeOK
<1>2. reminder' \in [Stages -> Reminder]
  BY FreshReminderType DEF WriteRows, TypeOK, Reset
<1>3. sent' \in [Stages -> Nat]
  BY DEF WriteRows, TypeOK
<1>4. told' \subseteq Stages /\ muted' \subseteq Stages
  BY DEF WriteRows, TypeOK
<1> QED
  BY <1>1, <1>2, <1>3, <1>4

\* A handler's next request, or none.
LEMMA RequestUpdate ==
  ASSUME TypeOK, NEW h \in Handlers, NEW q \in Request \cup {Idle},
         request' = [request EXCEPT ![h] = q]
  PROVE  /\ request' \in [Handlers -> Request \cup {Idle}]
         /\ request'[h] = q
         /\ \A g \in Handlers \ {h} : request'[g] = request[g]
  BY DEF TypeOK

\* The requests at each step of their work.
LEMMA AtSave ==
  ASSUME NEW q \in Request, q.pc = "save"
  PROVE  q \in Form
  BY DEF Request, Read, Chosen, Form, Written, SendingBack, Rereading

LEMMA AtLoad ==
  ASSUME NEW q \in Request, q.pc \in {"look", "load"}
  PROVE  q \in Written \cup Rereading
  BY DEF Request, Read, Chosen, Form, Written, SendingBack, Rereading

LEMMA AtRevert ==
  ASSUME NEW q \in Request, q.pc = "revert"
  PROVE  q \in SendingBack
  BY DEF Request, Read, Chosen, Form, Written, SendingBack, Rereading

LEMMA AtApply ==
  ASSUME NEW q \in Request, q.pc = "apply"
  PROVE  q \in Applying
  BY DEF Request, Applying, Read, Chosen, Form, Written, SendingBack, Rereading

LEMMA DecideType ==
  ASSUME TypeOK, NEW h \in Handlers, NEW kind \in Decisions, Decide(h, kind)
  PROVE  TypeOK'
<1> DEFINE q == [kind |-> kind, pc |-> "apply", rows |-> Rows, copy |-> status]
<1>1. q \in Read
  BY DEF TypeOK, Read, Kinds, Decisions
<1>2. q \in Request \cup {Idle}
  BY <1>1 DEF Request
<1>3. request' = [request EXCEPT ![h] = q]
  BY DEF Decide, Go
<1>4. request' \in [Handlers -> Request \cup {Idle}]
  BY <1>2, <1>3, RequestUpdate
<1> QED
  BY <1>4 DEF Decide, TypeOK, rowVars, stageVars

LEMMA ChipType ==
  ASSUME TypeOK, NEW h \in Handlers, NEW kind \in {"chip", "rest"}, NEW r \in Rows,
         NEW to \in Status, Chip(h, kind, r, to)
  PROVE  TypeOK'
<1> DEFINE q == [kind |-> kind, pc |-> "apply", rows |-> {r}, copy |-> status, to |-> to]
<1>1. q \in Chosen
  BY DEF TypeOK, Chosen
<1>2. q \in Request \cup {Idle}
  BY <1>1 DEF Request
<1>3. request' = [request EXCEPT ![h] = q]
  BY DEF Chip, Go
<1>4. request' \in [Handlers -> Request \cup {Idle}]
  BY <1>2, <1>3, RequestUpdate
<1> QED
  BY <1>4 DEF Chip, TypeOK, rowVars, stageVars

LEMMA BeginSaveType ==
  ASSUME TypeOK, NEW h \in Handlers, NEW kind \in Saves, NEW form, BeginSave(h, kind, form)
  PROVE  TypeOK'
<1> DEFINE q == [kind |-> kind, pc |-> "save", rows |-> Rows, orig |-> content, form |-> form]
<1>1. form \in 0..MaxEdits
  BY EditorialAssumption DEF BeginSave, TypeOK
<1>2. q \in Form
  BY <1>1 DEF TypeOK, Form
<1>3. q \in Request \cup {Idle}
  BY <1>2 DEF Request
<1>4. request' = [request EXCEPT ![h] = q]
  BY DEF BeginSave, Go
<1>5. request' \in [Handlers -> Request \cup {Idle}]
  BY <1>3, <1>4, RequestUpdate
<1> QED
  BY <1>5 DEF BeginSave, TypeOK, rowVars, stageVars

LEMMA SaveType ==
  ASSUME TypeOK, NEW h \in Handlers, Save(h)
  PROVE  TypeOK'
<1> DEFINE q == request[h]
<1>1. q \in Form
  BY AtSave DEF Save, TypeOK
<1>2. q.form \in 0..MaxEdits /\ q.kind \in Saves
  BY <1>1 DEF Form
<1>3. request' \in [Handlers -> Request \cup {Idle}]
  <2>1. CASE Looks(q)
    <3>1. [q EXCEPT !.pc = "look"] \in Written
      BY <1>1, <2>1 DEF Form, Written, Looks
    <3>2. request' = [request EXCEPT ![h] = [q EXCEPT !.pc = "look"]]
      BY <2>1 DEF Save, Go
    <3> QED
      BY <3>1, <3>2, RequestUpdate DEF Request
  <2>2. CASE ~Looks(q) /\ q.kind = "save"
    BY <2>2, RequestUpdate DEF Save, End
  <2>3. CASE ~Looks(q) /\ q.kind # "save"
    <3>1. [q EXCEPT !.pc = "load"] \in Written
      BY <1>1, <2>3 DEF Form, Written
    <3>2. request' = [request EXCEPT ![h] = [q EXCEPT !.pc = "load"]]
      BY <2>3 DEF Save, Go
    <3> QED
      BY <3>1, <3>2, RequestUpdate DEF Request
  <2> QED
    BY <2>1, <2>2, <2>3
<1>4. slipped' \subseteq Rows
  BY DEF Save, TypeOK
<1> QED
  BY <1>2, <1>3, <1>4 DEF Save, TypeOK, stageVars

LEMMA LoadType ==
  ASSUME TypeOK, NEW h \in Handlers, Load(h)
  PROVE  TypeOK'
<1> DEFINE q == request[h]
           loaded == [kind |-> q.kind, rows |-> q.rows, copy |-> status,
                      pc |-> IF q.pc = "look" THEN "revert" ELSE "apply"]
<1>1. q \in Written \cup Rereading
  BY AtLoad DEF Load, TypeOK
<1>2. CASE q.pc = "look"
  <2>1. loaded \in SendingBack
    BY <1>1, <1>2 DEF Written, Rereading, SendingBack, TypeOK
  <2> QED
    BY <2>1, RequestUpdate DEF Load, Go, Request, TypeOK, rowVars, stageVars
<1>3. CASE q.pc = "load"
  <2>1. loaded \in Read
    BY <1>1, <1>3 DEF Written, Rereading, Read, TypeOK, Kinds, Saves
  <2> QED
    BY <2>1, RequestUpdate DEF Load, Go, Request, TypeOK, rowVars, stageVars
<1> QED
  BY <1>2, <1>3 DEF Load

LEMMA RevertType ==
  ASSUME TypeOK, NEW h \in Handlers, RevertApprovedToReview(h)
  PROVE  TypeOK'
<1> DEFINE q == request[h]
           back == [r \in Rows |-> "pending_review"]
<1>1. q \in SendingBack
  BY AtRevert DEF RevertApprovedToReview, TypeOK
<1>2. /\ status' \in [Rows -> Status]
      /\ reminder' \in [Stages -> Reminder]
      /\ sent' \in [Stages -> Nat]
      /\ told' \subseteq Stages
      /\ muted' \subseteq Stages
  <2>1. back \in [Rows -> Status] /\ Reverted(q) \in SUBSET Rows /\ {} \in SUBSET Stages
    BY DEF Reverted, Status
  <2>2. WriteRows(back, Reverted(q), {})
    BY DEF RevertApprovedToReview
  <2> QED
    BY <2>1, <2>2, WriteRowsType
<1>3. request' \in [Handlers -> Request \cup {Idle}]
  <2>1. CASE q.kind = "save"
    BY <2>1, RequestUpdate DEF RevertApprovedToReview, End
  <2>2. CASE q.kind # "save"
    <3>1. [kind |-> q.kind, pc |-> "load", rows |-> Rows \ Reverted(q)] \in Rereading
      BY <1>1, <2>2 DEF SendingBack, Rereading
    <3> QED
      BY <2>2, <3>1, RequestUpdate DEF RevertApprovedToReview, Go, Request
  <2> QED
    BY <2>1, <2>2
<1>4. slipped' \subseteq Rows
  BY DEF RevertApprovedToReview, TypeOK, Reverted, Overtaken
<1> QED
  BY <1>2, <1>3, <1>4 DEF RevertApprovedToReview, TypeOK

LEMMA ApplyType ==
  ASSUME TypeOK, NEW h \in Handlers, Apply(h)
  PROVE  TypeOK'
<1> DEFINE q == request[h]
           new == [r \in Rows |-> Outcome(q, q.copy[r])]
<1>1. q \in Applying
  BY AtApply DEF Apply, TypeOK
<1>2. new \in [Rows -> Status]
  <2>1. q.copy \in [Rows -> Status]
    BY <1>1 DEF Applying, Read, Chosen
  <2> QED
    BY <1>1, <2>1, OutcomeIsStatus
<1>3. /\ status' \in [Rows -> Status]
      /\ reminder' \in [Stages -> Reminder]
      /\ sent' \in [Stages -> Nat]
      /\ told' \subseteq Stages
      /\ muted' \subseteq Stages
  <2>1. WriteRows(new, Moves(q), Resets(q))
    BY DEF Apply
  <2> QED
    BY <1>1, <1>2, <2>1, MovesAreRows, ResetsAreStages, WriteRowsType
<1>4. request' \in [Handlers -> Request \cup {Idle}]
  BY RequestUpdate DEF Apply, End
<1>5. slipped' \subseteq Rows /\ decided' \in [Rows -> 0..MaxEdits]
  BY <1>1, MovesAreRows DEF Apply, TypeOK, Overtaken
<1> QED
  BY <1>3, <1>4, <1>5 DEF Apply, TypeOK

LEMMA PublishType ==
  ASSUME TypeOK, NEW r \in Rows, Publish(r)
  PROVE  TypeOK'
<1>1. status' \in [Rows -> Status]
  BY DEF Publish, TypeOK, Status
<1> QED
  BY <1>1 DEF Publish, TypeOK, stageVars

LEMMA ProcessStageType ==
  ASSUME TypeOK, NEW s \in Stages, ProcessStage(s)
  PROVE  TypeOK'
<1>1. reminder[s].count \in 0..(MAX_REMINDERS + 1)
  BY DEF TypeOK, Reminder
<1>2. job' \in Job
  BY <1>1 DEF ProcessStage, Job
<1> QED
  BY <1>2 DEF ProcessStage, TypeOK, rowVars, stageVars

LEMMA SendReminderType ==
  ASSUME TypeOK, SendReminder
  PROVE  TypeOK'
<1>1. job \in Job
  BY DEF SendReminder, TypeOK
<1>2. job' \in Job
  BY <1>1 DEF SendReminder, Job
<1>3. sent' \in [Stages -> Nat] /\ told' \subseteq Stages
  BY <1>1 DEF SendReminder, TypeOK, Job
<1> QED
  BY <1>2, <1>3 DEF SendReminder, TypeOK, rowVars

LEMMA CooldownType ==
  ASSUME TypeOK, NEW s \in Stages, CooldownEnds(s)
  PROVE  TypeOK'
<1>1. reminder' \in [Stages -> Reminder]
  BY DEF CooldownEnds, TypeOK, Reminder
<1> QED
  BY <1>1 DEF CooldownEnds, TypeOK, rowVars

-----------------------------------------------------------------------------
(* Reminders.                                                              *)

\* One for a reminder of the stage sent and not yet counted.
Unsaved(s) ==
  IF job # Idle /\ job.stage = s /\ job.does = "remind" /\ job.pc = "save" THEN 1 ELSE 0

\* What was sent in a stage was counted, or its task was killed, or is about
\* to be counted: by the task itself from the count it read, and by the stage.
CountedInv ==
  /\ \A s \in Stages : /\ reminder[s].count <= MAX_REMINDERS
                       /\ sent[s] <= reminder[s].count + kills + Unsaved(s)
  /\ (job # Idle /\ job.does = "remind") =>
       /\ job.count < MAX_REMINDERS
       /\ sent[job.stage] <= job.count + kills + Unsaved(job.stage)

\* Resetting some stages keeps the count.
LEMMA ResetCounted ==
  ASSUME TypeOK, CountedInv, UNCHANGED <<job, kills>>, NEW resets \in SUBSET Stages,
         reminder' = [s \in Stages |-> IF s \in resets THEN Reset(s) ELSE reminder[s]],
         sent' = [s \in Stages |-> IF s \in resets THEN 0 ELSE sent[s]]
  PROVE  CountedInv'
<1>1. \A s \in Stages : Unsaved(s)' = Unsaved(s) /\ Unsaved(s) \in {0, 1}
  BY DEF Unsaved
<1>2. \A s \in Stages : sent'[s] <= sent[s] /\ sent'[s] \in Nat
  BY DEF TypeOK
<1>3. kills \in Nat /\ MAX_REMINDERS \in Nat
  BY EditorialAssumption DEF TypeOK
<1>4. ASSUME NEW s \in Stages
      PROVE  /\ reminder'[s].count <= MAX_REMINDERS
             /\ sent'[s] <= reminder'[s].count + kills' + Unsaved(s)'
  <2>1. CASE s \in resets
    BY <1>1, <1>3, <2>1 DEF Reset, FreshReminder
  <2>2. CASE s \notin resets
    BY <1>1, <2>2 DEF CountedInv
  <2> QED
    BY <2>1, <2>2
<1>5. ASSUME job # Idle, job.does = "remind"
      PROVE  /\ job.count < MAX_REMINDERS
             /\ sent'[job.stage] <= job.count + kills + Unsaved(job.stage)
  <2>1. job.stage \in Stages /\ job.count \in Nat
    BY <1>5 DEF TypeOK, Job
  <2>2. sent[job.stage] \in Nat /\ sent[job.stage] <= job.count + kills + Unsaved(job.stage)
    BY <1>5, <2>1 DEF TypeOK, CountedInv
  <2> QED
    BY <1>1, <1>2, <1>3, <1>5, <2>1, <2>2 DEF CountedInv
<1>6. job # Idle => job.stage \in Stages
  BY DEF TypeOK, Job
<1> QED
  BY <1>1, <1>4, <1>5, <1>6 DEF CountedInv

LEMMA UnchangedCounted ==
  ASSUME CountedInv, UNCHANGED <<reminder, sent, job, kills>>
  PROVE  CountedInv'
  BY DEF CountedInv, Unsaved

LEMMA ProcessStageCounted ==
  ASSUME TypeOK, CountedInv, NEW s \in Stages, ProcessStage(s)
  PROVE  CountedInv'
<1>1. reminder' = reminder /\ sent' = sent /\ kills' = kills /\ job = Idle
  BY DEF ProcessStage, stageVars
<1>2. job' \in Job /\ job' # Idle /\ job'.pc = "send"
  <2>1. job' \in Job
    BY DEF ProcessStage, Job, TypeOK, Reminder
  <2> QED
    BY <2>1, IdleAssumption DEF ProcessStage
<1>3. \A x \in Stages : Unsaved(x) = 0 /\ Unsaved(x)' = 0
  BY <1>1, <1>2 DEF Unsaved
<1>4. job'.stage = s /\ (job'.does = "remind" => job'.count = reminder[s].count /\ RemindersLeft(s))
  BY DEF ProcessStage
<1> QED
  BY <1>1, <1>2, <1>3, <1>4 DEF CountedInv, RemindersLeft

LEMMA SendReminderCounted ==
  ASSUME TypeOK, CountedInv, SendReminder
  PROVE  CountedInv'
<1>1. job \in Job /\ job # Idle /\ job.pc = "send"
  BY DEF SendReminder, TypeOK
<1>2. /\ job' \in Job /\ job' # Idle
      /\ job'.pc = "save" /\ job'.does = job.does
      /\ job'.stage = job.stage /\ job'.count = job.count
  BY <1>1, IdleAssumption DEF SendReminder, Job
<1>3. \A s \in Stages : Unsaved(s) = 0
  BY <1>1 DEF Unsaved
<1>4. reminder' = reminder /\ kills' = kills
  BY DEF SendReminder
<1>5. kills \in Nat /\ job.stage \in Stages /\ job.count \in Nat
  BY <1>1, EditorialAssumption DEF TypeOK, Job
<1>6. \A s \in Stages : sent[s] \in Nat /\ reminder[s].count \in Nat
  BY DEF TypeOK, Reminder
<1>7. CASE job.does = "remind"
  <2>1. \A s \in Stages : Unsaved(s)' = IF s = job.stage THEN 1 ELSE 0
    BY <1>2, <1>7 DEF Unsaved
  <2>2. \A s \in Stages : sent'[s] = IF s = job.stage THEN sent[s] + 1 ELSE sent[s]
    BY <1>1, <1>7 DEF SendReminder, TypeOK
  <2> QED
    BY <1>1, <1>2, <1>3, <1>4, <1>5, <1>6, <1>7, <2>1, <2>2 DEF CountedInv
<1>8. CASE job.does # "remind"
  <2>1. \A s \in Stages : Unsaved(s)' = 0
    BY <1>2, <1>8 DEF Unsaved
  <2>2. sent' = sent
    BY <1>8 DEF SendReminder
  <2> QED
    BY <1>2, <1>3, <1>4, <1>8, <2>1, <2>2 DEF CountedInv
<1> QED
  BY <1>7, <1>8

LEMMA SaveReminderCounted ==
  ASSUME TypeOK, CountedInv, SaveReminder
  PROVE  TypeOK' /\ CountedInv'
<1>1. job \in Job /\ job # Idle /\ job.pc = "save" /\ job' = Idle
  BY DEF SaveReminder, TypeOK
<1>2. sent' = sent /\ kills' = kills
  BY DEF SaveReminder
<1>3. kills \in Nat /\ job.stage \in Stages /\ job.count \in Nat /\ MAX_REMINDERS \in Nat
  BY <1>1, EditorialAssumption DEF TypeOK, Job
<1>4. \A s \in Stages : Unsaved(s)' = 0
  BY <1>1 DEF Unsaved
<1>5. CASE job.does = "remind"
  <2>1. /\ reminder' \in [Stages -> Reminder]
        /\ \A s \in Stages : reminder'[s].count = IF s = job.stage THEN job.count + 1
                                                ELSE reminder[s].count
    BY <1>1, <1>3, <1>5 DEF SaveReminder, TypeOK, CountedInv, Reminder
  <2>2. /\ job.count + 1 <= MAX_REMINDERS
        /\ sent[job.stage] <= job.count + 1 + kills
    BY <1>1, <1>3, <1>5 DEF CountedInv, Unsaved, TypeOK
  <2>3. \A s \in Stages : s # job.stage => Unsaved(s) = 0
    BY DEF Unsaved
  <2>4. \A s \in Stages : /\ reminder'[s].count <= MAX_REMINDERS
                         /\ sent'[s] <= reminder'[s].count + kills' + Unsaved(s)'
    BY <1>2, <1>3, <1>4, <2>1, <2>2, <2>3 DEF CountedInv, TypeOK, Reminder
  <2> QED
    BY <1>1, <2>1, <2>4 DEF SaveReminder, CountedInv, TypeOK, rowVars
<1>6. CASE job.does # "remind"
  <2>1. /\ reminder' \in [Stages -> Reminder]
        /\ \A s \in Stages : reminder'[s].count = reminder[s].count
    BY <1>1, <1>6 DEF SaveReminder, TypeOK, Reminder
  <2>2. \A s \in Stages : Unsaved(s) = 0
    BY <1>6 DEF Unsaved
  <2> QED
    BY <1>1, <1>2, <1>4, <2>1, <2>2 DEF SaveReminder, CountedInv, TypeOK, rowVars
<1> QED
  BY <1>5, <1>6

LEMMA KillCounted ==
  ASSUME TypeOK, CountedInv, KillJob
  PROVE  TypeOK' /\ CountedInv'
<1>1. reminder' = reminder /\ sent' = sent /\ job' = Idle /\ kills' = kills + 1
  BY DEF KillJob, stageVars
<1>2. kills' \in 0..MaxKills /\ kills \in Nat
  BY EditorialAssumption DEF KillJob, TypeOK
<1>3. \A s \in Stages : Unsaved(s) \in {0, 1} /\ Unsaved(s)' = 0
  BY <1>1 DEF Unsaved
<1>4. \A s \in Stages : sent[s] \in Nat /\ reminder[s].count \in Nat
  BY DEF TypeOK, Reminder
<1> QED
  BY <1>1, <1>2, <1>3, <1>4 DEF KillJob, CountedInv, TypeOK, rowVars, stageVars

LEMMA CooldownCounted ==
  ASSUME TypeOK, CountedInv, NEW s \in Stages, CooldownEnds(s)
  PROVE  CountedInv'
<1>1. \A x \in Stages : reminder'[x].count = reminder[x].count
  BY DEF CooldownEnds, TypeOK, Reminder
<1> QED
  BY <1>1 DEF CooldownEnds, CountedInv, Unsaved

LEMMA RevertCounted ==
  ASSUME TypeOK, CountedInv, NEW h, RevertApprovedToReview(h)
  PROVE  CountedInv'
<1>1. {} \in SUBSET Stages /\ UNCHANGED <<job, kills>>
  BY DEF RevertApprovedToReview
<1>2. /\ reminder' = [s \in Stages |-> IF s \in {} THEN Reset(s) ELSE reminder[s]]
      /\ sent' = [s \in Stages |-> IF s \in {} THEN 0 ELSE sent[s]]
  BY DEF RevertApprovedToReview, WriteRows
<1> QED
  BY <1>1, <1>2, ResetCounted

LEMMA ApplyCounted ==
  ASSUME TypeOK, CountedInv, NEW h, Apply(h)
  PROVE  CountedInv'
<1> DEFINE resets == Resets(request[h])
<1>1. resets \in SUBSET Stages /\ UNCHANGED <<job, kills>>
  BY ResetsAreStages DEF Apply
<1>2. /\ reminder' = [s \in Stages |-> IF s \in resets THEN Reset(s) ELSE reminder[s]]
      /\ sent' = [s \in Stages |-> IF s \in resets THEN 0 ELSE sent[s]]
  BY DEF Apply, WriteRows
<1> HIDE DEF resets
<1> QED
  BY <1>1, <1>2, ResetCounted

\* The handlers of a crew are handlers, and its stages are stages.
LEMMA CrewType ==
  ASSUME TypeOK
  PROVE  crew.handlers \subseteq Handlers /\ crew.reminding \subseteq Stages
  BY EditorialAssumption DEF TypeOK

LEMMA InitCounted == Init => TypeOK /\ CountedInv
<1> SUFFICES ASSUME Init PROVE TypeOK /\ CountedInv
  OBVIOUS
<1>1. reminder \in [Stages -> Reminder]
  BY FreshReminderType DEF Init
<1>2. TypeOK
  BY <1>1, EditorialAssumption DEF Init, TypeOK, Status
<1>3. CountedInv
  BY EditorialAssumption DEF Init, CountedInv, Unsaved, FreshReminder
<1> QED
  BY <1>2, <1>3

LEMMA NextCounted == TypeOK /\ CountedInv /\ [Next]_vars => TypeOK' /\ CountedInv'
<1> SUFFICES ASSUME TypeOK, CountedInv, [Next]_vars PROVE TypeOK' /\ CountedInv'
  OBVIOUS
<1>1. ASSUME NEW h \in crew.handlers, NEW kind \in Decisions \cap crew.kinds, Decide(h, kind)
      PROVE  TypeOK' /\ CountedInv'
  <2>1. CountedInv'
    BY <1>1, UnchangedCounted DEF Decide, stageVars
  <2> QED
    BY <1>1, <2>1, CrewType, DecideType
<1>2. ASSUME NEW h \in crew.handlers, NEW kind \in {"chip", "rest"} \cap crew.kinds,
             NEW r \in Rows, NEW to \in Status, Chip(h, kind, r, to)
      PROVE  TypeOK' /\ CountedInv'
  <2>1. CountedInv'
    BY <1>2, UnchangedCounted DEF Chip, stageVars
  <2> QED
    BY <1>2, <2>1, CrewType, ChipType
<1>3. ASSUME NEW h \in crew.handlers, NEW kind \in Saves \cap crew.kinds,
             NEW form \in {content, content + 1}, BeginSave(h, kind, form)
      PROVE  TypeOK' /\ CountedInv'
  <2>1. CountedInv'
    BY <1>3, UnchangedCounted DEF BeginSave, stageVars
  <2> QED
    BY <1>3, <2>1, CrewType, BeginSaveType
<1>4. ASSUME NEW h \in crew.handlers, Handle(h)
      PROVE  TypeOK' /\ CountedInv'
  <2>0. h \in Handlers
    BY <1>4, CrewType
  <2>1. CASE Save(h)
    <3>1. CountedInv'
      BY <2>1, UnchangedCounted DEF Save, stageVars
    <3> QED
      BY <2>0, <2>1, <3>1, SaveType
  <2>2. CASE Load(h)
    <3>1. CountedInv'
      BY <2>2, UnchangedCounted DEF Load, stageVars
    <3> QED
      BY <2>0, <2>2, <3>1, LoadType
  <2>3. CASE RevertApprovedToReview(h)
    BY <2>0, <2>3, RevertCounted, RevertType
  <2>4. CASE Apply(h)
    BY <2>0, <2>4, ApplyCounted, ApplyType
  <2> QED
    BY <1>4, <2>1, <2>2, <2>3, <2>4 DEF Handle
<1>5. ASSUME NEW r \in Rows, Publish(r)
      PROVE  TypeOK' /\ CountedInv'
  <2>1. CountedInv'
    BY <1>5, UnchangedCounted DEF Publish, stageVars
  <2> QED
    BY <1>5, <2>1, PublishType
<1>6. ASSUME Remind
      PROVE  TypeOK' /\ CountedInv'
  <2>1. CASE \E s \in crew.reminding : ProcessStage(s)
    BY <2>1, CrewType, ProcessStageType, ProcessStageCounted
  <2>2. CASE SendReminder
    BY <2>2, SendReminderType, SendReminderCounted
  <2>3. CASE SaveReminder
    BY <2>3, SaveReminderCounted
  <2> QED
    BY <1>6, <2>1, <2>2, <2>3 DEF Remind
<1>7. ASSUME KillJob PROVE TypeOK' /\ CountedInv'
  BY <1>7, KillCounted
<1>8. ASSUME crew.reminding # {} /\ Age PROVE TypeOK' /\ CountedInv'
  <2>1. CountedInv'
    BY <1>8, UnchangedCounted DEF Age, stageVars
  <2>2. TypeOK'
    BY <1>8 DEF Age, TypeOK, rowVars, stageVars
  <2> QED
    BY <2>1, <2>2
<1>9. ASSUME NEW s \in Stages, CooldownEnds(s) PROVE TypeOK' /\ CountedInv'
  BY <1>9, CooldownType, CooldownCounted
<1>10. ASSUME UNCHANGED vars PROVE TypeOK' /\ CountedInv'
  <2>1. CountedInv'
    BY <1>10, UnchangedCounted DEF vars, stageVars
  <2>2. TypeOK'
    BY <1>10 DEF vars, TypeOK, rowVars, stageVars
  <2> QED
    BY <2>1, <2>2
<1> QED
  BY <1>1, <1>2, <1>3, <1>4, <1>5, <1>6, <1>7, <1>8, <1>9, <1>10 DEF Next

(* Every request, row, reminder and job of the review has its type: each   *)
(* request has the fields its next step reads, whatever request it was.    *)
THEOREM EditorialTypes == Spec => []TypeOK
<1> QED
  BY InitCounted, NextCounted, PTL DEF Spec

(* A stage gets at most MAX_REMINDERS reminders until it is submitted to   *)
(* again, and one more per task killed between sending and saving          *)
(* (tasks.py 67-88): for any number of rows, handlers and kills.           *)
THEOREM RemindersStayBounded == Spec => []RemindersBounded
<1>1. TypeOK /\ CountedInv => RemindersBounded
  <2> SUFFICES ASSUME TypeOK, CountedInv, NEW s \in Stages
               PROVE  sent[s] <= MAX_REMINDERS + kills
    BY DEF RemindersBounded
  <2>1. /\ sent[s] \in Nat /\ kills \in Nat
        /\ MAX_REMINDERS \in Nat /\ reminder[s].count \in Nat
    BY EditorialAssumption DEF TypeOK, Reminder
  <2>2. CASE Unsaved(s) = 0
    BY <2>1, <2>2 DEF CountedInv
  <2>3. CASE Unsaved(s) # 0
    <3>1. job # Idle /\ job.stage = s /\ job.does = "remind" /\ Unsaved(s) = 1
      BY <2>3 DEF Unsaved
    <3>2. job.count \in Nat
      BY <3>1 DEF TypeOK, Job
    <3> QED
      BY <2>1, <3>1, <3>2 DEF CountedInv
  <2> QED
    BY <2>2, <2>3
<1> QED
  BY <1>1, InitCounted, NextCounted, PTL DEF Spec

-----------------------------------------------------------------------------
(* Approved rows.                                                          *)

\* A handler that reads or writes no rows to send back keeps what the others
\* are sending back.
LEMMA StillReviewed ==
  ASSUME TypeOK, NEW h \in Handlers,
         \A g \in Handlers \ {h} : request'[g] = request[g],
         request[h] = Idle \/ request[h].pc \notin {"look", "revert"},
         NEW r \in Rows, BeingReviewed(r)
  PROVE  BeingReviewed(r)'
  BY DEF BeingReviewed

\* A step that writes neither the rows nor the content, nor what is sent back.
LEMMA QuietApproved ==
  ASSUME ApprovedAsDecided, UNCHANGED <<status, content, decided, slipped>>,
         \A r \in Rows : BeingReviewed(r) => BeingReviewed(r)'
  PROVE  ApprovedAsDecided'
  BY DEF ApprovedAsDecided

LEMMA SaveApproved ==
  ASSUME TypeOK, ApprovedAsDecided, NEW h \in Handlers, Save(h)
  PROVE  ApprovedAsDecided'
<1> DEFINE q == request[h]
<1>1. q \in Form
  BY AtSave DEF Save, TypeOK
<1>2. \A g \in Handlers \ {h} : request'[g] = request[g]
  BY DEF Save, Go, End, TypeOK
<1>3. CASE ~(q.orig = content /\ (q.form = q.orig \/ Looks(q)))
  BY <1>3 DEF Save, ApprovedAsDecided
<1>4. CASE Looks(q)
  <2>1. [q EXCEPT !.pc = "look"] \in Request
    BY <1>1, <1>4 DEF Form, Written, Looks, Request
  <2>2. request'[h] = [q EXCEPT !.pc = "look"]
    BY <1>4 DEF Save, Go, TypeOK
  <2>3. request'[h] # Idle /\ request'[h].pc = "look"
    BY <1>1, <2>1, <2>2, IdleAssumption DEF Form
  <2>4. \A r \in Rows : BeingReviewed(r)'
    BY <2>3 DEF BeingReviewed
  <2> QED
    BY <2>4 DEF ApprovedAsDecided
<1>5. CASE q.orig = content /\ q.form = q.orig
  <2>1. UNCHANGED <<status, content, decided, slipped>>
    BY <1>5 DEF Save
  <2>2. \A r \in Rows : BeingReviewed(r) => BeingReviewed(r)'
    BY <1>2, StillReviewed DEF Save
  <2> QED
    BY <2>1, <2>2, QuietApproved
<1> QED
  BY <1>3, <1>4, <1>5

LEMMA LoadApproved ==
  ASSUME TypeOK, ApprovedAsDecided, NEW h \in Handlers, Load(h)
  PROVE  ApprovedAsDecided'
<1> DEFINE q == request[h]
           loaded == [kind |-> q.kind, rows |-> q.rows, copy |-> status,
                      pc |-> IF q.pc = "look" THEN "revert" ELSE "apply"]
<1>1. q \in Written \cup Rereading
  BY AtLoad DEF Load, TypeOK
<1>2. request'[h] = loaded /\ \A g \in Handlers \ {h} : request'[g] = request[g]
  BY DEF Load, Go, TypeOK
<1>3. UNCHANGED <<status, content, decided, slipped>>
  BY DEF Load, rowVars
<1>4. CASE q.pc = "look"
  <2>1. loaded \in Request
    BY <1>1, <1>4 DEF Written, Rereading, SendingBack, TypeOK, Request
  <2>2. request'[h] # Idle /\ request'[h].pc = "revert" /\ request'[h].copy = status
    BY <1>2, <1>4, <2>1, IdleAssumption
  <2>3. \A r \in Rows : status[r] = "approved" => BeingReviewed(r)'
    BY <2>2 DEF BeingReviewed
  <2> QED
    BY <1>3, <2>3 DEF ApprovedAsDecided
<1>5. CASE q.pc = "load"
  <2>1. \A r \in Rows : BeingReviewed(r) => BeingReviewed(r)'
    BY <1>2, <1>5, StillReviewed
  <2> QED
    BY <1>3, <2>1, QuietApproved
<1> QED
  BY <1>4, <1>5 DEF Load

LEMMA RevertApproved ==
  ASSUME TypeOK, ApprovedAsDecided, NEW h \in Handlers, RevertApprovedToReview(h)
  PROVE  ApprovedAsDecided'
<1> DEFINE q == request[h]
<1> SUFFICES ASSUME NEW r \in Rows, r \notin slipped', status'[r] = "approved"
             PROVE  decided'[r] = content' \/ BeingReviewed(r)'
  BY DEF ApprovedAsDecided
<1>1. status'[r] = IF r \in Reverted(q) THEN "pending_review" ELSE status[r]
  BY DEF RevertApprovedToReview, WriteRows
<1>2. r \notin Reverted(q) /\ status[r] = "approved" /\ r \notin slipped
  BY <1>1 DEF RevertApprovedToReview
<1>3. q.pc = "revert" /\ q.copy[r] # "approved"
  BY <1>2 DEF RevertApprovedToReview, Reverted
<1>4. \A g \in Handlers \ {h} : request'[g] = request[g]
  BY DEF RevertApprovedToReview, Go, End, TypeOK
<1>5. BeingReviewed(r) => BeingReviewed(r)'
  BY <1>3, <1>4 DEF BeingReviewed
<1>6. decided' = decided /\ content' = content
  BY DEF RevertApprovedToReview
<1> QED
  BY <1>2, <1>5, <1>6 DEF ApprovedAsDecided

LEMMA ApplyApproved ==
  ASSUME TypeOK, ApprovedAsDecided, NEW h \in Handlers, Apply(h)
  PROVE  ApprovedAsDecided'
<1> DEFINE q == request[h]
           new == [r \in Rows |-> Outcome(q, q.copy[r])]
           fresh == {r \in Moves(q) : new[r] = "approved"}
<1> SUFFICES ASSUME NEW r \in Rows, r \notin slipped', status'[r] = "approved"
             PROVE  decided'[r] = content' \/ BeingReviewed(r)'
  BY DEF ApprovedAsDecided
<1>1. /\ content' = content
      /\ decided'[r] = IF r \in fresh THEN content ELSE decided[r]
      /\ status'[r] = IF r \in Moves(q) THEN new[r] ELSE status[r]
      /\ slipped' = (slipped \ fresh) \cup Overtaken(q, Moves(q))
  BY DEF Apply, WriteRows
<1>2. CASE r \in Moves(q)
  BY <1>1, <1>2
<1>3. CASE r \notin Moves(q)
  <2>1. r \notin slipped /\ status[r] = "approved" /\ decided'[r] = decided[r]
    BY <1>1, <1>3
  <2>2. \A g \in Handlers \ {h} : request'[g] = request[g]
    BY DEF Apply, End, TypeOK
  <2>3. BeingReviewed(r) => BeingReviewed(r)'
    BY <2>2, StillReviewed DEF Apply
  <2> QED
    BY <1>1, <2>1, <2>3 DEF ApprovedAsDecided
<1> QED
  BY <1>2, <1>3

LEMMA PublishApproved ==
  ASSUME TypeOK, ApprovedAsDecided, NEW x \in Rows, Publish(x)
  PROVE  ApprovedAsDecided'
<1>1. \A r \in Rows : status'[r] = "approved" => status[r] = "approved"
  BY DEF Publish, TypeOK
<1>2. UNCHANGED <<content, decided, slipped, request>>
  BY DEF Publish
<1>3. \A r \in Rows : BeingReviewed(r) => BeingReviewed(r)'
  BY <1>2 DEF BeingReviewed
<1> QED
  BY <1>1, <1>2, <1>3 DEF ApprovedAsDecided

\* A request that begins sends nothing back, and takes nobody's place.
LEMMA BeginApproved ==
  ASSUME TypeOK, ApprovedAsDecided, NEW h \in Handlers, request[h] = Idle,
         NEW q, Go(h, q), UNCHANGED rowVars
  PROVE  ApprovedAsDecided'
<1>1. \A g \in Handlers \ {h} : request'[g] = request[g]
  BY DEF Go, TypeOK
<1>2. \A r \in Rows : BeingReviewed(r) => BeingReviewed(r)'
  BY <1>1, StillReviewed
<1> QED
  BY <1>2, QuietApproved DEF rowVars

LEMMA NextApproved == TypeOK /\ ApprovedAsDecided /\ [Next]_vars => ApprovedAsDecided'
<1> SUFFICES ASSUME TypeOK, ApprovedAsDecided, [Next]_vars PROVE ApprovedAsDecided'
  OBVIOUS
<1>1. ASSUME NEW h \in crew.handlers, NEW kind \in Decisions \cap crew.kinds, Decide(h, kind)
      PROVE  ApprovedAsDecided'
  BY <1>1, CrewType, BeginApproved DEF Decide
<1>2. ASSUME NEW h \in crew.handlers, NEW kind \in {"chip", "rest"} \cap crew.kinds,
             NEW r \in Rows, NEW to \in Status, Chip(h, kind, r, to)
      PROVE  ApprovedAsDecided'
  BY <1>2, CrewType, BeginApproved DEF Chip
<1>3. ASSUME NEW h \in crew.handlers, NEW kind \in Saves \cap crew.kinds,
             NEW form \in {content, content + 1}, BeginSave(h, kind, form)
      PROVE  ApprovedAsDecided'
  BY <1>3, CrewType, BeginApproved DEF BeginSave
<1>4. ASSUME NEW h \in crew.handlers, Handle(h)
      PROVE  ApprovedAsDecided'
  BY <1>4, CrewType, SaveApproved, LoadApproved, RevertApproved, ApplyApproved DEF Handle
<1>5. ASSUME NEW r \in Rows, Publish(r)
      PROVE  ApprovedAsDecided'
  BY <1>5, PublishApproved
<1>6. ASSUME \/ Remind \/ KillJob \/ (crew.reminding # {} /\ Age)
             \/ \E s \in Stages : CooldownEnds(s)
             \/ UNCHANGED vars
      PROVE  ApprovedAsDecided'
  <2>1. UNCHANGED <<status, content, decided, slipped, request>>
    BY <1>6 DEF Remind, ProcessStage, SendReminder, SaveReminder, KillJob, Age,
                CooldownEnds, vars, rowVars
  <2>2. \A r \in Rows : BeingReviewed(r) => BeingReviewed(r)'
    BY <2>1 DEF BeingReviewed
  <2> QED
    BY <2>1, <2>2, QuietApproved
<1> QED
  BY <1>1, <1>2, <1>3, <1>4, <1>5, <1>6 DEF Next

(* An approved row was approved with the content the post has, or a save   *)
(* is about to send it back (views.py 1245-1252), for any number of rows   *)
(* and of requests between one another's steps.                            *)
THEOREM ApprovalsAreOfTheContent == Spec => []ApprovedAsDecided
<1>1. Init => ApprovedAsDecided
  BY DEF Init, ApprovedAsDecided
<1> QED
  BY <1>1, EditorialTypes, NextApproved, PTL DEF Spec
===============================================================================
