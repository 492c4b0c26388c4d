---------------------------- MODULE Invitations ----------------------------
(***************************************************************************)
(* Invitations of one address to one organization (members/services.py):   *)
(* create, resend, revoke and accept, as requests that read rows, charge   *)
(* the organization's daily budget, reserve a send slot with a conditional *)
(* UPDATE, send the mail and give the slot back when it did not leave.     *)
(* Times are in units of the resend cooldown.                              *)
(***************************************************************************)
EXTENDS Integers, Sequences, FiniteSets

CONSTANTS Invites,              \* the rows that may be created
          Requests,             \* requests of administrators in flight
          INVITE_MAX_SENDS,     \* mails one row allows (default 3)
          INVITE_EXPIRY,        \* how long an invitation lives
          DAILY_BUDGET,         \* mails one organization may send a day
          MaxTime               \* bound: the clock stops here

VARIABLES row,          \* the invitation rows, see NoRow
          charged,      \* invite_org_day, the organization's counter
          member,       \* the invited user has joined the organization
          request,      \* where each request stands
          mails,        \* ghost: when the mails of each row were reserved
          now

vars == <<row, charged, member, request, mails, now>>

Never == -1
COOLDOWN == 1

NoRow == [created |-> Never, expires_at |-> Never, accepted |-> FALSE,
          send_count |-> 0, last_sent_at |-> Never, carried |-> 0]

\* "seen" is the row as the request read it, "prior" what a reservation
\* overwrote.
Idle == [pc |-> "idle", invite |-> {}, seen |-> NoRow, prior |-> Never, at |-> Never]

Init ==
  /\ row = [i \in Invites |-> NoRow]
  /\ charged = 0
  /\ member = FALSE
  /\ request = [q \in Requests |-> Idle]
  /\ mails = [i \in Invites |-> <<>>]
  /\ now = 0

Exists(i) == row[i].created # Never
Expired(r) == now >= r.expires_at

Goto(q, pc) == request' = [request EXCEPT ![q].pc = pc]
Return(q) == request' = [request EXCEPT ![q] = Idle]

\* A request is answered within one unit of time.
Tick ==
  /\ now < MaxTime
  /\ \A q \in Requests : request[q].pc = "idle"
  /\ now' = now + 1
  /\ UNCHANGED <<row, charged, member, request, mails>>

-----------------------------------------------------------------------------
(* create_invitation                                                       *)

\* The send count of the newest open row of the last INVITE_EXPIRY days.
Recent == {i \in Invites : /\ Exists(i) /\ ~row[i].accepted
                           /\ row[i].created >= now - INVITE_EXPIRY}
Newest(i) == \A j \in Recent : row[j].created <= row[i].created
RecentSendCounts == IF Recent = {} THEN {0}
                    ELSE {row[i].send_count : i \in {j \in Recent : Newest(j)}}

CheckCreate(q) ==
  /\ request[q].pc = "idle"
  /\ ~member
  /\ \A i \in Invites : Exists(i) => row[i].accepted \/ Expired(row[i])
  /\ \E n \in RecentSendCounts :
       /\ n < INVITE_MAX_SENDS
       /\ request' = [request EXCEPT ![q] =
            [Idle EXCEPT !.pc = "charge", !.seen.send_count = n, !.seen.carried = n]]
  /\ UNCHANGED <<row, charged, member, mails, now>>

Insert(q) ==
  /\ request[q].pc = "insert"
  /\ \E i \in {j \in Invites : ~Exists(j)} :
       LET new == [NoRow EXCEPT !.created = now, !.expires_at = now + INVITE_EXPIRY,
                                !.send_count = request[q].seen.send_count,
                                !.carried = request[q].seen.carried]
       IN  /\ row' = [row EXCEPT ![i] = new]
           /\ request' = [request EXCEPT ![q].pc = "reserve", ![q].invite = {i},
                                         ![q].seen = new]
  /\ UNCHANGED <<charged, member, mails, now>>

-----------------------------------------------------------------------------
(* resend_invitation: the checks that only produce a message are made on   *)
(* the row as it was read.                                                 *)

CheckResend(q, i) ==
  /\ request[q].pc = "idle"
  /\ Exists(i) /\ ~row[i].accepted
  /\ row[i].send_count < INVITE_MAX_SENDS
  /\ row[i].last_sent_at = Never \/ now - row[i].last_sent_at >= COOLDOWN
  /\ request' = [request EXCEPT ![q] =
       [Idle EXCEPT !.pc = "charge", !.invite = {i}, !.seen = row[i]]]
  /\ UNCHANGED <<row, charged, member, mails, now>>

\* A new token and a new expiry, even for a row that was revoked.
Renew(q) ==
  /\ request[q].pc = "renew"
  /\ row' = [i \in Invites |-> IF i \in request[q].invite
               THEN [row[i] EXCEPT !.expires_at = now + INVITE_EXPIRY] ELSE row[i]]
  /\ Goto(q, "reserve")
  /\ UNCHANGED <<charged, member, mails, now>>

-----------------------------------------------------------------------------
(* What both have in common                                                *)

\* _check_org_invite_budget: a locked counter; what it gave is not returned.
Charge(q) ==
  /\ request[q].pc = "charge"
  /\ IF charged < DAILY_BUDGET
       THEN /\ charged' = charged + 1
            /\ Goto(q, IF request[q].invite = {} THEN "insert" ELSE "renew")
       ELSE Return(q) /\ UNCHANGED charged
  /\ UNCHANGED <<row, member, mails, now>>

\* Mutant of HasSlot: cap and cooldown are only checked on the row as it was read.
HasSlot_AsRead(i) == row[i].send_count >= 0

\* The conditional UPDATE of _reserve_invite_send.
HasSlot(i) ==
  /\ row[i].send_count < INVITE_MAX_SENDS
  /\ row[i].last_sent_at = Never \/ row[i].last_sent_at <= now - COOLDOWN

Reserve(q) ==
  /\ request[q].pc = "reserve"
  /\ \E i \in request[q].invite :
       IF HasSlot(i)
         THEN /\ row' = [row EXCEPT ![i].send_count = @ + 1, ![i].last_sent_at = now]
              /\ request' = [request EXCEPT ![q].pc = "send", ![q].at = now,
                               ![q].prior = request[q].seen.last_sent_at]
         ELSE Return(q) /\ UNCHANGED row
  /\ UNCHANGED <<charged, member, mails, now>>

Sent(q) ==
  /\ request[q].pc = "send"
  /\ mails' = [i \in Invites |-> IF i \in request[q].invite
                 THEN Append(mails[i], request[q].at) ELSE mails[i]]
  /\ Return(q)
  /\ UNCHANGED <<row, charged, member, now>>

\* _release_invite_send: the slot and the cooldown are given back.
Released(r, q) == [r EXCEPT !.send_count = IF @ > 0 THEN @ - 1 ELSE @,
                            !.last_sent_at = request[q].prior]
NotSent(q) ==
  /\ request[q].pc = "send"
  /\ row' = [i \in Invites |-> IF i \in request[q].invite THEN Released(row[i], q) ELSE row[i]]
  /\ Return(q)
  /\ UNCHANGED <<charged, member, mails, now>>

\* The request dies with its worker; nothing it wrote is rolled back.
Die(q) ==
  /\ request[q].pc # "idle"
  /\ Return(q)
  /\ UNCHANGED <<row, charged, member, mails, now>>

-----------------------------------------------------------------------------
(* revoke_invitation and accept_invitation                                 *)

Revoke(i) ==
  /\ Exists(i) /\ ~row[i].accepted /\ ~Expired(row[i])
  /\ row' = [row EXCEPT ![i].expires_at = now]
  /\ UNCHANGED <<charged, member, request, mails, now>>

\* The memberships are created first, the row is stamped by a later statement.
Join(q, i) ==
  /\ request[q].pc = "idle"
  /\ Exists(i) /\ ~row[i].accepted /\ ~Expired(row[i])
  /\ mails[i] # <<>>
  /\ member' = TRUE
  /\ request' = [request EXCEPT ![q] = [Idle EXCEPT !.pc = "stamp", !.invite = {i}]]
  /\ UNCHANGED <<row, charged, mails, now>>

Stamp(q) ==
  /\ request[q].pc = "stamp"
  /\ row' = [i \in Invites |-> IF i \in request[q].invite
               THEN [row[i] EXCEPT !.accepted = TRUE] ELSE row[i]]
  /\ Return(q)
  /\ UNCHANGED <<charged, member, mails, now>>

Next ==
  \/ Tick
  \/ \E q \in Requests :
       \/ CheckCreate(q) \/ Insert(q) \/ Charge(q) \/ Renew(q) \/ Reserve(q)
       \/ Sent(q) \/ NotSent(q) \/ Die(q) \/ Stamp(q)
       \/ \E i \in Invites : CheckResend(q, i) \/ Join(q, i)
  \/ \E i \in Invites : Revoke(i)

Spec == Init /\ [][Next]_vars

-----------------------------------------------------------------------------
\* The mails of all rows, numbered in each.
Mailed(Numbers) == {m \in Invites \X Numbers : m[2] <= Len(mails[m[1]])}

(* A row never mails more often than its cap less what it inherited, two   *)
(* mails of a row are a cooldown apart, and all of them together stay in   *)
(* the organization's budget, however requests overlap, fail or die        *)
(* ("actually enforced atomically in _reserve_invite_send",                *)
(* services.py:274).                                                       *)
InviteMailIsBounded ==
  /\ \A i \in Invites :
       /\ Len(mails[i]) + row[i].carried <= INVITE_MAX_SENDS
       /\ \A j, k \in DOMAIN mails[i] : j < k => mails[i][k] - mails[i][j] >= COOLDOWN
  /\ Cardinality(Mailed(1..DAILY_BUDGET + 1)) <= DAILY_BUDGET

\* What the comment at services.py:131-135 says of an address: revoking and
\* inviting again does not hand out another INVITE_MAX_SENDS mails.
AddressIsMailedAtMostMaxSends ==
  Cardinality(Mailed(1..INVITE_MAX_SENDS)) <= INVITE_MAX_SENDS

=============================================================================
