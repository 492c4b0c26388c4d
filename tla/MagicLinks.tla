----------------------------- MODULE MagicLinks -----------------------------
(***************************************************************************)
(* The links that let a client into the portal of one workspace            *)
(* (client_portal/services.py, client_portal/views.py, views_admin.py).    *)
(* Managers ask for a link at the same time, a mail may be refused, a      *)
(* request may die between any two statements, and browsers follow links   *)
(* while managers revoke them.  One client of one workspace is modelled:   *)
(* no operation relates two of them.                                       *)
(***************************************************************************)
EXTENDS Naturals, FiniteSets

CONSTANTS Links,        \* the token rows that may be created, at most this many
          Managers,     \* requests of managers in flight
          Browsers      \* requests that follow a link

VARIABLES link,         \* the token rows, see Row
          isClient,     \* the user has the client role in the workspace
          manager,      \* generate_magic_link and remove_client, where each stands
          browser,      \* consume_magic_link, where each stands
          sessions      \* ghost: portal sessions each link opened

vars == <<link, isClient, manager, browser, sessions>>

\* "by" says what ended the link, "since" orders the rows by creation.
Row == [exists : BOOLEAN, live : BOOLEAN, is_consumed : BOOLEAN,
        mailed : BOOLEAN, by : {"nothing", "newer", "other"},
        since : Nat]

Absent == [exists |-> FALSE, live |-> FALSE, is_consumed |-> FALSE,
           mailed |-> FALSE, by |-> "nothing", since |-> 0]

Idle == [pc |-> "idle", superseded |-> {}, token |-> {}]

Init ==
  /\ link = [l \in Links |-> Absent]
  /\ isClient = TRUE
  /\ manager = [m \in Managers |-> Idle]
  /\ browser = [b \in Browsers |-> {}]
  /\ sessions = [l \in Links |-> 0]

Made == {l \in Links : link[l].since > 0}
Usable(l) == link[l].exists /\ link[l].live

\* An UPDATE of expires_at to now on the rows of S that have not expired.
Expired(S, why) ==
  [l \in Links |-> IF l \in S /\ Usable(l)
                     THEN [link[l] EXCEPT !.live = FALSE, !.by = why]
                     ELSE link[l]]

-----------------------------------------------------------------------------
(* generate_magic_link                                                     *)

\* The role is checked, and the links the new one will replace are read.
ReadSuperseded(m) ==
  /\ manager[m].pc = "idle"
  /\ isClient
  /\ manager' = [manager EXCEPT ![m] =
       [pc |-> "create", token |-> {},
        superseded |-> {l \in Links : Usable(l) /\ ~link[l].is_consumed}]]
  /\ UNCHANGED <<link, isClient, browser, sessions>>

CreateToken(m) ==
  /\ manager[m].pc = "create"
  /\ \E l \in Links \ Made :
       /\ link' = [link EXCEPT ![l] = [Absent EXCEPT !.exists = TRUE, !.live = TRUE,
                                                     !.since = Cardinality(Made) + 1]]
       /\ manager' = [manager EXCEPT ![m].pc = "send", ![m].token = {l}]
  /\ UNCHANGED <<isClient, browser, sessions>>

\* The mail left: the older links are revoked by the next statement.
SendMail(m) ==
  /\ manager[m].pc = "send"
  /\ link' = [l \in Links |-> IF l \in manager[m].token
                                THEN [link[l] EXCEPT !.mailed = TRUE] ELSE link[l]]
  /\ manager' = [manager EXCEPT ![m].pc = "supersede"]
  /\ UNCHANGED <<isClient, browser, sessions>>

\* Mutant of SendRefused: the older links go before the mail, as they once did.
SendRefused_AfterRevoking(m) ==
  /\ manager[m].pc = "send"
  /\ link' = Expired(manager[m].superseded \cup manager[m].token, "newer")
  /\ manager' = [manager EXCEPT ![m] = Idle]
  /\ UNCHANGED <<isClient, browser, sessions>>

\* The mail was refused: the token nobody was told about is deleted.
SendRefused(m) ==
  /\ manager[m].pc = "send"
  /\ link' = [l \in Links |-> IF l \in manager[m].token
                                THEN [link[l] EXCEPT !.exists = FALSE, !.live = FALSE]
                                ELSE link[l]]
  /\ manager' = [manager EXCEPT ![m] = Idle]
  /\ UNCHANGED <<isClient, browser, sessions>>

Supersede(m) ==
  /\ manager[m].pc = "supersede"
  /\ link' = Expired(manager[m].superseded, "newer")
  /\ manager' = [manager EXCEPT ![m] = Idle]
  /\ UNCHANGED <<isClient, browser, sessions>>

\* The request dies with its worker; nothing it wrote is rolled back.
Die(m) ==
  /\ manager[m].pc # "idle"
  /\ manager' = [manager EXCEPT ![m] = Idle]
  /\ UNCHANGED <<link, isClient, browser, sessions>>

-----------------------------------------------------------------------------
(* The other ways a link ends                                              *)

\* revoke_magic_link; a link that outlives its expires_at ends the same way.
RevokeOrLapse(l) ==
  /\ Usable(l)
  /\ link' = Expired({l}, "other")
  /\ UNCHANGED <<isClient, manager, browser, sessions>>

\* remove_client: two statements, in this order and not in one transaction.
RemoveLinks(m) ==
  /\ manager[m].pc = "idle"
  /\ isClient
  /\ link' = Expired(Links, "other")
  /\ manager' = [manager EXCEPT ![m].pc = "delete"]
  /\ UNCHANGED <<isClient, browser, sessions>>

RemoveMembership(m) ==
  /\ manager[m].pc = "delete"
  /\ isClient' = FALSE
  /\ manager' = [manager EXCEPT ![m] = Idle]
  /\ UNCHANGED <<link, browser, sessions>>

-----------------------------------------------------------------------------
(* consume_magic_link: read the row, refuse an expired one, then flip      *)
(* is_consumed with a conditional UPDATE; only a mailed link is followed.  *)

ReadToken(b, l) ==
  /\ browser[b] = {}
  /\ Usable(l) /\ link[l].mailed
  /\ browser' = [browser EXCEPT ![b] = {l}]
  /\ UNCHANGED <<link, isClient, manager, sessions>>

\* The conditional UPDATE finds the row unconsumed.
Wins(l) == link[l].exists /\ ~link[l].is_consumed

Consume(b) ==
  \E l \in browser[b] :
    /\ browser' = [browser EXCEPT ![b] = {}]
    /\ link' = [link EXCEPT ![l].is_consumed = link[l].exists]
    /\ sessions' = [sessions EXCEPT ![l] = IF Wins(l) THEN @ + 1 ELSE @]
    /\ UNCHANGED <<isClient, manager>>

Next ==
  \/ \E m \in Managers :
       \/ ReadSuperseded(m) \/ CreateToken(m) \/ SendMail(m) \/ SendRefused(m)
       \/ Supersede(m) \/ Die(m) \/ RemoveLinks(m) \/ RemoveMembership(m)
  \/ \E l \in Links : RevokeOrLapse(l)
  \/ \E b \in Browsers : Consume(b) \/ \E l \in Links : ReadToken(b, l)

Spec == Init /\ [][Next]_vars

-----------------------------------------------------------------------------
(* A link is ended by a newer one only once the newer one is in the        *)
(* client's mailbox, whatever two managers' requests do to each other and  *)
(* wherever one dies: "any existing link keeps working" when a send fails  *)
(* (services.py:39).  So the client who was sent links and used none of    *)
(* them has one that works, until a manager or time ends it.               *)
ClientKeepsAWayIn ==
  \A l \in Links : link[l].by = "newer" =>
    \E k \in Links : link[k].mailed /\ link[k].since > link[l].since

(* A link opens one session, however many browsers follow it at once.      *)
LinksAreSingleUse == \A l \in Links : sessions[l] <= 1

=============================================================================
