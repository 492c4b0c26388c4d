------------------------------ MODULE ApiKeys ------------------------------
(***************************************************************************)
(* One API key between its administrators and the requests it signs        *)
(* (api_keys/services.py, api_keys/signals.py, api/auth.py).  verify_token *)
(* keeps the key's row in a shared cache for REVOCATION_CACHE_TTL; saves   *)
(* of the row delete the entry; the issuer's membership and permissions    *)
(* are read afresh by every request.                                       *)
(***************************************************************************)
EXTENDS Naturals, FiniteSets

CONSTANTS Permissions,
          Requests,             \* API requests in flight
          REVOCATION_CACHE_TTL, \* in units of the longest request
          MaxTime               \* bound: the clock stops here

VARIABLES key,          \* the committed row
          cached,       \* the cache entry: at most one [row, until]
          issuer,       \* permissions the issuer holds; member of the workspace
          admin,        \* the update or revocation in progress
          request,      \* where each request stands
          since,        \* ghost: when each row was last the committed one
          offboarded,   \* ghost: requests begun after the issuer had left
          now

vars == <<key, cached, issuer, admin, request, since, offboarded, now>>

Row == [permissions : SUBSET Permissions, revoked : BOOLEAN]
NoAdmin == [pc |-> "idle", row |-> [permissions |-> {}, revoked |-> FALSE]]
NoRequest == [pc |-> "idle", row |-> {}, granted |-> {}]

Init ==
  /\ key = [permissions |-> Permissions, revoked |-> FALSE]
  /\ cached = {}
  /\ issuer = [member |-> TRUE, permissions |-> Permissions]
  /\ admin = NoAdmin
  /\ request = [q \in Requests |-> NoRequest]
  /\ since = [r \in Row |-> IF r = key THEN 0 ELSE MaxTime + 1]
  /\ offboarded = {}
  /\ now = 0

is_active(row) == ~row.revoked

\* Mutant: an entry found is used, however old.
Hits_Any == cached

Hits == {c \in cached : now < c.until}

\* A request is answered, and a transaction ends, within one unit of time.
Tick ==
  /\ now < MaxTime
  /\ admin = NoAdmin
  /\ \A q \in Requests : request[q].pc \in {"idle", "served"}
  /\ now' = now + 1
  /\ request' = [q \in Requests |-> NoRequest]
  /\ since' = [since EXCEPT ![key] = now + 1]
  /\ UNCHANGED <<key, cached, issuer, admin, offboarded>>

Commit(row) ==
  /\ key' = row
  /\ since' = [since EXCEPT ![row] = now]

-----------------------------------------------------------------------------
(* Administrators                                                          *)

\* update_api_key: an editor flips the permissions they hold themselves.  The
\* row and its accounts are saved in a transaction; the signals delete the
\* cache entry at each save, the commit comes after.
SaveInTransaction ==
  /\ admin.pc = "idle"
  /\ ~key.revoked
  /\ \E P, grantable \in SUBSET Permissions :
       admin' = [pc |-> "commit", row |-> [key EXCEPT !.permissions =
                   (P \cap grantable) \cup (key.permissions \ grantable)]]
  /\ cached' = {}
  /\ UNCHANGED <<key, issuer, request, since, offboarded, now>>

CommitUpdate ==
  /\ admin.pc = "commit"
  /\ Commit(admin.row)
  /\ admin' = NoAdmin
  /\ UNCHANGED <<cached, issuer, request, offboarded, now>>

\* revoke_api_key: saved, then the entry is deleted by the signal and once more.
SaveRevoked ==
  /\ admin.pc = "idle"
  /\ ~key.revoked
  /\ Commit([key EXCEPT !.revoked = TRUE])
  /\ admin' = [NoAdmin EXCEPT !.pc = "signal"]
  /\ UNCHANGED <<cached, issuer, request, offboarded, now>>

Bust ==
  /\ admin.pc \in {"signal", "invalidate"}
  /\ cached' = {}
  /\ admin' = [NoAdmin EXCEPT !.pc = IF admin.pc = "signal" THEN "invalidate" ELSE "idle"]
  /\ UNCHANGED <<key, issuer, request, since, offboarded, now>>

\* The issuer loses permissions, gets them back, or leaves the workspace.
Regrade ==
  /\ issuer.member
  /\ \E P \in SUBSET Permissions, m \in BOOLEAN :
       issuer' = [member |-> m, permissions |-> P]
  /\ UNCHANGED <<key, cached, admin, request, since, offboarded, now>>

-----------------------------------------------------------------------------
(* verify_token and _resolve_effective_permissions                         *)

Goto(q, pc) == request' = [request EXCEPT ![q].pc = pc]
Refuse(q) == request' = [request EXCEPT ![q] = NoRequest]

Hit(q) ==
  /\ \E c \in Hits : request' = [request EXCEPT ![q] =
                        [NoRequest EXCEPT !.pc = "check", !.row = {c.row}]]
  /\ UNCHANGED cached

GetCached(q) ==
  /\ request[q].pc = "idle"
  /\ IF Hits # {} THEN Hit(q) ELSE Goto(q, "load") /\ UNCHANGED cached
  /\ offboarded' = IF issuer.member THEN offboarded \ {q} ELSE offboarded \cup {q}
  /\ UNCHANGED <<key, issuer, admin, since, now>>

Load(q) ==
  /\ request[q].pc = "load"
  /\ request' = [request EXCEPT ![q].row = {key},
                                ![q].pc = IF is_active(key) THEN "store" ELSE "check"]
  /\ UNCHANGED <<key, cached, issuer, admin, since, offboarded, now>>

\* The row may have changed since it was loaded.
Store(q) ==
  /\ request[q].pc = "store"
  /\ cached' = {[row |-> r, until |-> now + REVOCATION_CACHE_TTL] : r \in request[q].row}
  /\ Goto(q, "check")
  /\ UNCHANGED <<key, issuer, admin, since, offboarded, now>>

Active(q) == \A r \in request[q].row : is_active(r)

CheckRow(q) ==
  /\ request[q].pc = "check"
  /\ IF Active(q) THEN Goto(q, "issuer") /\ UNCHANGED cached
                  ELSE Refuse(q) /\ cached' = {}
  /\ UNCHANGED <<key, issuer, admin, since, offboarded, now>>

\* Mutant: the issuer is trusted for as long as the row is cached.
IssuerStillAuthorized_Cached == issuer.member \/ cached # {}

IssuerStillAuthorized == issuer.member

CheckIssuer(q) ==
  /\ request[q].pc = "issuer"
  /\ IF IssuerStillAuthorized THEN Goto(q, "resolve") /\ UNCHANGED cached
                                 ELSE Refuse(q) /\ cached' = {}
  /\ UNCHANGED <<key, issuer, admin, since, offboarded, now>>

\* A second read of the membership: it may have gone since the check.
Effective(row) == IF issuer.member THEN row.permissions \cap issuer.permissions ELSE {}

Resolve(q) ==
  /\ request[q].pc = "resolve"
  /\ \E r \in request[q].row :
       request' = [request EXCEPT ![q].pc = "served", ![q].granted = Effective(r)]
  /\ UNCHANGED <<key, cached, issuer, admin, since, offboarded, now>>

Answer(q) ==
  /\ request[q].pc = "served"
  /\ Refuse(q)
  /\ UNCHANGED <<key, cached, issuer, admin, since, offboarded, now>>

Next ==
  \/ Tick \/ SaveInTransaction \/ CommitUpdate \/ SaveRevoked \/ Bust \/ Regrade
  \/ \E q \in Requests :
       \/ GetCached(q) \/ Load(q) \/ Store(q) \/ CheckRow(q) \/ CheckIssuer(q)
       \/ Resolve(q) \/ Answer(q)

Spec == Init /\ [][Next]_vars

-----------------------------------------------------------------------------
(* No request acts on a row that stopped being the key's row more than the *)
(* cache's lifetime ago, plus the length of the request that stored it: a  *)
(* revocation and an edit reach every worker within that time              *)
(* (services.py:292-294), whatever a slow reader stores after the entry    *)
(* was deleted.                                                            *)
StaleRowsDie ==
  \A q \in Requests : \A r \in request[q].row :
    request[q].pc = "served" => since[r] + REVOCATION_CACHE_TTL >= now

(* A request begun after the issuer left is granted nothing, from the next *)
(* request on and whatever the cache still holds (services.py:374-378).    *)
OffboardedAtOnce ==
  \A q \in offboarded : request[q].pc \notin {"resolve", "served"}

\* What services.py:237-239 says of an update: "the new scope applies on the
\* very next API request".
EditsApplyAtOnce ==
  [][\A q \in Requests : (GetCached(q) /\ Hits # {} /\ admin = NoAdmin)
        => \A c \in Hits : c.row = key]_vars

=============================================================================
