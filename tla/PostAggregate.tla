--------------------------- MODULE PostAggregate ---------------------------
(***************************************************************************)
(* A post, its PlatformPost rows and the composer's two read-only rules.   *)
(* Rows move along VALID_TRANSITIONS (the editorial actions, the publish   *)
(* engine); composer saves add and delete rows.  A save may be scoped to   *)
(* one account.  The server refuses it when every row it weighs is         *)
(* protected; the UI steps back when the derived status says so.           *)
(*                                                                         *)
(* Source: apps/composer/status.py, apps/composer/views.py 105-267.        *)
(***************************************************************************)
EXTENDS PlatformPostStatus

CONSTANTS Accounts

VARIABLE row      \* account -> status of the post's row for it, or "absent"

vars == <<row>>

PROTECTED_STATUSES == {"published", "publishing"}

Present(r) == {a \in Accounts : r[a] # "absent"}
Statuses(A) == {row[a] : a \in A}

\* account_scope is an account of the workspace, or nothing.
Unscoped == "unscoped"
Scopes == Accounts \cup {Unscoped}

MatchScope(scope) ==
  IF scope = Unscoped THEN Present(row) ELSE Present(row) \cap {scope}

GatedChildrenStrict(scope) == MatchScope(scope)
\* A scope that names no row weighs the whole post.
GatedChildren(scope) ==
  IF MatchScope(scope) = {} THEN Present(row) ELSE MatchScope(scope)

ChildrenAreLocked(A) == A # {} /\ Statuses(A) \subseteq PROTECTED_STATUSES
ChildrenAreReadonly(A) == DerivePostStatus(Statuses(A)) \in READONLY_STATUSES

-----------------------------------------------------------------------------
Init == row = [a \in Accounts |-> "absent"]

\* Any writer of a row's status: the services, the views, the engine.
Move(a, to) ==
  /\ row[a] # "absent"
  /\ CanTransition(row[a], to)
  /\ row' = [row EXCEPT ![a] = to]

\* Deselected rows inside the scope go, unless they are history.
RemovedAny(selected, scope) ==
  {a \in Present(row) \ selected : scope \in {Unscoped, a}}
Removed(selected, scope) ==
  {a \in Present(row) \ selected :
     scope \in {Unscoped, a} /\ row[a] \notin PROTECTED_STATUSES}

\* The status a newly selected account's row starts in.
InitialStatus == "draft"

\* save_draft, or the autosave: selections are synced, statuses kept.  A save
\* the server refuses changes nothing.
Save(selected, scope) ==
  /\ ~ChildrenAreLocked(GatedChildren(scope))
  /\ row' = [a \in Accounts |->
               IF a \in Removed(selected, scope) THEN "absent"
               ELSE IF a \in selected /\ row[a] = "absent" THEN InitialStatus
               ELSE row[a]]

Next ==
  \/ \E a \in Accounts, to \in Status : Move(a, to)
  \/ \E scope \in Scopes, selected \in SUBSET Accounts : Save(selected, scope)

Spec == Init /\ [][Next]_vars

-----------------------------------------------------------------------------
TypeOK == row \in [Accounts -> Status \cup {"absent"}]

(* The UI is the stricter side (_children_are_readonly): whatever the      *)
(* scope, a post the server refuses to save is one the composer already    *)
(* shows as read-only, so no offered edit is refused.                      *)
UIStricterThanServer ==
  \A scope \in Scopes :
    ChildrenAreLocked(GatedChildren(scope)) => ChildrenAreReadonly(GatedChildren(scope))

(* A post reads "published" only when every one of its rows is live, and   *)
(* "failed" only when every one failed: no mixture hides behind either.    *)
OutcomeIsUnanimous ==
  LET d == DerivePostStatus(Statuses(Present(row)))
  IN  /\ d = "published" => Statuses(Present(row)) = {"published"}
      /\ d = "failed" => Statuses(Present(row)) = {"failed"}

(* No composer save, whatever its scope and selection, deletes a row that  *)
(* is published or in flight: its publish history would cascade away.      *)
HistoryIsNeverDeselected ==
  [][\A a \in Accounts : row[a] \in PROTECTED_STATUSES => row'[a] # "absent"]_vars

(* A post whose rows are all published or in flight is closed: no save,    *)
(* under any scope (one that names no row of it included), adds a row that *)
(* would reopen it for editing (_gated_children).                          *)
ClosedPostStaysClosed ==
  [][(Present(row) # {} /\ Statuses(Present(row)) \subseteq PROTECTED_STATUSES)
       => \A a \in Accounts : row[a] = "absent" => row'[a] = "absent"]_vars
=============================================================================
