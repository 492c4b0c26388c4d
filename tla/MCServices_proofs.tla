-------------------------- MODULE MCServices_proofs --------------------------
(***************************************************************************)
(* What each service keeps, for any numbers of requests, workers, rows and *)
(* callers and any limits: the properties MCServices states, lifted from   *)
(* the module of the service to the composition.                           *)
(***************************************************************************)
EXTENDS MCServices, Sequences, FiniteSetTheorems, TLAPS

-----------------------------------------------------------------------------
(* A service takes its own steps, and only those.                          *)

allVars == <<service, vars, MagicVars, InvitationVars, KeyVars, AgentVars,
             SyncVars, ChannelVars, BreakerVars, ProviderVars>>

LEMMA OneServiceMoves ==
  ASSUME [ServicesNext]_allVars
  PROVE  /\ service' = service
         /\ service = "links" => Magic!Next \/ UNCHANGED MagicVars
         /\ service = "invitations" => Invitation!Next \/ UNCHANGED InvitationVars
         /\ service = "keys" => Key!Next \/ UNCHANGED KeyVars
         /\ service = "agents" => Agent!Next \/ UNCHANGED AgentVars
         /\ service = "inbox" => Sync!Next \/ UNCHANGED SyncVars
         /\ service = "channel" => Channel!Next \/ UNCHANGED ChannelVars
         /\ service = "queues" => Pair!Next \/ UNCHANGED ChannelVars
         /\ service = "quota" => Breaker!Next \/ UNCHANGED BreakerVars
         /\ service = "providers" => Provider!Next \/ UNCHANGED ProviderVars
         /\ service # "providers" => UNCHANGED ProviderVars
<1>1. CASE PostStep
  BY <1>1 DEF PostStep, BreakerVars
<1>2. CASE MagicStep
  BY <1>2 DEF MagicStep
<1>3. CASE InvitationStep
  BY <1>3 DEF InvitationStep
<1>4. CASE KeyStep
  BY <1>4 DEF KeyStep
<1>5. CASE AgentStep
  BY <1>5 DEF AgentStep
<1>6. CASE SyncStep
  BY <1>6 DEF SyncStep
<1>7. CASE ChannelStep
  BY <1>7 DEF ChannelStep
<1>8. CASE BreakerStep
  BY <1>8 DEF BreakerStep
<1>9. CASE ProviderStep
  BY <1>9 DEF ProviderStep
<1>10. CASE UNCHANGED allVars
  BY <1>10 DEF allVars
<1> QED
  BY <1>1, <1>2, <1>3, <1>4, <1>5, <1>6, <1>7, <1>8, <1>9, <1>10 DEF ServicesNext

\* A service's cardinality is the cardinality.
LEMMA SameCardinality ==
  ASSUME NEW S
  PROVE  /\ Agent!Cardinality(S) = Cardinality(S)
         /\ Magic!Cardinality(S) = Cardinality(S)
         /\ Invitation!Cardinality(S) = Cardinality(S)
  BY DEF Agent!Cardinality, Magic!Cardinality, Invitation!Cardinality, Cardinality

-----------------------------------------------------------------------------
(* An API key.                                                             *)

KeyRun == [pc : {"idle", "load", "store", "check", "issuer", "resolve", "served"},
           row : SUBSET Key!Row, granted : SUBSET Permissions]

KeyTypes ==
  /\ key \in Key!Row
  /\ clock \in Nat
  /\ since \in [Key!Row -> Nat]
  /\ admin \in [pc : {"idle", "commit", "signal", "invalidate"}, row : Key!Row]
  /\ call \in [Requests -> KeyRun]
  /\ offboarded \subseteq Requests

\* What the cache and a request hold of the key's row: how old it may be.
FreshEntry(c) ==
  /\ c.row \in Key!Row /\ c.until \in Nat
  /\ since[c.row] <= clock
  /\ c.until <= since[c.row] + REVOCATION_CACHE_TTL

FreshRun(run) ==
  \A r \in run.row :
    /\ since[r] <= clock
    /\ run.pc = "store" => since[r] = clock
    /\ run.pc \in {"check", "issuer", "resolve", "served"} =>
         since[r] + REVOCATION_CACHE_TTL >= clock

KeyInv ==
  /\ KeyTypes
  /\ since[key] = clock
  /\ \A c \in cached : FreshEntry(c)
  /\ \A q \in Requests : FreshRun(call[q])
  /\ issuer.member => offboarded = {}
  /\ \A q \in offboarded : call[q].pc \notin {"resolve", "served"}

KeyLimits == {MaxHour, REVOCATION_CACHE_TTL} \subseteq Nat

LEMMA IdleCall ==
  ASSUME TRUE
  PROVE  /\ Key!NoRequest \in KeyRun
         /\ Key!NoRequest.row = {} /\ Key!NoRequest.pc = "idle"
         /\ FreshRun(Key!NoRequest) /\ FreshRun(Key!NoRequest)'
  BY DEF Key!NoRequest, KeyRun, FreshRun

LEMMA KeyStarts ==
  ASSUME KeyLimits, Key!Init
  PROVE  KeyInv
<1>1. KeyTypes
  BY IdleCall DEF Key!Init, KeyTypes, Key!Row, Key!NoAdmin, KeyLimits
<1> QED
  BY <1>1, IdleCall DEF Key!Init, KeyInv, KeyTypes

\* One request moves, and finds or leaves in the cache what is fresh enough.
LEMMA OneCallMoves ==
  ASSUME KeyInv, NEW q \in Requests, NEW run \in KeyRun,
         call' = [call EXCEPT ![q] = run],
         UNCHANGED <<key, issuer, admin, since, clock>>,
         \A c \in cached' : FreshEntry(c), FreshRun(run),
         offboarded' \subseteq offboarded \cup {q}, issuer.member => offboarded' = {},
         q \in offboarded' => run.pc \notin {"resolve", "served"}
  PROVE  KeyInv'
<1>1. /\ call' \in [Requests -> KeyRun]
      /\ \A p \in Requests : call'[p] = IF p = q THEN run ELSE call[p]
  BY DEF KeyInv, KeyTypes
<1>2. KeyTypes'
  BY <1>1 DEF KeyInv, KeyTypes
<1>3. \A c \in cached' : FreshEntry(c)'
  BY DEF FreshEntry
<1>4. \A p \in Requests : FreshRun(call[p])'
  BY <1>1 DEF KeyInv, FreshRun
<1>5. \A p \in offboarded' : call'[p].pc \notin {"resolve", "served"}
  BY <1>1, <1>2 DEF KeyInv, KeyTypes
<1> QED
  BY <1>2, <1>3, <1>4, <1>5 DEF KeyInv

\* The row, its age and the clock move on: what was fresh enough stays so.
LEMMA TheRowMoves ==
  ASSUME KeyLimits, KeyInv, KeyTypes', NEW aRow \in Key!Row, key' = aRow,
         since' = [since EXCEPT ![aRow] = clock],
         UNCHANGED <<cached, issuer, call, offboarded, clock>>
  PROVE  KeyInv'
<1>1. \A r \in Key!Row : since'[r] = IF r = aRow THEN clock ELSE since[r]
  BY DEF KeyInv, KeyTypes
<1>2. ASSUME NEW c \in cached PROVE FreshEntry(c)'
  <2>1. FreshEntry(c) /\ c.row \in Key!Row /\ since[c.row] \in Nat /\ clock \in Nat
    BY DEF KeyInv, KeyTypes, FreshEntry
  <2> QED
    BY <1>1, <2>1 DEF FreshEntry, KeyLimits
<1>3. ASSUME NEW q \in Requests PROVE FreshRun(call[q])'
  <2>1. FreshRun(call[q]) /\ call[q].row \subseteq Key!Row /\ clock \in Nat
    BY DEF KeyInv, KeyTypes, KeyRun
  <2>2. \A r \in call[q].row : since[r] \in Nat
    BY <2>1 DEF KeyInv, KeyTypes
  <2> QED
    BY <1>1, <2>1, <2>2 DEF FreshRun, KeyLimits
<1>4. since'[key'] = clock
  BY <1>1
<1> QED
  BY <1>2, <1>3, <1>4 DEF KeyInv

LEMMA KeyEdits ==
  ASSUME KeyLimits, KeyInv,
         \/ Key!SaveInTransaction \/ Key!CommitUpdate \/ Key!SaveRevoked
         \/ Key!Bust \/ Key!Regrade
  PROVE  KeyInv'
<1>0. /\ key \in Key!Row /\ admin.row \in Key!Row
      /\ since \in [Key!Row -> Nat] /\ clock \in Nat
  BY DEF KeyInv, KeyTypes
<1>1. CASE Key!SaveInTransaction
  <2>1. PICK P \in SUBSET Permissions, grantable \in SUBSET Permissions :
          admin' = [pc |-> "commit", row |-> [key EXCEPT !.permissions =
                      (P \cap grantable) \cup (key.permissions \ grantable)]]
    BY <1>1 DEF Key!SaveInTransaction
  <2>2. admin' \in [pc : {"idle", "commit", "signal", "invalidate"}, row : Key!Row]
    BY <1>0, <2>1 DEF Key!Row
  <2> QED
    BY <1>1, <2>2 DEF Key!SaveInTransaction, KeyInv, KeyTypes, FreshEntry, FreshRun
<1>2. CASE Key!CommitUpdate
  <2>1. KeyTypes'
    BY <1>0, <1>2 DEF Key!CommitUpdate, Key!Commit, Key!NoAdmin, Key!Row, KeyInv, KeyTypes
  <2> QED
    BY <1>0, <1>2, <2>1, TheRowMoves DEF Key!CommitUpdate, Key!Commit
<1>3. CASE Key!SaveRevoked
  <2> DEFINE aRow == [key EXCEPT !.revoked = TRUE]
  <2>1. aRow \in Key!Row
    BY <1>0 DEF Key!Row
  <2>2. key' = aRow /\ since' = [since EXCEPT ![aRow] = clock]
    BY <1>3 DEF Key!SaveRevoked, Key!Commit
  <2>3. admin' \in [pc : {"idle", "commit", "signal", "invalidate"}, row : Key!Row]
    BY <1>3 DEF Key!SaveRevoked, Key!NoAdmin, Key!Row
  <2> HIDE DEF aRow
  <2>4. KeyTypes'
    BY <1>0, <1>3, <2>1, <2>2, <2>3 DEF Key!SaveRevoked, KeyInv, KeyTypes
  <2> QED
    BY <1>3, <2>1, <2>2, <2>4, TheRowMoves DEF Key!SaveRevoked
<1>4. CASE Key!Bust
  <2>1. admin' \in [pc : {"idle", "commit", "signal", "invalidate"}, row : Key!Row]
    BY <1>4 DEF Key!Bust, Key!NoAdmin, Key!Row
  <2> QED
    BY <1>4, <2>1 DEF Key!Bust, KeyInv, KeyTypes, FreshEntry, FreshRun
<1>5. CASE Key!Regrade
  BY <1>5 DEF Key!Regrade, KeyInv, KeyTypes, FreshEntry, FreshRun
<1> QED
  BY <1>1, <1>2, <1>3, <1>4, <1>5

LEMMA KeyTicks ==
  ASSUME KeyLimits, KeyInv, Key!Tick
  PROVE  KeyInv'
<1>0. /\ key \in Key!Row /\ since \in [Key!Row -> Nat] /\ clock \in Nat
      /\ clock' = clock + 1 /\ since' = [since EXCEPT ![key] = clock + 1]
      /\ call' = [q \in Requests |-> Key!NoRequest]
      /\ UNCHANGED <<key, cached, issuer, admin, offboarded>>
  BY DEF KeyInv, KeyTypes, Key!Tick
<1>1. KeyTypes'
  BY <1>0, IdleCall DEF KeyInv, KeyTypes
<1>2. \A r \in Key!Row : since'[r] = IF r = key THEN clock + 1 ELSE since[r]
  BY <1>0
<1>3. ASSUME NEW c \in cached PROVE FreshEntry(c)'
  <2>1. FreshEntry(c) /\ c.row \in Key!Row /\ since[c.row] \in Nat
    BY <1>0 DEF KeyInv, FreshEntry
  <2> QED
    BY <1>0, <1>2, <2>1 DEF FreshEntry, KeyLimits
<1>4. \A q \in Requests : call'[q] = Key!NoRequest
  BY <1>0
<1>5. \A q \in offboarded' : call'[q].pc \notin {"resolve", "served"}
  BY <1>0, <1>1, <1>4, IdleCall DEF KeyTypes
<1> QED
  BY <1>0, <1>1, <1>2, <1>3, <1>4, <1>5, IdleCall DEF KeyInv

LEMMA KeyCalls ==
  ASSUME KeyLimits, KeyInv, NEW q \in Requests,
         \/ Key!GetCached(q) \/ Key!Load(q) \/ Key!Store(q) \/ Key!CheckRow(q)
         \/ Key!CheckIssuer(q) \/ Key!Resolve(q) \/ Key!Answer(q)
  PROVE  KeyInv'
<1>0. /\ key \in Key!Row /\ since \in [Key!Row -> Nat] /\ clock \in Nat
      /\ since[key] = clock /\ \A c \in cached : FreshEntry(c)
      /\ call[q] \in KeyRun /\ FreshRun(call[q])
      /\ \A r \in call[q].row : r \in Key!Row /\ since[r] \in Nat
      /\ issuer.member => offboarded = {}
      /\ q \in offboarded => call[q].pc \notin {"resolve", "served"}
  BY DEF KeyInv, KeyTypes, KeyRun
<1>1. CASE Key!GetCached(q)
  <2>1. /\ issuer.member => offboarded' = {}
        /\ offboarded' \subseteq offboarded \cup {q}
        /\ UNCHANGED <<key, issuer, admin, since, clock, cached>>
    BY <1>0, <1>1 DEF Key!GetCached, Key!Hit
  <2>2. ASSUME NEW c \in Key!Hits,
               call' = [call EXCEPT ![q] = [Key!NoRequest EXCEPT !.pc = "check", !.row = {c.row}]]
        PROVE  KeyInv'
    <3> DEFINE run == [Key!NoRequest EXCEPT !.pc = "check", !.row = {c.row}]
    <3>1. FreshEntry(c) /\ clock < c.until /\ c.row \in Key!Row /\ since[c.row] \in Nat
      BY <1>0 DEF Key!Hits, FreshEntry
    <3>2. run \in KeyRun /\ run.pc = "check" /\ run.row = {c.row}
      BY <3>1, IdleCall DEF KeyRun
    <3>3. call' = [call EXCEPT ![q] = run]
      BY <2>2
    <3> HIDE DEF run
    <3>4. FreshRun(run)
      BY <1>0, <3>1, <3>2 DEF FreshRun, FreshEntry, KeyLimits
    <3> QED
      BY <1>0, <2>1, <3>2, <3>3, <3>4, OneCallMoves
  <2>3. ASSUME Key!Goto(q, "load") PROVE KeyInv'
    <3> DEFINE run == [call[q] EXCEPT !.pc = "load"]
    <3>1. run \in KeyRun /\ run.pc = "load" /\ run.row = call[q].row
      BY <1>0 DEF KeyRun
    <3>2. call' = [call EXCEPT ![q] = run]
      BY <2>3 DEF Key!Goto
    <3> HIDE DEF run
    <3>3. FreshRun(run)
      BY <1>0, <3>1 DEF FreshRun
    <3> QED
      BY <1>0, <2>1, <3>1, <3>2, <3>3, OneCallMoves
  <2> QED
    BY <1>1, <2>2, <2>3 DEF Key!GetCached, Key!Hit
<1>2. CASE Key!Load(q)
  <2> DEFINE run == [call[q] EXCEPT !.row = {key},
                                    !.pc = IF Key!is_active(key) THEN "store" ELSE "check"]
  <2>1. run \in KeyRun /\ run.pc \in {"store", "check"} /\ run.row = {key}
    BY <1>0 DEF KeyRun
  <2>2. call' = [call EXCEPT ![q] = run]
    BY <1>2 DEF Key!Load
  <2> HIDE DEF run
  <2>3. FreshRun(run)
    BY <1>0, <2>1 DEF FreshRun, KeyLimits
  <2> QED
    BY <1>0, <1>2, <2>1, <2>2, <2>3, OneCallMoves DEF Key!Load
<1>3. CASE Key!Store(q)
  <2> DEFINE run == [call[q] EXCEPT !.pc = "check"]
  <2>1. run \in KeyRun /\ run.pc = "check" /\ run.row = call[q].row
    BY <1>0 DEF KeyRun
  <2>2. call' = [call EXCEPT ![q] = run]
    BY <1>3 DEF Key!Store, Key!Goto
  <2> HIDE DEF run
  <2>3. FreshRun(run)
    BY <1>0, <1>3, <2>1 DEF FreshRun, KeyLimits, Key!Store
  <2>4. \A c \in cached' : FreshEntry(c)
    <3>1. ASSUME NEW r \in call[q].row
          PROVE  FreshEntry([row |-> r, until |-> clock + REVOCATION_CACHE_TTL])
      <4>1. r \in Key!Row /\ since[r] = clock
        BY <1>0, <1>3 DEF FreshRun, Key!Store
      <4> QED
        BY <1>0, <4>1 DEF FreshEntry, KeyLimits
    <3> QED
      BY <1>3, <3>1 DEF Key!Store
  <2> QED
    BY <1>0, <1>3, <2>1, <2>2, <2>3, <2>4, OneCallMoves DEF Key!Store
<1>4. CASE Key!CheckRow(q) /\ Key!Active(q)
  <2> DEFINE run == [call[q] EXCEPT !.pc = "issuer"]
  <2>1. run \in KeyRun /\ run.pc = "issuer" /\ run.row = call[q].row
    BY <1>0 DEF KeyRun
  <2>2. call' = [call EXCEPT ![q] = run]
    BY <1>4 DEF Key!CheckRow, Key!Goto
  <2> HIDE DEF run
  <2>3. FreshRun(run)
    BY <1>0, <1>4, <2>1 DEF FreshRun, Key!CheckRow
  <2> QED
    BY <1>0, <1>4, <2>1, <2>2, <2>3, OneCallMoves DEF Key!CheckRow
<1>5. CASE Key!CheckIssuer(q) /\ Key!IssuerStillAuthorized
  <2> DEFINE run == [call[q] EXCEPT !.pc = "resolve"]
  <2>1. run \in KeyRun /\ run.pc = "resolve" /\ run.row = call[q].row
    BY <1>0 DEF KeyRun
  <2>2. call' = [call EXCEPT ![q] = run]
    BY <1>5 DEF Key!CheckIssuer, Key!Goto
  <2> HIDE DEF run
  <2>3. FreshRun(run)
    BY <1>0, <1>5, <2>1 DEF FreshRun, Key!CheckIssuer
  <2>4. offboarded = {}
    BY <1>0, <1>5 DEF Key!IssuerStillAuthorized
  <2> QED
    BY <1>0, <1>5, <2>1, <2>2, <2>3, <2>4, OneCallMoves DEF Key!CheckIssuer
<1>6. CASE Key!Resolve(q)
  <2>1. PICK r \in call[q].row :
          call' = [call EXCEPT ![q].pc = "served", ![q].granted = Key!Effective(r)]
    BY <1>6 DEF Key!Resolve
  <2> DEFINE run == [call[q] EXCEPT !.pc = "served", !.granted = Key!Effective(r)]
  <2>2. Key!Effective(r) \in SUBSET Permissions
    BY <1>0 DEF Key!Effective, Key!Row
  <2>3. run \in KeyRun /\ run.pc = "served" /\ run.row = call[q].row
    BY <1>0, <2>2 DEF KeyRun
  <2>4. call' = [call EXCEPT ![q] = run]
    BY <2>1
  <2> HIDE DEF run
  <2>5. FreshRun(run) /\ q \notin offboarded
    BY <1>0, <1>6, <2>3 DEF FreshRun, Key!Resolve
  <2> QED
    BY <1>0, <1>6, <2>3, <2>4, <2>5, OneCallMoves DEF Key!Resolve
<1>7. CASE /\ Key!Refuse(q) /\ UNCHANGED <<key, issuer, admin, since, offboarded, clock>>
           /\ cached' = cached \/ cached' = {}
  <2>1. call' = [call EXCEPT ![q] = Key!NoRequest]
    BY <1>7 DEF Key!Refuse
  <2> QED
    BY <1>0, <1>7, <2>1, IdleCall, OneCallMoves
<1> QED
  BY <1>1, <1>2, <1>3, <1>4, <1>5, <1>6, <1>7 DEF Key!CheckRow, Key!CheckIssuer, Key!Answer

LEMMA KeyNext ==
  ASSUME KeyLimits, KeyInv, Key!Next \/ UNCHANGED KeyVars
  PROVE  KeyInv'
<1>1. CASE UNCHANGED KeyVars
  BY <1>1 DEF KeyVars, KeyInv, KeyTypes, FreshEntry, FreshRun
<1> QED
  BY <1>1, KeyTicks, KeyEdits, KeyCalls DEF Key!Next

(* A row that stopped being the key's is served for no longer than the     *)
(* cache's lifetime plus one request (services.py 292-294), whoever edits, *)
(* revokes, loads and stores at the same time.                             *)
THEOREM CachedRowsDie == ASSUME KeyLimits PROVE ServicesSpec => []StaleRowsDie
<1>1. ServicesInit => (service = "keys" => KeyInv)
  BY KeyStarts DEF ServicesInit
<1>2. (service = "keys" => KeyInv) /\ [ServicesNext]_allVars => (service = "keys" => KeyInv)'
  BY OneServiceMoves, KeyNext
<1>3. (service = "keys" => KeyInv) => StaleRowsDie
  BY DEF StaleRowsDie, Key!StaleRowsDie, KeyInv, FreshRun
<1> QED
  BY <1>1, <1>2, <1>3, PTL DEF ServicesSpec, allVars

(* Who has left the workspace is granted nothing from the next request on, *)
(* whatever the cache still holds (services.py 374-378).                   *)
THEOREM LeaversAreOut == ASSUME KeyLimits PROVE ServicesSpec => []OffboardedAtOnce
<1>1. ServicesInit => (service = "keys" => KeyInv)
  BY KeyStarts DEF ServicesInit
<1>2. (service = "keys" => KeyInv) /\ [ServicesNext]_allVars => (service = "keys" => KeyInv)'
  BY OneServiceMoves, KeyNext
<1>3. (service = "keys" => KeyInv) => OffboardedAtOnce
  BY DEF OffboardedAtOnce, Key!OffboardedAtOnce, KeyInv
<1> QED
  BY <1>1, <1>2, <1>3, PTL DEF ServicesSpec, allVars

-----------------------------------------------------------------------------
(* Links to the client portal.                                             *)

LinkManager == [pc : {"idle", "create", "send", "supersede", "delete"},
                superseded : SUBSET Links, token : SUBSET Links]

\* A newer link that was mailed.
HasNewer(l) == \E k \in Links : link[k].mailed /\ link[k].since > link[l].since

\* What a manager is about to revoke, and made since it was read.
ReplacesOlder(run) ==
  /\ run.pc = "create" => run.superseded \subseteq Magic!Made
  /\ run.pc \in {"send", "supersede"} =>
       \E t \in Magic!Made :
         /\ run.token = {t}
         /\ \A l \in run.superseded : l \in Magic!Made /\ link[l].since < link[t].since
         /\ run.pc = "supersede" => link[t].mailed

LinkInv ==
  /\ link \in [Links -> Magic!Row]
  /\ manager \in [Managers -> LinkManager]
  /\ IsFiniteSet(Magic!Made)
  /\ \A l \in Magic!Made : link[l].since <= Cardinality(Magic!Made)
  /\ \A l \in Links : l \notin Magic!Made => ~Magic!Usable(l) /\ ~link[l].mailed
  /\ \A m \in Managers : ReplacesOlder(manager[m])
  /\ \A l \in Links : link[l].by = "newer" => HasNewer(l)

LEMMA LinksStart ==
  ASSUME Magic!Init
  PROVE  LinkInv
<1>1. /\ link \in [Links -> Magic!Row]
      /\ \A l \in Links : link[l] = Magic!Absent
      /\ manager \in [Managers -> LinkManager]
      /\ \A m \in Managers : manager[m] = Magic!Idle
  BY DEF Magic!Init, Magic!Row, Magic!Absent, Magic!Idle, LinkManager
<1>2. Magic!Made = {}
  BY <1>1 DEF Magic!Made, Magic!Absent
<1>3. IsFiniteSet(Magic!Made)
  BY <1>2, FS_EmptySet
<1> QED
  BY <1>1, <1>2, <1>3 DEF LinkInv, ReplacesOlder, Magic!Absent, Magic!Idle, Magic!Usable

\* Rows that keep their place, their mail and what they were ended by.
LEMMA LinksKeptInPlace ==
  ASSUME LinkInv, link' \in [Links -> Magic!Row], manager' \in [Managers -> LinkManager],
         \A l \in Links : /\ link'[l].since = link[l].since
                          /\ link[l].mailed => link'[l].mailed
                          /\ l \notin Magic!Made => ~Magic!Usable(l)' /\ ~link'[l].mailed
                          /\ link'[l].by = "newer" => link[l].by = "newer" \/ HasNewer(l),
         \A m \in Managers : manager'[m] = manager[m] \/ ReplacesOlder(manager[m])'
  PROVE  LinkInv'
<1>1. Magic!Made' = Magic!Made
  BY DEF Magic!Made
<1>2. \A m \in Managers : ReplacesOlder(manager[m])'
  <2> SUFFICES ASSUME NEW m \in Managers, manager'[m] = manager[m]
               PROVE  ReplacesOlder(manager[m])'
    OBVIOUS
  <2>1. ReplacesOlder(manager[m]) /\ manager[m] \in LinkManager
    BY DEF LinkInv
  <2>2. CASE manager[m].pc \in {"send", "supersede"}
    <3>1. PICK t \in Magic!Made :
            /\ manager[m].token = {t}
            /\ \A l \in manager[m].superseded : l \in Magic!Made /\ link[l].since < link[t].since
            /\ manager[m].pc = "supersede" => link[t].mailed
      BY <2>1, <2>2 DEF ReplacesOlder
    <3>2. t \in Links /\ manager[m].superseded \subseteq Links
      BY <2>1 DEF Magic!Made, LinkManager
    <3>3. /\ \A l \in manager[m].superseded : l \in Magic!Made' /\ link'[l].since < link'[t].since
          /\ manager[m].pc = "supersede" => link'[t].mailed
      BY <1>1, <3>1, <3>2
    <3> QED
      BY <1>1, <2>2, <3>1, <3>3 DEF ReplacesOlder
  <2>3. CASE manager[m].pc \notin {"send", "supersede"}
    BY <1>1, <2>1, <2>3 DEF ReplacesOlder
  <2> QED
    BY <2>2, <2>3
<1>3. \A l \in Links : HasNewer(l) => HasNewer(l)'
  BY DEF HasNewer
<1>4. \A l \in Links : link'[l].by = "newer" => HasNewer(l)'
  BY <1>3 DEF LinkInv
<1>5. \A l \in Magic!Made' : link'[l].since <= Cardinality(Magic!Made')
  BY <1>1 DEF LinkInv, Magic!Made
<1> QED
  BY <1>1, <1>2, <1>4, <1>5 DEF LinkInv

\* Revoking rows changes nothing else of them.
LEMMA Revoking ==
  ASSUME LinkInv, NEW S \in SUBSET Links, NEW why \in {"newer", "other"},
         link' = Magic!Expired(S, why)
  PROVE  /\ link' \in [Links -> Magic!Row]
         /\ \A l \in Links : /\ link'[l].since = link[l].since
                             /\ link'[l].mailed = link[l].mailed
                             /\ Magic!Usable(l)' => Magic!Usable(l)
                             /\ link'[l].by = link[l].by \/ (l \in S /\ link'[l].by = why)
<1> SUFFICES ASSUME NEW l \in Links
             PROVE  /\ link'[l] \in Magic!Row
                    /\ link'[l].since = link[l].since
                    /\ link'[l].mailed = link[l].mailed
                    /\ Magic!Usable(l)' => Magic!Usable(l)
                    /\ link'[l].by = link[l].by \/ (l \in S /\ link'[l].by = why)
  BY DEF Magic!Expired
<1>0. link[l] \in Magic!Row
  BY DEF LinkInv
<1>1. CASE l \in S /\ Magic!Usable(l)
  <2>1. link'[l] = [link[l] EXCEPT !.live = FALSE, !.by = why]
    BY <1>1 DEF Magic!Expired
  <2> QED
    BY <1>0, <1>1, <2>1 DEF Magic!Row
<1>2. CASE ~(l \in S /\ Magic!Usable(l))
  <2>1. link'[l] = link[l]
    BY <1>2 DEF Magic!Expired
  <2> QED
    BY <1>0, <2>1 DEF Magic!Usable
<1> QED
  BY <1>1, <1>2

LEMMA TokenMade ==
  ASSUME LinkInv, NEW m \in Managers, Magic!CreateToken(m)
  PROVE  LinkInv'
<1> DEFINE n == Cardinality(Magic!Made)
<1>1. /\ manager[m].pc = "create" /\ manager[m] \in LinkManager
      /\ manager[m].superseded \subseteq Magic!Made
      /\ IsFiniteSet(Magic!Made) /\ n \in Nat
      /\ Magic!Cardinality(Magic!Made) = n
  <2>1. /\ manager[m].pc = "create" /\ manager[m] \in LinkManager /\ ReplacesOlder(manager[m])
        /\ IsFiniteSet(Magic!Made)
    BY DEF LinkInv, Magic!CreateToken
  <2> QED
    BY <2>1, SameCardinality, FS_CardinalityType DEF ReplacesOlder
<1>2. PICK l \in Links \ Magic!Made :
        /\ link' = [link EXCEPT ![l] = [Magic!Absent EXCEPT !.exists = TRUE, !.live = TRUE,
                                                            !.since = n + 1]]
        /\ manager' = [manager EXCEPT ![m].pc = "send", ![m].token = {l}]
  BY <1>1 DEF Magic!CreateToken
<1> DEFINE aRow == [Magic!Absent EXCEPT !.exists = TRUE, !.live = TRUE, !.since = n + 1]
           run == [manager[m] EXCEPT !.pc = "send", !.token = {l}]
<1>3. aRow \in Magic!Row /\ aRow.since = n + 1 /\ aRow.by = "nothing" /\ aRow.mailed = FALSE
  <2> DEFINE a == [Magic!Absent EXCEPT !.exists = TRUE]
             c == [a EXCEPT !.live = TRUE]
  <2>1. a \in Magic!Row /\ a.by = "nothing" /\ a.mailed = FALSE
    BY DEF Magic!Row, Magic!Absent
  <2> HIDE DEF a
  <2>2. c \in Magic!Row /\ c.by = "nothing" /\ c.mailed = FALSE
    BY <2>1 DEF Magic!Row
  <2>3. aRow = [c EXCEPT !.since = n + 1]
    BY Zenon DEF a
  <2> HIDE DEF c, aRow
  <2> QED
    BY <1>1, <2>2, <2>3 DEF Magic!Row
<1>4. /\ run \in LinkManager /\ run.pc = "send" /\ run.token = {l}
      /\ run.superseded = manager[m].superseded
  BY <1>1, <1>2 DEF LinkManager
<1>5. link' = [link EXCEPT ![l] = aRow] /\ manager' = [manager EXCEPT ![m] = run]
  BY <1>2
<1> HIDE DEF n, aRow, run
<1>6. /\ link' \in [Links -> Magic!Row] /\ manager' \in [Managers -> LinkManager]
      /\ \A k \in Links : link'[k] = IF k = l THEN aRow ELSE link[k]
      /\ \A p \in Managers : manager'[p] = IF p = m THEN run ELSE manager[p]
  BY <1>3, <1>4, <1>5 DEF LinkInv
<1>7. Magic!Made' = Magic!Made \cup {l} /\ l \notin Magic!Made
  BY <1>1, <1>2, <1>3, <1>6 DEF Magic!Made
<1>8. IsFiniteSet(Magic!Made') /\ Cardinality(Magic!Made') = n + 1
  BY <1>1, <1>7, FS_AddElement DEF n
<1>9. ASSUME NEW k \in Magic!Made
      PROVE  k \in Links /\ k # l /\ link'[k] = link[k] /\ link[k].since \in Nat /\ link[k].since <= n
  BY <1>2, <1>6 DEF LinkInv, Magic!Made, Magic!Row, n
<1>10. \A k \in Magic!Made' : link'[k].since <= Cardinality(Magic!Made')
  BY <1>1, <1>2, <1>3, <1>6, <1>7, <1>8, <1>9
<1>11. \A k \in Links : k \notin Magic!Made' => ~Magic!Usable(k)' /\ ~link'[k].mailed
  BY <1>6, <1>7 DEF LinkInv, Magic!Usable
<1>12. ASSUME NEW p \in Managers PROVE ReplacesOlder(manager[p])'
  <2>1. CASE p = m
    <3>1. \A k \in run.superseded : k \in Magic!Made' /\ link'[k].since < link'[l].since
      BY <1>1, <1>2, <1>3, <1>4, <1>6, <1>7, <1>9
    <3> QED
      BY <1>4, <1>6, <1>7, <2>1, <3>1 DEF ReplacesOlder
  <2>2. CASE p # m
    <3>1. ReplacesOlder(manager[p]) /\ manager'[p] = manager[p]
      BY <1>6, <2>2 DEF LinkInv
    <3>2. CASE manager[p].pc \in {"send", "supersede"}
      <4>1. PICK t \in Magic!Made :
              /\ manager[p].token = {t}
              /\ \A k \in manager[p].superseded : k \in Magic!Made /\ link[k].since < link[t].since
              /\ manager[p].pc = "supersede" => link[t].mailed
        BY <3>1, <3>2 DEF ReplacesOlder
      <4> QED
        BY <1>7, <1>9, <3>1, <3>2, <4>1 DEF ReplacesOlder
    <3>3. CASE manager[p].pc \notin {"send", "supersede"}
      BY <1>7, <3>1, <3>3 DEF ReplacesOlder
    <3> QED
      BY <3>2, <3>3
  <2> QED
    BY <2>1, <2>2
<1>13. ASSUME NEW k \in Links, link'[k].by = "newer" PROVE HasNewer(k)'
  <2>1. k # l /\ link'[k] = link[k]
    BY <1>3, <1>6, <1>13
  <2>2. PICK t \in Links : link[t].mailed /\ link[t].since > link[k].since
    BY <1>13, <2>1 DEF LinkInv, HasNewer
  <2>3. t \in Magic!Made
    BY <2>2 DEF LinkInv
  <2> QED
    BY <1>9, <2>1, <2>2, <2>3 DEF HasNewer
<1> QED
  BY <1>6, <1>8, <1>10, <1>11, <1>12, <1>13 DEF LinkInv

\* A manager at rest replaces nothing.
LEMMA IdleManager ==
  ASSUME TRUE
  PROVE  /\ Magic!Idle \in LinkManager
         /\ ReplacesOlder(Magic!Idle) /\ ReplacesOlder(Magic!Idle)'
  BY DEF Magic!Idle, LinkManager, ReplacesOlder

LEMMA LinkManagers ==
  ASSUME LinkInv, NEW m \in Managers,
         \/ Magic!ReadSuperseded(m) \/ Magic!SendMail(m) \/ Magic!SendRefused(m)
         \/ Magic!Supersede(m) \/ Magic!Die(m) \/ Magic!RemoveLinks(m)
         \/ Magic!RemoveMembership(m)
  PROVE  LinkInv'
<1>0. /\ link \in [Links -> Magic!Row] /\ manager \in [Managers -> LinkManager]
      /\ manager[m] \in LinkManager /\ ReplacesOlder(manager[m])
      /\ \A l \in Links : link[l] \in Magic!Row
  BY DEF LinkInv
<1>1. ASSUME NEW run \in LinkManager, manager' = [manager EXCEPT ![m] = run]
      PROVE  /\ manager' \in [Managers -> LinkManager]
             /\ \A p \in Managers : manager'[p] = IF p = m THEN run ELSE manager[p]
  BY <1>0, <1>1
<1>2. CASE Magic!ReadSuperseded(m)
  <2> DEFINE old == {l \in Links : Magic!Usable(l) /\ ~link[l].is_consumed}
             run == [pc |-> "create", token |-> {}, superseded |-> old]
  <2>1. run \in LinkManager /\ old \subseteq Magic!Made
    BY DEF LinkManager, LinkInv
  <2>2. manager' = [manager EXCEPT ![m] = run] /\ link' = link
    BY <1>2 DEF Magic!ReadSuperseded
  <2> HIDE DEF old
  <2>3. run.pc = "create" /\ run.superseded = old
    OBVIOUS
  <2> HIDE DEF run
  <2>4. \A l \in Links : l \notin Magic!Made => ~Magic!Usable(l)' /\ ~link'[l].mailed
    BY <2>2 DEF LinkInv, Magic!Usable
  <2>5. /\ manager' \in [Managers -> LinkManager]
        /\ \A p \in Managers : manager'[p] = IF p = m THEN run ELSE manager[p]
    BY <1>1, <2>1, <2>2
  <2>6. \A p \in Managers : manager'[p] = manager[p] \/ ReplacesOlder(manager[p])'
    BY <2>1, <2>2, <2>3, <2>5 DEF ReplacesOlder, Magic!Made
  <2> QED
    BY <1>0, <2>2, <2>4, <2>5, <2>6, LinksKeptInPlace
<1>3. CASE Magic!SendMail(m)
  <2> DEFINE run == [manager[m] EXCEPT !.pc = "supersede"]
  <2>1. /\ run \in LinkManager /\ run.pc = "supersede" /\ run.token = manager[m].token
        /\ run.superseded = manager[m].superseded /\ manager[m].pc = "send"
    BY <1>0, <1>3 DEF LinkManager, Magic!SendMail
  <2>2. manager' = [manager EXCEPT ![m] = run]
    BY <1>3 DEF Magic!SendMail
  <2> HIDE DEF run
  <2>3. PICK t \in Magic!Made :
          /\ manager[m].token = {t}
          /\ \A l \in manager[m].superseded : l \in Magic!Made /\ link[l].since < link[t].since
    BY <1>0, <2>1 DEF ReplacesOlder
  <2>4. t \in Links
    BY DEF Magic!Made
  <2>5. link' = [l \in Links |-> IF l = t THEN [link[l] EXCEPT !.mailed = TRUE] ELSE link[l]]
    BY <1>3, <2>3 DEF Magic!SendMail
  <2>6. /\ link' \in [Links -> Magic!Row]
        /\ \A l \in Links : /\ link'[l].since = link[l].since
                            /\ link'[l].by = link[l].by
                            /\ link[l].mailed => link'[l].mailed
                            /\ l # t => link'[l] = link[l]
        /\ link'[t].mailed
    <3>1. \A l \in Links : /\ [link[l] EXCEPT !.mailed = TRUE] \in Magic!Row
                           /\ [link[l] EXCEPT !.mailed = TRUE].since = link[l].since
                           /\ [link[l] EXCEPT !.mailed = TRUE].by = link[l].by
                           /\ [link[l] EXCEPT !.mailed = TRUE].mailed = TRUE
      BY <1>0 DEF Magic!Row
    <3> QED
      BY <1>0, <2>4, <2>5, <3>1
  <2>7. \A l \in Links : l \notin Magic!Made => ~Magic!Usable(l)' /\ ~link'[l].mailed
    BY <2>3, <2>6 DEF LinkInv, Magic!Usable
  <2>8. /\ Magic!Made' = Magic!Made
        /\ \A l \in run.superseded : l \in Magic!Made' /\ link'[l].since < link'[t].since
    <3>1. Magic!Made' = Magic!Made
      BY <2>6 DEF Magic!Made
    <3> QED
      BY <2>1, <2>3, <2>4, <2>6, <3>1 DEF Magic!Made
  <2>9. /\ manager' \in [Managers -> LinkManager]
        /\ \A p \in Managers : manager'[p] = IF p = m THEN run ELSE manager[p]
    BY <1>1, <2>1, <2>2
  <2>10. \A p \in Managers : manager'[p] = manager[p] \/ ReplacesOlder(manager[p])'
    <3> SUFFICES ReplacesOlder(manager[m])'
      BY <2>9
    <3>1. manager'[m] = run
      BY <2>9
    <3> QED
      BY <2>1, <2>3, <2>6, <2>8, <3>1 DEF ReplacesOlder
  <2> QED
    BY <2>6, <2>7, <2>9, <2>10, LinksKeptInPlace
<1>4. ASSUME manager' = [manager EXCEPT ![m] = Magic!Idle],
             link' \in [Links -> Magic!Row],
             \A l \in Links : /\ link'[l].since = link[l].since
                              /\ link'[l].mailed = link[l].mailed
                              /\ Magic!Usable(l)' => Magic!Usable(l)
                              /\ link'[l].by = "newer" => link[l].by = "newer" \/ HasNewer(l)
      PROVE  LinkInv'
  <2>1. /\ manager' \in [Managers -> LinkManager]
        /\ \A p \in Managers : manager'[p] = IF p = m THEN Magic!Idle ELSE manager[p]
    BY <1>1, <1>4, IdleManager
  <2>2. \A p \in Managers : manager'[p] = manager[p] \/ ReplacesOlder(manager[p])'
    BY <2>1, IdleManager
  <2>3. \A l \in Links : l \notin Magic!Made => ~Magic!Usable(l)' /\ ~link'[l].mailed
    BY <1>4 DEF LinkInv
  <2> QED
    BY <1>4, <2>1, <2>2, <2>3, LinksKeptInPlace
<1>5. CASE Magic!SendRefused(m)
  <2>1. \A l \in Links : /\ link'[l] \in Magic!Row
                         /\ link'[l].since = link[l].since
                         /\ link'[l].mailed = link[l].mailed
                         /\ Magic!Usable(l)' => Magic!Usable(l)
                         /\ link'[l].by = link[l].by
    <3> SUFFICES ASSUME NEW l \in Links
                 PROVE  /\ link'[l] \in Magic!Row
                        /\ link'[l].since = link[l].since
                        /\ link'[l].mailed = link[l].mailed
                        /\ Magic!Usable(l)' => Magic!Usable(l)
                        /\ link'[l].by = link[l].by
      OBVIOUS
    <3>1. link[l] \in Magic!Row
      BY <1>0
    <3>2. CASE l \in manager[m].token
      <4>1. link'[l] = [link[l] EXCEPT !.exists = FALSE, !.live = FALSE]
        BY <1>5, <3>2 DEF Magic!SendRefused
      <4> QED
        BY <3>1, <4>1 DEF Magic!Row, Magic!Usable
    <3>3. CASE l \notin manager[m].token
      <4>1. link'[l] = link[l]
        BY <1>5, <3>3 DEF Magic!SendRefused
      <4> QED
        BY <3>1, <4>1 DEF Magic!Usable
    <3> QED
      BY <3>2, <3>3
  <2>2. link' \in [Links -> Magic!Row]
    BY <1>5, <2>1 DEF Magic!SendRefused
  <2> QED
    BY <1>4, <1>5, <2>1, <2>2 DEF Magic!SendRefused
<1>6. CASE Magic!Supersede(m)
  <2>1. /\ link' = Magic!Expired(manager[m].superseded, "newer")
        /\ manager' = [manager EXCEPT ![m] = Magic!Idle] /\ manager[m].pc = "supersede"
        /\ manager[m].superseded \in SUBSET Links
    BY <1>0, <1>6 DEF Magic!Supersede, LinkManager
  <2>2. PICK t \in Magic!Made :
          /\ \A l \in manager[m].superseded : l \in Magic!Made /\ link[l].since < link[t].since
          /\ link[t].mailed
    BY <1>0, <2>1 DEF ReplacesOlder
  <2>3. \A l \in manager[m].superseded : HasNewer(l)
    <3> SUFFICES ASSUME NEW l \in manager[m].superseded PROVE HasNewer(l)
      OBVIOUS
    <3>1. t \in Links /\ l \in Links /\ link[t].since \in Nat /\ link[l].since \in Nat
      BY <1>0, <2>1 DEF Magic!Made, Magic!Row
    <3> QED
      BY <2>2, <3>1 DEF HasNewer
  <2> QED
    BY <1>4, <2>1, <2>3, Revoking
<1>7. CASE Magic!Die(m) \/ Magic!RemoveMembership(m)
  BY <1>0, <1>4, <1>7 DEF Magic!Die, Magic!RemoveMembership, Magic!Usable
<1>8. CASE Magic!RemoveLinks(m)
  <2> DEFINE run == [manager[m] EXCEPT !.pc = "delete"]
  <2>1. /\ link' = Magic!Expired(Links, "other") /\ manager' = [manager EXCEPT ![m] = run]
        /\ run \in LinkManager /\ run.pc = "delete"
    BY <1>0, <1>8 DEF Magic!RemoveLinks, LinkManager
  <2> HIDE DEF run
  <2>3. /\ manager' \in [Managers -> LinkManager]
        /\ \A p \in Managers : manager'[p] = IF p = m THEN run ELSE manager[p]
    BY <1>1, <2>1
  <2>4. \A p \in Managers : manager'[p] = manager[p] \/ ReplacesOlder(manager[p])'
    BY <2>1, <2>3 DEF ReplacesOlder
  <2>5. /\ link' \in [Links -> Magic!Row]
        /\ \A l \in Links : /\ link'[l].since = link[l].since
                            /\ link'[l].mailed = link[l].mailed
                            /\ Magic!Usable(l)' => Magic!Usable(l)
                            /\ link'[l].by = "newer" => link[l].by = "newer"
    BY <2>1, Revoking
  <2>6. \A l \in Links : l \notin Magic!Made => ~Magic!Usable(l)' /\ ~link'[l].mailed
    BY <2>5 DEF LinkInv
  <2> QED
    BY <2>3, <2>4, <2>5, <2>6, LinksKeptInPlace
<1> QED
  BY <1>2, <1>3, <1>5, <1>6, <1>7, <1>8

LEMMA LinkNext ==
  ASSUME LinkInv, Magic!Next \/ UNCHANGED MagicVars
  PROVE  LinkInv'
<1>0. /\ link \in [Links -> Magic!Row] /\ manager \in [Managers -> LinkManager]
      /\ \A l \in Links : link[l] \in Magic!Row
      /\ \A l \in Links : l \notin Magic!Made => ~Magic!Usable(l) /\ ~link[l].mailed
  BY DEF LinkInv
<1>1. ASSUME NEW l \in Links, Magic!RevokeOrLapse(l) PROVE LinkInv'
  <2>1. link' = Magic!Expired({l}, "other") /\ manager' = manager
    BY <1>1 DEF Magic!RevokeOrLapse
  <2>2. /\ link' \in [Links -> Magic!Row]
        /\ \A k \in Links : /\ link'[k].since = link[k].since
                            /\ link'[k].mailed = link[k].mailed
                            /\ Magic!Usable(k)' => Magic!Usable(k)
                            /\ link'[k].by = "newer" => link[k].by = "newer"
    BY <2>1, Revoking
  <2> QED
    BY <1>0, <2>1, <2>2, LinksKeptInPlace
<1>2. ASSUME NEW b \in Browsers, Magic!Consume(b) PROVE LinkInv'
  <2>1. PICK l \in browser[b] :
          /\ link' = [link EXCEPT ![l].is_consumed = link[l].exists] /\ manager' = manager
    BY <1>2 DEF Magic!Consume
  <2>2. \A k \in Links : /\ link'[k] \in Magic!Row
                         /\ link'[k].since = link[k].since
                         /\ link'[k].mailed = link[k].mailed
                         /\ Magic!Usable(k)' => Magic!Usable(k)
                         /\ link'[k].by = link[k].by
    <3> SUFFICES ASSUME NEW k \in Links
                 PROVE  /\ link'[k] \in Magic!Row
                        /\ link'[k].since = link[k].since
                        /\ link'[k].mailed = link[k].mailed
                        /\ Magic!Usable(k)' => Magic!Usable(k)
                        /\ link'[k].by = link[k].by
      OBVIOUS
    <3>1. link[k] \in Magic!Row
      BY <1>0
    <3>2. CASE k = l
      <4>1. link'[k] = [link[k] EXCEPT !.is_consumed = link[k].exists]
        BY <1>0, <2>1, <3>2
      <4> QED
        BY <3>1, <4>1 DEF Magic!Row, Magic!Usable
    <3>3. CASE k # l
      <4>1. link'[k] = link[k]
        BY <1>0, <2>1, <3>3
      <4> QED
        BY <3>1, <4>1 DEF Magic!Usable
    <3> QED
      BY <3>2, <3>3
  <2>3. link' \in [Links -> Magic!Row]
    BY <1>0, <2>1, <2>2
  <2> QED
    BY <1>0, <2>1, <2>2, <2>3, LinksKeptInPlace
<1>3. ASSUME NEW b \in Browsers, NEW l \in Links, Magic!ReadToken(b, l) PROVE LinkInv'
  BY <1>3 DEF Magic!ReadToken, LinkInv, ReplacesOlder, HasNewer, Magic!Made, Magic!Usable
<1>4. CASE UNCHANGED MagicVars
  BY <1>4 DEF MagicVars, LinkInv, ReplacesOlder, HasNewer, Magic!Made, Magic!Usable
<1> QED
  BY <1>1, <1>2, <1>3, <1>4, LinkManagers, TokenMade DEF Magic!Next

(* A link is ended by a newer one only once the newer one is in the        *)
(* client's mailbox (services.py 39), for any number of links, managers    *)
(* and browsers, wherever their requests die.                              *)
THEOREM NewerLinkIsMailedFirst == ServicesSpec => []ClientKeepsAWayIn
<1>1. ServicesInit => (service = "links" => LinkInv)
  BY LinksStart DEF ServicesInit
<1>2. (service = "links" => LinkInv) /\ [ServicesNext]_allVars => (service = "links" => LinkInv)'
  BY OneServiceMoves, LinkNext
<1>3. (service = "links" => LinkInv) => ClientKeepsAWayIn
  BY DEF ClientKeepsAWayIn, Magic!ClientKeepsAWayIn, LinkInv, HasNewer
<1> QED
  BY <1>1, <1>2, <1>3, PTL DEF ServicesSpec, allVars

-----------------------------------------------------------------------------
(* Posts made with one idempotency key.                                    *)

Working == {"quota", "create", "finalize", "release"}
AgentRun == [pc : {"new", "created", "failed", "unprocessable", "conflict"} \cup Working,
             body : SUBSET Bodies, post : SUBSET Posts, era : Nat]
AgentRecord == [body : Bodies, status : {0, 201}, post : SUBSET Posts]

AgentTypes ==
  /\ attempt \in [Attempts -> AgentRun]
  /\ record \subseteq AgentRecord
  /\ \A r, s \in record : r = s
  /\ posts \subseteq Posts /\ IsFiniteSet(posts)
  /\ era \in Nat

\* The attempt at work owns the record, which is pending until it answers.
Owns(run, rec) ==
  /\ rec # {}
  /\ \A r \in rec :
       /\ run.body = {r.body}
       /\ run.pc \in {"quota", "create", "finalize"} => r.status = 0
  /\ run.pc \in {"quota", "create"} => run.post = {}
  /\ run.pc = "finalize" => run.post # {}

\* Whoever was answered since the last sweep was told what the record says.
Told(run, rec) ==
  /\ run.era <= era
  /\ run.era = era =>
       /\ rec # {}
       /\ \A r \in rec : r.status = 201 /\ run.post = r.post /\ run.body = {r.body}

\* Attempts that made a post and never answered, and a post that is being
\* answered, or was since the last sweep.
Lost == {a \in Attempts : attempt[a].pc \in {"release", "failed"} /\ attempt[a].post # {}}
Answering ==
  \/ \E a \in Attempts : attempt[a].pc = "finalize"
  \/ \E r \in record : r.status = 201
Kept == IF Answering THEN 1 ELSE 0

PostsCounted == Cardinality(posts) <= era + Kept + Cardinality(Lost)

AgentOwners ==
  /\ AgentTypes
  /\ \A a, b \in Attempts : attempt[a].pc \in Working /\ attempt[b].pc \in Working => a = b
  /\ \A a \in Attempts : attempt[a].pc \in Working => Owns(attempt[a], record)
  /\ \A a \in Attempts : attempt[a].pc = "created" => Told(attempt[a], record)
  /\ \A a, b \in Attempts :
       attempt[a].pc = "created" /\ attempt[b].pc = "created" /\ attempt[a].era = attempt[b].era
         => attempt[a].post = attempt[b].post /\ attempt[a].body = attempt[b].body

AgentInv == AgentOwners /\ PostsCounted

AgentLimits == IsFiniteSet(Attempts)

LEMMA LostAreFinite ==
  ASSUME AgentLimits
  PROVE  /\ IsFiniteSet(Lost) /\ Cardinality(Lost) \in Nat
         /\ IsFiniteSet(Lost') /\ Cardinality(Lost') \in Nat
<1>1. Lost \subseteq Attempts /\ Lost' \subseteq Attempts
  BY DEF Lost
<1> QED
  BY <1>1, FS_Subset, FS_CardinalityType DEF AgentLimits

LEMMA AgentsStart ==
  ASSUME AgentLimits, Agent!Init
  PROVE  AgentInv
<1>1. /\ AgentTypes
      /\ \A a \in Attempts : attempt[a].pc = "new" /\ attempt[a].post = {}
      /\ record = {} /\ posts = {} /\ era = 0
  BY FS_EmptySet DEF Agent!Init, AgentTypes, AgentRun, Agent!Nothing
<1>2. Cardinality(posts) = 0
  BY <1>1, FS_EmptySet
<1> QED
  BY <1>1, <1>2, LostAreFinite DEF AgentInv, AgentOwners, PostsCounted, Kept, Answering, Working

\* One attempt moves between two sweeps; the record is touched only by the
\* attempt at work, or when there is none, and never once it has answered.
LEMMA OneAttemptMoves ==
  ASSUME AgentOwners, NEW a \in Attempts, NEW run \in AgentRun,
         attempt' = [attempt EXCEPT ![a] = run], era' = era,
         record' \subseteq AgentRecord, \A r, s \in record' : r = s,
         posts' \subseteq Posts, IsFiniteSet(posts'),
         run.pc \in Working =>
           /\ Owns(run, record')
           /\ attempt[a].pc \in Working \/ \A b \in Attempts : attempt[b].pc \notin Working,
         run.pc = "created" => run.era = era /\ Told(run, record'),
         \/ record' = record
         \/ /\ \A b \in Attempts : attempt[b].pc \in Working => b = a
            /\ \A b \in Attempts : attempt[b].pc = "created" => attempt[b].era # era
  PROVE  AgentOwners'
<1>1. /\ attempt' \in [Attempts -> AgentRun]
      /\ \A b \in Attempts : attempt'[b] = IF b = a THEN run ELSE attempt[b]
  BY DEF AgentOwners, AgentTypes
<1>2. AgentTypes'
  BY <1>1 DEF AgentOwners, AgentTypes
<1>3. \A b, c \in Attempts : attempt'[b].pc \in Working /\ attempt'[c].pc \in Working => b = c
  BY <1>1 DEF AgentOwners
<1>4. ASSUME NEW b \in Attempts, attempt'[b].pc \in Working
      PROVE  Owns(attempt[b], record)'
  <2>1. Owns(attempt'[b], record')
    BY <1>1, <1>4 DEF AgentOwners
  <2> QED
    BY <2>1 DEF Owns
<1>5. ASSUME NEW b \in Attempts, attempt'[b].pc = "created"
      PROVE  Told(attempt'[b], record')
  <2>1. CASE b = a
    BY <1>1, <1>5, <2>1
  <2>2. CASE b # a
    <3>1. attempt'[b] = attempt[b] /\ Told(attempt[b], record)
      BY <1>1, <1>5, <2>2 DEF AgentOwners
    <3> QED
      BY <1>5, <3>1 DEF Told
  <2> QED
    BY <2>1, <2>2
<1>6. \A b \in Attempts : attempt'[b].pc = "created" => Told(attempt[b], record)'
  BY <1>5 DEF Told
<1>7. ASSUME NEW b \in Attempts, NEW c \in Attempts,
             attempt'[b].pc = "created", attempt'[c].pc = "created",
             attempt'[b].era = attempt'[c].era
      PROVE  attempt'[b].post = attempt'[c].post /\ attempt'[b].body = attempt'[c].body
  <2>1. CASE b # a /\ c # a
    BY <1>1, <1>7, <2>1 DEF AgentOwners
  <2>2. CASE b = a \/ c = a
    <3>1. attempt'[b].era = era /\ attempt'[c].era = era
      BY <1>1, <1>7, <2>2
    <3>2. Told(attempt'[b], record') /\ Told(attempt'[c], record')
      BY <1>5, <1>7
    <3>3. PICK r \in record' : r \in record'
      BY <3>1, <3>2 DEF Told
    <3>4. /\ attempt'[b].post = r.post /\ attempt'[b].body = {r.body}
          /\ attempt'[c].post = r.post /\ attempt'[c].body = {r.body}
      BY <3>1, <3>2, <3>3 DEF Told
    <3> QED
      BY <3>4
  <2> QED
    BY <2>1, <2>2
<1> QED
  BY <1>2, <1>3, <1>4, <1>6, <1>7 DEF AgentOwners

IsLost(run) == run.pc \in {"release", "failed"} /\ run.post # {}

\* No post goes uncounted when an attempt moves: it keeps the place it has
\* among the lost, and finds one there when it stops answering.
LEMMA StillCounted ==
  ASSUME AgentLimits, AgentTypes, PostsCounted, UNCHANGED <<posts, era>>,
         NEW a \in Attempts, NEW run,
         \A b \in Attempts : attempt'[b] = IF b = a THEN run ELSE attempt[b],
         IsLost(attempt[a]) => IsLost(run),
         Kept' = Kept \/ (IsLost(run) /\ ~IsLost(attempt[a]))
  PROVE  PostsCounted'
<1>0. /\ Cardinality(posts) \in Nat /\ era \in Nat
      /\ Kept \in {0, 1} /\ Kept' \in {0, 1}
      /\ Cardinality(posts) <= era + Kept + Cardinality(Lost)
  BY FS_CardinalityType DEF AgentTypes, PostsCounted, Kept
<1>1. CASE IsLost(run) /\ ~IsLost(attempt[a])
  <2>1. Lost' = Lost \cup {a} /\ a \notin Lost
    BY <1>1 DEF Lost, IsLost
  <2>2. Cardinality(Lost') = Cardinality(Lost) + 1
    BY <2>1, LostAreFinite, FS_AddElement
  <2> QED
    BY <1>0, <2>2, LostAreFinite DEF PostsCounted
<1>2. CASE Kept' = Kept
  <2>1. Lost \subseteq Lost'
    BY DEF Lost, IsLost
  <2>2. Cardinality(Lost) <= Cardinality(Lost')
    BY <2>1, LostAreFinite, FS_Subset
  <2> QED
    BY <1>0, <1>2, <2>2, LostAreFinite DEF PostsCounted
<1> QED
  BY <1>1, <1>2

LEMMA AttemptRun ==
  ASSUME AgentOwners, NEW a \in Attempts, NEW pc \in {"created", "failed"} \cup Working
  PROVE  LET run == [attempt[a] EXCEPT !.pc = pc]
         IN  /\ run \in AgentRun /\ run.pc = pc /\ run.body = attempt[a].body
             /\ run.post = attempt[a].post /\ run.era = attempt[a].era
<1>1. attempt[a] \in AgentRun
  BY DEF AgentOwners, AgentTypes
<1> QED
  BY <1>1 DEF AgentRun

\* Nobody was answered since the last sweep while the record is pending.
LEMMA Pending ==
  ASSUME AgentOwners, NEW r \in record, r.status = 0
  PROVE  \A b \in Attempts : attempt[b].pc = "created" => attempt[b].era # era
  BY DEF AgentOwners, Told

\* The attempt at work goes on or ends; the record stays, unless it is pending
\* and is dropped.
LEMMA AttemptGoesOn ==
  ASSUME AgentLimits, AgentInv, NEW a \in Attempts,
         NEW pc \in {"create", "release", "failed"}, Agent!Goto(a, pc),
         UNCHANGED <<posts, era>>, attempt[a].pc \in Working,
         \/ record' = record
         \/ pc = "failed" /\ attempt[a].pc = "release" /\ record' = Agent!Released,
         pc = "create" => attempt[a].pc = "quota"
  PROVE  AgentInv'
<1> DEFINE run == [attempt[a] EXCEPT !.pc = pc]
<1>0. AgentOwners /\ PostsCounted /\ AgentTypes
  BY DEF AgentInv, AgentOwners
<1>1. /\ run \in AgentRun /\ run.pc = pc /\ run.body = attempt[a].body
      /\ run.post = attempt[a].post
  BY <1>0, AttemptRun DEF Working
<1>2. attempt' = [attempt EXCEPT ![a] = run]
  BY DEF Agent!Goto
<1> HIDE DEF run
<1>3. Owns(attempt[a], record) /\ \A b \in Attempts : attempt[b].pc \in Working => b = a
  BY <1>0 DEF AgentOwners
<1>4. run.pc \in Working => Owns(run, record')
  BY <1>1, <1>3 DEF Owns, Working
<1>5. /\ record' \subseteq record
      /\ \A r \in record : r \notin record' => r.status = 0
      /\ \A r \in record : r.status \in {0, 201}
  BY <1>0 DEF Agent!Released, Agent!PENDING_STATUS_SENTINEL, AgentTypes, AgentRecord
<1>6. AgentOwners'
  <2>1. /\ record' \subseteq AgentRecord /\ \A r, s \in record' : r = s
        /\ posts' \subseteq Posts /\ IsFiniteSet(posts')
    BY <1>0, <1>5 DEF AgentTypes
  <2>2. run.pc # "created"
    BY <1>1
  <2>3. record' = record \/ \A b \in Attempts : attempt[b].pc = "created" => attempt[b].era # era
    BY <1>0, <1>5, Pending
  <2> QED
    BY <1>0, <1>1, <1>2, <1>3, <1>4, <2>1, <2>2, <2>3, OneAttemptMoves
<1>7. \A b \in Attempts : attempt'[b] = IF b = a THEN run ELSE attempt[b]
  BY <1>0, <1>2 DEF AgentTypes
<1>8. IsLost(attempt[a]) => IsLost(run)
  BY <1>1, <1>3 DEF IsLost, Working
<1>9. Kept' = Kept \/ (IsLost(run) /\ ~IsLost(attempt[a]))
  <2>1. CASE attempt[a].pc = "finalize"
    BY <1>1, <1>3, <2>1 DEF IsLost, Owns
  <2>2. CASE attempt[a].pc # "finalize"
    <3>1. \A b \in Attempts : attempt'[b].pc # "finalize" /\ attempt[b].pc # "finalize"
      BY <1>1, <1>3, <1>7, <2>2 DEF Working
    <3> QED
      BY <1>5, <3>1 DEF Kept, Answering
  <2> QED
    BY <2>1, <2>2
<1>10. PostsCounted'
  BY <1>0, <1>7, <1>8, <1>9, StillCounted
<1> QED
  BY <1>6, <1>10 DEF AgentInv

LEMMA AgentClaims ==
  ASSUME AgentLimits, AgentInv, NEW a \in Attempts, NEW body \in Bodies, Agent!Claim(a, body)
  PROVE  AgentInv'
<1> DEFINE run == [Agent!Nothing EXCEPT !.pc = "quota", !.body = {body}]
           rec == [body |-> body, status |-> 0, post |-> {}]
<1>0. /\ AgentOwners /\ PostsCounted /\ AgentTypes /\ record = {} /\ attempt[a].pc = "new"
      /\ record' = {rec} /\ attempt' = [attempt EXCEPT ![a] = run] /\ UNCHANGED <<posts, era>>
  BY DEF AgentInv, AgentOwners, Agent!Claim, Agent!Free, Agent!PENDING_STATUS_SENTINEL
<1>1. /\ run \in AgentRun /\ run.pc = "quota" /\ run.body = {body} /\ run.post = {}
      /\ rec \in AgentRecord
  BY DEF AgentRun, Agent!Nothing, Working, AgentRecord
<1>2. Owns(run, {rec})
  BY <1>1 DEF Owns
<1> HIDE DEF run
<1>3. \A b \in Attempts : attempt[b].pc \notin Working
  BY <1>0 DEF AgentOwners, Owns
<1>4. \A b \in Attempts : attempt[b].pc = "created" => attempt[b].era # era
  BY <1>0 DEF AgentOwners, Told
<1>5. AgentOwners'
  <2>1. /\ record' \subseteq AgentRecord /\ \A r, s \in record' : r = s
        /\ posts' \subseteq Posts /\ IsFiniteSet(posts')
    BY <1>0, <1>1 DEF AgentTypes
  <2>2. /\ run.pc \in Working => Owns(run, record')
        /\ run.pc # "created"
    BY <1>0, <1>1, <1>2
  <2> HIDE DEF rec
  <2> QED
    BY <1>0, <1>1, <1>3, <1>4, <2>1, <2>2, OneAttemptMoves
<1>6. \A b \in Attempts : attempt'[b] = IF b = a THEN run ELSE attempt[b]
  BY <1>0 DEF AgentTypes
<1>7. ~IsLost(attempt[a])
  BY <1>0 DEF IsLost
<1>8. Kept' = Kept
  <2>1. \A b \in Attempts : attempt'[b].pc # "finalize" /\ attempt[b].pc # "finalize"
    BY <1>1, <1>3, <1>6 DEF Working
  <2> QED
    BY <1>0, <2>1 DEF Kept, Answering
<1>9. PostsCounted'
  BY <1>0, <1>6, <1>7, <1>8, StillCounted
<1> QED
  BY <1>5, <1>9 DEF AgentInv

LEMMA AgentReplays ==
  ASSUME AgentLimits, AgentInv, NEW a \in Attempts, NEW body \in Bodies, Agent!Replay(a, body)
  PROVE  AgentInv'
<1>0. /\ AgentOwners /\ PostsCounted /\ AgentTypes /\ attempt[a].pc = "new"
      /\ UNCHANGED <<record, posts, era>>
  BY DEF AgentInv, AgentOwners, Agent!Replay
<1>1. PICK r \in record : attempt' = [attempt EXCEPT ![a] =
        [pc |-> IF r.body # body THEN "unprocessable"
                ELSE IF r.status = Agent!PENDING_STATUS_SENTINEL THEN "conflict"
                ELSE "created",
         body |-> {body}, post |-> r.post, era |-> era]]
  BY DEF Agent!Replay
<1> DEFINE pc == IF r.body # body THEN "unprocessable"
                 ELSE IF r.status = Agent!PENDING_STATUS_SENTINEL THEN "conflict"
                 ELSE "created"
           run == [pc |-> pc, body |-> {body}, post |-> r.post, era |-> era]
<1>2. r \in AgentRecord /\ era \in Nat /\ \A s \in record : s = r
  BY <1>0 DEF AgentTypes
<1>3. /\ run \in AgentRun /\ run.pc \in {"unprocessable", "conflict", "created"}
      /\ run.body = {body} /\ run.post = r.post /\ run.era = era
      /\ run.pc = "created" => r.body = body /\ r.status = 201
  BY <1>2 DEF AgentRun, AgentRecord, Agent!PENDING_STATUS_SENTINEL
<1>4. attempt' = [attempt EXCEPT ![a] = run]
  BY <1>1
<1> HIDE DEF run
<1>5. run.pc = "created" => Told(run, record)
  BY <1>2, <1>3 DEF Told
<1>6. AgentOwners'
  <2>1. /\ record' \subseteq AgentRecord /\ \A s, t \in record' : s = t
        /\ posts' \subseteq Posts /\ IsFiniteSet(posts')
    BY <1>0 DEF AgentTypes
  <2>2. run.pc \notin Working
    BY <1>3 DEF Working
  <2> QED
    BY <1>0, <1>3, <1>4, <1>5, <2>1, <2>2, OneAttemptMoves
<1>7. \A b \in Attempts : attempt'[b] = IF b = a THEN run ELSE attempt[b]
  BY <1>0, <1>4 DEF AgentTypes
<1>8. ~IsLost(attempt[a])
  BY <1>0 DEF IsLost
<1>9. Kept' = Kept
  BY <1>0, <1>3, <1>7 DEF Kept, Answering
<1>10. PostsCounted'
  BY <1>0, <1>7, <1>8, <1>9, StillCounted
<1> QED
  BY <1>6, <1>10 DEF AgentInv

LEMMA AgentCreates ==
  ASSUME AgentLimits, AgentInv, NEW a \in Attempts, Agent!CreatePost(a)
  PROVE  AgentInv'
<1>0. /\ AgentOwners /\ PostsCounted /\ AgentTypes /\ attempt[a].pc = "create"
      /\ UNCHANGED <<record, era>> /\ attempt[a] \in AgentRun
  BY DEF AgentInv, AgentOwners, AgentTypes, Agent!CreatePost
<1>1. PICK p \in Posts \ posts :
        /\ posts' = posts \cup {p}
        /\ attempt' = [attempt EXCEPT ![a].pc = "finalize", ![a].post = {p}]
  BY DEF Agent!CreatePost
<1> DEFINE run == [attempt[a] EXCEPT !.pc = "finalize", !.post = {p}]
<1>2. /\ run \in AgentRun /\ run.pc = "finalize" /\ run.post = {p}
      /\ run.body = attempt[a].body
  BY <1>0, <1>1 DEF AgentRun, Working
<1>3. attempt' = [attempt EXCEPT ![a] = run]
  BY <1>1
<1> HIDE DEF run
<1>4. Owns(attempt[a], record) /\ \A b \in Attempts : attempt[b].pc \in Working => b = a
  BY <1>0 DEF AgentOwners, Working
<1>5. Owns(run, record)
  BY <1>0, <1>2, <1>4 DEF Owns
<1>6. IsFiniteSet(posts') /\ Cardinality(posts') = Cardinality(posts) + 1
  BY <1>0, <1>1, FS_AddElement DEF AgentTypes
<1>7. AgentOwners'
  <2>1. /\ record' \subseteq AgentRecord /\ posts' \subseteq Posts
        /\ \A s, t \in record' : s = t
    BY <1>0, <1>1 DEF AgentTypes
  <2>2. run.pc # "created" /\ attempt[a].pc \in Working
    BY <1>0, <1>2 DEF Working
  <2> QED
    BY <1>0, <1>2, <1>3, <1>5, <1>6, <2>1, <2>2, OneAttemptMoves
<1>8. \A b \in Attempts : attempt'[b] = IF b = a THEN run ELSE attempt[b]
  BY <1>0, <1>3 DEF AgentTypes
<1>9. Kept = 0 /\ Kept' = 1
  <2>1. \A b \in Attempts : attempt[b].pc # "finalize"
    BY <1>0, <1>4 DEF Working
  <2>2. \A r \in record : r.status # 201
    BY <1>0, <1>4 DEF Owns
  <2> QED
    BY <1>2, <1>8, <2>1, <2>2 DEF Kept, Answering
<1>10. Lost' = Lost
  BY <1>0, <1>2, <1>8 DEF Lost
<1>11. PostsCounted'
  <2>1. Cardinality(posts) \in Nat /\ era \in Nat
    BY <1>0, FS_CardinalityType DEF AgentTypes
  <2> QED
    BY <1>0, <1>6, <1>9, <1>10, <2>1, LostAreFinite DEF PostsCounted
<1> QED
  BY <1>7, <1>11 DEF AgentInv

LEMMA AgentFinalizes ==
  ASSUME AgentLimits, AgentInv, NEW a \in Attempts,
         Agent!Finalize(a) \/ Agent!FinalizeRaises(a)
  PROVE  AgentInv'
<1>0. /\ AgentOwners /\ PostsCounted /\ AgentTypes /\ attempt[a].pc = "finalize"
      /\ UNCHANGED <<posts, era>> /\ attempt[a] \in AgentRun /\ era \in Nat
  BY DEF AgentInv, AgentOwners, AgentTypes, Agent!Finalize, Agent!FinalizeRaises
<1>1. /\ Owns(attempt[a], record) /\ \A b \in Attempts : attempt[b].pc \in Working => b = a
      /\ attempt[a].pc \in Working
  BY <1>0 DEF AgentOwners, Working
<1>2. PICK r \in record : record = {r} /\ r \in AgentRecord /\ r.status = 0
                          /\ attempt[a].body = {r.body} /\ attempt[a].post # {}
  <2>1. PICK r \in record : TRUE
    BY <1>1 DEF Owns
  <2>2. record = {r} /\ r \in AgentRecord
    BY <1>0 DEF AgentTypes
  <2> QED
    BY <1>0, <1>1, <2>2 DEF Owns
<1>3. \A b \in Attempts : attempt[b].pc = "created" => attempt[b].era # era
  BY <1>0, <1>2, Pending
<1> DEFINE rec == [r EXCEPT !.status = 201, !.post = attempt[a].post]
<1>4. rec \in AgentRecord /\ rec.status = 201 /\ rec.post = attempt[a].post /\ rec.body = r.body
  BY <1>0, <1>2 DEF AgentRecord, AgentRun
<1>5. Agent!Answered(a) <=> record' = {rec}
  BY <1>2 DEF Agent!Answered
<1> HIDE DEF rec
<1>6. CASE Agent!Finalize(a)
  <2> DEFINE run == [attempt[a] EXCEPT !.pc = "created", !.era = era]
  <2>1. /\ run \in AgentRun /\ run.pc = "created" /\ run.era = era
        /\ run.post = attempt[a].post /\ run.body = attempt[a].body
    BY <1>0 DEF AgentRun
  <2>2. attempt' = [attempt EXCEPT ![a] = run] /\ record' = {rec}
    BY <1>5, <1>6 DEF Agent!Finalize
  <2> HIDE DEF run
  <2>3. Told(run, record')
    BY <1>0, <1>2, <1>4, <2>1, <2>2 DEF Told
  <2>4. AgentOwners'
    <3>1. /\ record' \subseteq AgentRecord /\ \A s, t \in record' : s = t
          /\ posts' \subseteq Posts /\ IsFiniteSet(posts')
      BY <1>0, <1>4, <2>2 DEF AgentTypes
    <3>2. run.pc \notin Working
      BY <2>1 DEF Working
    <3> QED
      BY <1>0, <1>1, <1>3, <2>1, <2>2, <2>3, <3>1, <3>2, OneAttemptMoves
  <2>5. \A b \in Attempts : attempt'[b] = IF b = a THEN run ELSE attempt[b]
    BY <1>0, <2>2 DEF AgentTypes
  <2>6. Kept' = Kept /\ ~IsLost(attempt[a])
    BY <1>0, <1>4, <2>2 DEF Kept, Answering, IsLost
  <2>7. PostsCounted'
    BY <1>0, <2>5, <2>6, StillCounted
  <2> QED
    BY <2>4, <2>7 DEF AgentInv
<1>7. CASE Agent!FinalizeRaises(a)
  <2> DEFINE run == [attempt[a] EXCEPT !.pc = "release"]
  <2>1. /\ run \in AgentRun /\ run.pc = "release" /\ run.post = attempt[a].post
        /\ run.body = attempt[a].body
    BY <1>0, AttemptRun DEF Working
  <2>2. attempt' = [attempt EXCEPT ![a] = run] /\ (record' = {rec} \/ record' = record)
    BY <1>5, <1>7 DEF Agent!FinalizeRaises, Agent!Goto
  <2> HIDE DEF run
  <2>3. Owns(run, record')
    BY <1>2, <1>4, <2>1, <2>2 DEF Owns
  <2>4. AgentOwners'
    <3>1. /\ record' \subseteq AgentRecord /\ \A s, t \in record' : s = t
          /\ posts' \subseteq Posts /\ IsFiniteSet(posts')
      BY <1>0, <1>4, <2>2 DEF AgentTypes
    <3>2. run.pc # "created"
      BY <2>1
    <3> QED
      BY <1>0, <1>1, <1>3, <2>1, <2>2, <2>3, <3>1, <3>2, OneAttemptMoves
  <2>5. \A b \in Attempts : attempt'[b] = IF b = a THEN run ELSE attempt[b]
    BY <1>0, <2>2 DEF AgentTypes
  <2>6. IsLost(run) /\ ~IsLost(attempt[a])
    BY <1>0, <1>2, <2>1 DEF IsLost
  <2>7. PostsCounted'
    BY <1>0, <2>5, <2>6, StillCounted
  <2> QED
    BY <2>4, <2>7 DEF AgentInv
<1> QED
  BY <1>6, <1>7

LEMMA AgentSweeps ==
  ASSUME AgentLimits, AgentInv, Agent!Sweep
  PROVE  AgentInv'
<1>0. /\ AgentOwners /\ PostsCounted /\ AgentTypes /\ record' = {} /\ era' = era + 1
      /\ UNCHANGED <<posts, attempt>> /\ era \in Nat
      /\ \A a \in Attempts : attempt[a].pc \notin Working
  BY DEF AgentInv, AgentOwners, AgentTypes, Agent!Sweep, Agent!AtWork, Working
<1>1. AgentTypes'
  BY <1>0 DEF AgentTypes
<1>2. \A a \in Attempts : attempt[a].pc = "created" => Told(attempt[a], record)'
  <2>1. \A a \in Attempts : attempt[a].pc = "created" => attempt[a].era <= era /\ attempt[a].era \in Nat
    BY <1>0 DEF AgentOwners, Told, AgentTypes, AgentRun
  <2> QED
    BY <1>0, <2>1 DEF Told
<1>3. AgentOwners'
  BY <1>0, <1>1, <1>2 DEF AgentOwners
<1>4. PostsCounted'
  <2>1. Lost' = Lost /\ Cardinality(posts) \in Nat /\ Kept \in {0, 1} /\ Kept' \in {0, 1}
    BY <1>0, FS_CardinalityType DEF Lost, AgentTypes, Kept
  <2> QED
    BY <1>0, <2>1, LostAreFinite DEF PostsCounted
<1> QED
  BY <1>3, <1>4 DEF AgentInv

LEMMA AgentNext ==
  ASSUME AgentLimits, AgentInv, Agent!Next \/ UNCHANGED AgentVars
  PROVE  AgentInv'
<1>1. ASSUME NEW a \in Attempts,
             \/ Agent!CheckQuota(a) \/ Agent!CreateFails(a) \/ Agent!Release(a) \/ Agent!Die(a)
      PROVE  AgentInv'
  BY <1>1, AttemptGoesOn DEF Agent!CheckQuota, Agent!CreateFails, Agent!Release, Agent!Die,
                             Agent!AtWork, Working
<1>2. CASE UNCHANGED AgentVars
  BY <1>2 DEF AgentVars, AgentInv, AgentOwners, AgentTypes, Owns, Told, PostsCounted,
              Kept, Answering, Lost
<1> QED
  BY <1>1, <1>2, AgentClaims, AgentReplays, AgentCreates, AgentFinalizes, AgentSweeps
     DEF Agent!Next

LEMMA AgentSafe ==
  ASSUME AgentLimits, AgentInv
  PROVE  Agent!RetriesAreSafe
<1>1. Cardinality(posts) <= era + 1 + Cardinality(Lost)
  <2>1. Cardinality(posts) \in Nat /\ era \in Nat /\ Kept \in {0, 1}
    BY FS_CardinalityType DEF AgentInv, AgentOwners, AgentTypes, Kept
  <2> QED
    BY <2>1, LostAreFinite DEF AgentInv, PostsCounted
<1> QED
  BY <1>1, SameCardinality DEF Agent!RetriesAreSafe, AgentInv, AgentOwners, Lost

(* The idempotency key makes retries safe (api/models.py,                  *)
(* IdempotencyRecord), for any number of attempts, bodies and posts: all   *)
(* answers between two sweeps are one answer, and a further post exists    *)
(* only when a worker failed after it had created one.                     *)
THEOREM RetriesStaySafe == ASSUME AgentLimits PROVE ServicesSpec => []RetriesAreSafe
<1>1. ServicesInit => (service = "agents" => AgentInv)
  BY AgentsStart DEF ServicesInit
<1>2. (service = "agents" => AgentInv) /\ [ServicesNext]_allVars
        => (service = "agents" => AgentInv)'
  BY OneServiceMoves, AgentNext
<1>3. (service = "agents" => AgentInv) => RetriesAreSafe
  BY AgentSafe DEF RetriesAreSafe
<1> QED
  BY <1>1, <1>2, <1>3, PTL DEF ServicesSpec, allVars

-----------------------------------------------------------------------------
(* Invitations to an organization.                                         *)

\* The steps of a request between its charge and its mail.
Paid == {"insert", "renew", "reserve", "send"}

InviteRow == [created : Int, expires_at : Int, accepted : BOOLEAN,
              send_count : Nat, last_sent_at : Int, carried : Nat]
InviteRun == [pc : {"idle", "charge", "stamp"} \cup Paid, invite : SUBSET Invites,
              seen : InviteRow, prior : Int, at : Int]

InviteTypes ==
  /\ invitation \in [Invites -> InviteRow]
  /\ inviting \in [Requests -> InviteRun]
  /\ mails \in [Invites -> Seq(Nat)]
  /\ today \in Nat
  /\ charged \in 0..DAILY_BUDGET

Named(run) == \E i \in Invites : run.invite = {i} /\ Invitation!Exists(i)

\* A request to create carries a count below the cap, any other names its row.
KnowsItsRow(run) ==
  /\ run.pc \in {"renew", "reserve", "send", "stamp"} => Named(run)
  /\ run.pc = "charge" => run.invite = {} \/ Named(run)
  /\ run.pc = "insert" => run.invite = {}
  /\ (run.pc \in {"charge", "insert"} /\ run.invite = {}) =>
       run.seen.send_count = run.seen.carried /\ run.seen.carried <= INVITE_MAX_SENDS

Sends(q, i) == inviting[q].pc = "send" /\ inviting[q].invite = {i}
Sending(i) == IF \E q \in Requests : Sends(q, i) THEN 1 ELSE 0

\* The row counts what it inherited, every mail, and the one being sent.
CapInv ==
  \A i \in Invites :
    /\ invitation[i].send_count <= INVITE_MAX_SENDS
    /\ Len(mails[i]) + invitation[i].carried + Sending(i) <= invitation[i].send_count
    /\ ~Invitation!Exists(i) => mails[i] = <<>>

\* The row's stamp is today's while its mail of today is being sent, and after.
SpacedInv ==
  \A i \in Invites :
    /\ \A q \in Requests : Sends(q, i) =>
         /\ inviting[q].at = today /\ invitation[i].last_sent_at = today
         /\ \A k \in 1..Len(mails[i]) : mails[i][k] < today
         /\ \A p \in Requests : Sends(p, i) => p = q
    /\ \A k \in 1..Len(mails[i]) :
         /\ mails[i][k] <= today
         /\ invitation[i].last_sent_at # today => mails[i][k] < today
    /\ \A j, k \in 1..Len(mails[i]) : j < k => mails[i][k] - mails[i][j] >= 1

AllMails == {m \in Invites \X (1..DAILY_BUDGET + 1) : m[2] <= Len(mails[m[1]])}
PaidFor == {q \in Requests : inviting[q].pc \in Paid}

\* Every mail was charged, and so was every request on its way to one.
ChargedInv ==
  /\ IsFiniteSet(AllMails)
  /\ Cardinality(AllMails) + Cardinality(PaidFor) <= charged

InviteInv ==
  /\ InviteTypes
  /\ \A q \in Requests : KnowsItsRow(inviting[q])
  /\ CapInv
  /\ SpacedInv
  /\ ChargedInv

InviteLimits ==
  /\ IsFiniteSet(Requests)
  /\ {INVITE_MAX_SENDS, INVITE_EXPIRY, DAILY_BUDGET} \subseteq Nat

LEMMA PaidAreFinite ==
  ASSUME InviteLimits
  PROVE  IsFiniteSet(PaidFor) /\ Cardinality(PaidFor) \in Nat
<1>1. PaidFor \subseteq Requests
  BY DEF PaidFor
<1> QED
  BY <1>1, FS_Subset, FS_CardinalityType DEF InviteLimits

LEMMA InvitesStart ==
  ASSUME InviteLimits, Invitation!Init
  PROVE  InviteInv
<1>1. /\ \A i \in Invites : invitation[i] = Invitation!NoRow /\ mails[i] = <<>>
      /\ \A q \in Requests : inviting[q] = Invitation!Idle
      /\ today = 0 /\ charged = 0
  BY DEF Invitation!Init
<1>2. InviteTypes
  BY DEF Invitation!Init, InviteTypes, InviteRow, InviteRun, Paid, Invitation!NoRow,
         Invitation!Idle, Invitation!Never, InviteLimits
<1>3. \A q \in Requests : inviting[q].pc = "idle" /\ KnowsItsRow(inviting[q])
  BY <1>1 DEF KnowsItsRow, Invitation!Idle
<1>4. CapInv
  BY <1>1, <1>3 DEF CapInv, Sending, Sends, Invitation!NoRow, InviteLimits
<1>5. SpacedInv
  BY <1>1, <1>3 DEF SpacedInv, Sends
<1>6. ChargedInv
  <2>1. AllMails = {}
    BY <1>1 DEF AllMails
  <2>2. PaidFor = {}
    BY <1>3 DEF PaidFor, Paid
  <2> QED
    BY <1>1, <2>1, <2>2, FS_EmptySet DEF ChargedInv
<1> QED
  BY <1>2, <1>3, <1>4, <1>5, <1>6 DEF InviteInv

\* Requests that move without paying, reserving or mailing, and rows that keep
\* what was counted.
LEMMA InvitesKeep ==
  ASSUME InviteLimits, InviteInv, InviteTypes', UNCHANGED <<mails, today, charged>>,
         \A i \in Invites : /\ invitation'[i].created = invitation[i].created
                            /\ invitation'[i].send_count = invitation[i].send_count
                            /\ invitation'[i].last_sent_at = invitation[i].last_sent_at
                            /\ invitation'[i].carried = invitation[i].carried,
         \A q \in Requests : \/ inviting'[q] = inviting[q]
                             \/ /\ inviting'[q].pc # "send"
                                /\ inviting'[q].pc \in Paid => inviting[q].pc \in Paid
                                /\ KnowsItsRow(inviting'[q])
  PROVE  InviteInv'
<1>1. \A i \in Invites : Invitation!Exists(i)' <=> Invitation!Exists(i)
  BY DEF Invitation!Exists
<1>2. \A q \in Requests : KnowsItsRow(inviting[q])'
  BY <1>1 DEF InviteInv, KnowsItsRow, Named
<1>3. \A q \in Requests, i \in Invites : Sends(q, i)' => Sends(q, i) /\ inviting'[q] = inviting[q]
  BY DEF Sends
<1>4. \A i \in Invites : Sending(i)' <= Sending(i) /\ Sending(i) \in {0, 1} /\ Sending(i)' \in {0, 1}
  BY <1>3 DEF Sending
<1>5. CapInv'
  <2> SUFFICES ASSUME NEW i \in Invites
               PROVE  /\ invitation'[i].send_count <= INVITE_MAX_SENDS
                      /\ Len(mails[i]) + invitation'[i].carried + Sending(i)'
                           <= invitation'[i].send_count
                      /\ ~Invitation!Exists(i)' => mails[i] = <<>>
    BY DEF CapInv
  <2>1. /\ Len(mails[i]) \in Nat /\ invitation[i].carried \in Nat
        /\ invitation[i].send_count \in Nat
    BY DEF InviteInv, InviteTypes, InviteRow
  <2> QED
    BY <1>1, <1>4, <2>1 DEF InviteInv, CapInv
<1>6. SpacedInv'
  BY <1>3 DEF InviteInv, SpacedInv
<1>7. ChargedInv'
  <2>1. PaidFor' \subseteq PaidFor
    BY DEF PaidFor
  <2>2. Cardinality(PaidFor') \in Nat /\ Cardinality(PaidFor') <= Cardinality(PaidFor)
    BY <2>1, PaidAreFinite, FS_Subset, FS_CardinalityType
  <2>3. AllMails' = AllMails
    BY DEF AllMails
  <2>4. Cardinality(AllMails) \in Nat
    BY FS_CardinalityType DEF InviteInv, ChargedInv
  <2> QED
    BY <2>2, <2>3, <2>4, PaidAreFinite DEF InviteInv, ChargedInv, InviteTypes
<1> QED
  BY <1>2, <1>5, <1>6, <1>7 DEF InviteInv

LEMMA InviteTicks ==
  ASSUME InviteLimits, InviteInv, Invitation!Tick
  PROVE  InviteInv'
<1>1. /\ today' = today + 1 /\ UNCHANGED <<invitation, charged, member, inviting, mails>>
      /\ \A q \in Requests : inviting[q].pc = "idle"
  BY DEF Invitation!Tick
<1>2. InviteTypes'
  BY <1>1 DEF InviteInv, InviteTypes
<1>3. \A q \in Requests : KnowsItsRow(inviting[q])'
  BY <1>1 DEF KnowsItsRow
<1>4. CapInv'
  BY <1>1 DEF InviteInv, CapInv, Sending, Sends, Invitation!Exists
<1>5. SpacedInv'
  <2>1. \A i \in Invites : \A k \in 1..Len(mails[i]) : mails[i][k] \in Nat /\ mails[i][k] <= today
    BY DEF InviteInv, InviteTypes, SpacedInv
  <2> QED
    BY <1>1, <2>1 DEF InviteInv, InviteTypes, SpacedInv, Sends
<1>6. ChargedInv'
  BY <1>1 DEF InviteInv, ChargedInv, AllMails, PaidFor
<1> QED
  BY <1>2, <1>3, <1>4, <1>5, <1>6 DEF InviteInv

\* A row and a request after a slot was taken or given back.
RowWith(r, n, t) == [r EXCEPT !.send_count = n, !.last_sent_at = t]
RunWith(r, t, n) == [r EXCEPT !.pc = "send", !.at = t, !.prior = n]

LEMMA RowUpdate ==
  ASSUME NEW r \in InviteRow, NEW n \in Nat, NEW t \in Int
  PROVE  /\ RowWith(r, n, t) \in InviteRow
         /\ RowWith(r, n, t).created = r.created /\ RowWith(r, n, t).carried = r.carried
         /\ RowWith(r, n, t).send_count = n /\ RowWith(r, n, t).last_sent_at = t
<1> DEFINE a == [r EXCEPT !.send_count = n]
           s == [r EXCEPT !.send_count = n, !.last_sent_at = t]
<1>1. /\ a \in InviteRow /\ a.send_count = n
      /\ a.created = r.created /\ a.carried = r.carried
  BY DEF InviteRow
<1>2. s = [a EXCEPT !.last_sent_at = t]
  BY Zenon
<1> HIDE DEF a
<1>3. /\ [a EXCEPT !.last_sent_at = t] \in InviteRow
      /\ [a EXCEPT !.last_sent_at = t].last_sent_at = t
      /\ [a EXCEPT !.last_sent_at = t].send_count = a.send_count
      /\ [a EXCEPT !.last_sent_at = t].created = a.created
      /\ [a EXCEPT !.last_sent_at = t].carried = a.carried
  BY <1>1 DEF InviteRow
<1> QED
  BY <1>1, <1>2, <1>3 DEF RowWith

LEMMA RunUpdate ==
  ASSUME NEW r \in InviteRun, NEW t \in Int, NEW n \in Int
  PROVE  /\ RunWith(r, t, n) \in InviteRun /\ RunWith(r, t, n).pc = "send"
         /\ RunWith(r, t, n).invite = r.invite /\ RunWith(r, t, n).at = t
<1> DEFINE a == [r EXCEPT !.pc = "send", !.at = t]
           s == [r EXCEPT !.pc = "send", !.at = t, !.prior = n]
<1>1. a \in InviteRun /\ a.pc = "send" /\ a.invite = r.invite /\ a.at = t
  BY DEF InviteRun, Paid
<1>2. s = [a EXCEPT !.prior = n]
  BY Zenon
<1> HIDE DEF a
<1>3. /\ [a EXCEPT !.prior = n] \in InviteRun
      /\ [a EXCEPT !.prior = n].pc = a.pc
      /\ [a EXCEPT !.prior = n].invite = a.invite
      /\ [a EXCEPT !.prior = n].at = a.at
  BY <1>1 DEF InviteRun
<1> QED
  BY <1>1, <1>2, <1>3 DEF RunWith

\* A request's next state, with nothing paid or mailed.
LEMMA Calm ==
  ASSUME InviteLimits, InviteInv, NEW q \in Requests, NEW run \in InviteRun,
         inviting' = [inviting EXCEPT ![q] = run],
         UNCHANGED <<invitation, charged, mails, today>>,
         run.pc # "send", run.pc \in Paid => inviting[q].pc \in Paid, KnowsItsRow(run)
  PROVE  InviteInv'
<1>1. /\ inviting' \in [Requests -> InviteRun]
      /\ \A p \in Requests : inviting'[p] = IF p = q THEN run ELSE inviting[p]
  BY DEF InviteInv, InviteTypes
<1>2. InviteTypes'
  BY <1>1 DEF InviteInv, InviteTypes
<1>3. \A p \in Requests : \/ inviting'[p] = inviting[p]
                          \/ /\ inviting'[p].pc # "send"
                             /\ inviting'[p].pc \in Paid => inviting[p].pc \in Paid
                             /\ KnowsItsRow(inviting'[p])
  BY <1>1
<1> QED
  BY <1>2, <1>3, InvitesKeep

LEMMA IdleRun ==
  ASSUME TRUE
  PROVE  /\ Invitation!Idle \in InviteRun
         /\ Invitation!Idle.pc = "idle" /\ Invitation!Idle.invite = {}
         /\ Invitation!Idle.seen = Invitation!NoRow
         /\ KnowsItsRow(Invitation!Idle)
         /\ Invitation!NoRow \in InviteRow
  BY DEF InviteRun, InviteRow, Invitation!Idle, Invitation!NoRow, Invitation!Never, KnowsItsRow

LEMMA Returns ==
  ASSUME InviteLimits, InviteInv, NEW q \in Requests, Invitation!Return(q),
         UNCHANGED <<invitation, charged, mails, today>>
  PROVE  InviteInv'
<1>1. inviting' = [inviting EXCEPT ![q] = Invitation!Idle]
  BY DEF Invitation!Return
<1> QED
  BY <1>1, Calm, IdleRun DEF Paid

LEMMA InviteChecks ==
  ASSUME InviteLimits, InviteInv, NEW q \in Requests,
         \/ Invitation!CheckCreate(q)
         \/ \E i \in Invites : Invitation!CheckResend(q, i) \/ Invitation!Join(q, i)
         \/ Invitation!Die(q)
  PROVE  InviteInv'
<1>1. CASE Invitation!CheckCreate(q)
  <2>1. PICK n \in Invitation!RecentSendCounts :
          /\ n < INVITE_MAX_SENDS
          /\ inviting' = [inviting EXCEPT ![q] =
               [Invitation!Idle EXCEPT !.pc = "charge", !.seen.send_count = n, !.seen.carried = n]]
    BY <1>1 DEF Invitation!CheckCreate
  <2>2. n \in Nat
    BY DEF Invitation!RecentSendCounts, Invitation!Recent, InviteInv, InviteTypes, InviteRow
  <2> DEFINE run == [Invitation!Idle EXCEPT !.pc = "charge", !.seen.send_count = n,
                                            !.seen.carried = n]
  <2>3. inviting' = [inviting EXCEPT ![q] = run]
    BY <2>1
  <2>4. /\ run \in InviteRun /\ run.pc = "charge" /\ run.invite = {}
        /\ run.seen.send_count = n /\ run.seen.carried = n
    BY <2>2, IdleRun DEF InviteRun, InviteRow
  <2> HIDE DEF run
  <2>5. KnowsItsRow(run)
    BY <2>1, <2>2, <2>4 DEF KnowsItsRow, InviteLimits
  <2> QED
    BY <1>1, <2>3, <2>4, <2>5, Calm DEF Invitation!CheckCreate, Paid
<1>2. ASSUME NEW i \in Invites, Invitation!CheckResend(q, i) PROVE InviteInv'
  <2> DEFINE run == [Invitation!Idle EXCEPT !.pc = "charge", !.invite = {i}, !.seen = invitation[i]]
  <2>1. inviting' = [inviting EXCEPT ![q] = run]
    BY <1>2 DEF Invitation!CheckResend
  <2>2. run \in InviteRun /\ run.pc = "charge" /\ run.invite = {i}
    <3>1. invitation[i] \in InviteRow
      BY DEF InviteInv, InviteTypes
    <3> QED
      BY <3>1, IdleRun DEF InviteRun
  <2> HIDE DEF run
  <2>3. KnowsItsRow(run)
    BY <1>2, <2>2 DEF KnowsItsRow, Named, Invitation!CheckResend
  <2> QED
    BY <1>2, <2>1, <2>2, <2>3, Calm DEF Invitation!CheckResend, Paid
<1>3. ASSUME NEW i \in Invites, Invitation!Join(q, i) PROVE InviteInv'
  <2> DEFINE run == [Invitation!Idle EXCEPT !.pc = "stamp", !.invite = {i}]
  <2>1. inviting' = [inviting EXCEPT ![q] = run]
    BY <1>3 DEF Invitation!Join
  <2>2. run \in InviteRun /\ run.pc = "stamp" /\ run.invite = {i}
    BY IdleRun DEF InviteRun
  <2> HIDE DEF run
  <2>3. KnowsItsRow(run)
    BY <1>3, <2>2 DEF KnowsItsRow, Named, Invitation!Join
  <2> QED
    BY <1>3, <2>1, <2>2, <2>3, Calm DEF Invitation!Join, Paid
<1>4. CASE Invitation!Die(q)
  BY <1>4, Returns DEF Invitation!Die
<1> QED
  BY <1>1, <1>2, <1>3, <1>4

LEMMA InviteCharges ==
  ASSUME InviteLimits, InviteInv, NEW q \in Requests, Invitation!Charge(q)
  PROVE  InviteInv'
<1>0. /\ inviting[q] \in InviteRun /\ inviting[q].pc = "charge" /\ KnowsItsRow(inviting[q])
      /\ UNCHANGED <<invitation, mails, today>>
  BY DEF Invitation!Charge, InviteInv, InviteTypes
<1>1. CASE charged < DAILY_BUDGET
  <2> DEFINE run == [inviting[q] EXCEPT !.pc =
                       IF inviting[q].invite = {} THEN "insert" ELSE "renew"]
  <2>1. /\ run \in InviteRun /\ run.pc \in {"insert", "renew"}
        /\ run.invite = inviting[q].invite /\ run.seen = inviting[q].seen
        /\ run.pc = "insert" <=> run.invite = {}
    BY <1>0 DEF InviteRun, Paid
  <2>2. inviting' = [inviting EXCEPT ![q] = run] /\ charged' = charged + 1
    BY <1>1 DEF Invitation!Charge, Invitation!Goto
  <2> HIDE DEF run
  <2>3. /\ inviting' \in [Requests -> InviteRun]
        /\ \A p \in Requests : inviting'[p] = IF p = q THEN run ELSE inviting[p]
    BY <2>1, <2>2 DEF InviteInv, InviteTypes
  <2>4. InviteTypes'
    BY <1>0, <1>1, <2>2, <2>3 DEF InviteInv, InviteTypes, InviteLimits
  <2>5. KnowsItsRow(run)
    BY <1>0, <2>1 DEF KnowsItsRow, Named
  <2>6. \A p \in Requests : KnowsItsRow(inviting[p])'
    BY <1>0, <2>3, <2>5 DEF InviteInv, KnowsItsRow, Named, Invitation!Exists
  <2>7. \A p \in Requests, i \in Invites : Sends(p, i)' <=> Sends(p, i)
    BY <1>0, <2>1, <2>3 DEF Sends
  <2>8. \A i \in Invites : Sending(i)' = Sending(i)
    BY <2>7 DEF Sending
  <2>9. CapInv'
    BY <1>0, <2>8 DEF InviteInv, CapInv, Invitation!Exists
  <2>10. SpacedInv'
    BY <1>0, <2>1, <2>3, <2>7 DEF InviteInv, SpacedInv, Sends
  <2>11. ChargedInv'
    <3>1. PaidFor' = PaidFor \cup {q} /\ q \notin PaidFor
      BY <1>0, <2>1, <2>3 DEF PaidFor, Paid
    <3>2. Cardinality(PaidFor') = Cardinality(PaidFor) + 1
      BY <3>1, PaidAreFinite, FS_AddElement
    <3>3. AllMails' = AllMails
      BY <1>0 DEF AllMails
    <3>4. Cardinality(AllMails) \in Nat
      BY FS_CardinalityType DEF InviteInv, ChargedInv
    <3> QED
      BY <2>2, <3>2, <3>3, <3>4, PaidAreFinite DEF InviteInv, InviteTypes, ChargedInv
  <2> QED
    BY <2>4, <2>6, <2>9, <2>10, <2>11 DEF InviteInv
<1>2. CASE ~(charged < DAILY_BUDGET)
  BY <1>0, <1>2, Returns DEF Invitation!Charge
<1> QED
  BY <1>1, <1>2

LEMMA InviteInserts ==
  ASSUME InviteLimits, InviteInv, NEW q \in Requests, Invitation!Insert(q)
  PROVE  InviteInv'
<1>0. /\ inviting[q] \in InviteRun /\ inviting[q].pc = "insert" /\ KnowsItsRow(inviting[q])
      /\ UNCHANGED <<mails, today, charged>> /\ today \in Nat
  BY DEF Invitation!Insert, InviteInv, InviteTypes
<1>1. PICK i \in Invites :
        LET new == [Invitation!NoRow EXCEPT !.created = today, !.expires_at = today + INVITE_EXPIRY,
                                 !.send_count = inviting[q].seen.send_count,
                                 !.carried = inviting[q].seen.carried]
        IN  /\ ~Invitation!Exists(i)
            /\ invitation' = [invitation EXCEPT ![i] = new]
            /\ inviting' = [inviting EXCEPT ![q].pc = "reserve", ![q].invite = {i},
                                            ![q].seen = new]
  BY DEF Invitation!Insert
<1> DEFINE n == inviting[q].seen.send_count
           new == [Invitation!NoRow EXCEPT !.created = today, !.expires_at = today + INVITE_EXPIRY,
                                !.send_count = n, !.carried = inviting[q].seen.carried]
           run == [inviting[q] EXCEPT !.pc = "reserve", !.invite = {i}, !.seen = new]
<1>2. n \in Nat /\ n <= INVITE_MAX_SENDS /\ n = inviting[q].seen.carried
  BY <1>0 DEF KnowsItsRow, InviteRun, InviteRow
<1>3. /\ invitation' = [invitation EXCEPT ![i] = new]
      /\ inviting' = [inviting EXCEPT ![q] = run]
  BY <1>1
<1>4. /\ new \in InviteRow /\ new.created = today /\ new.send_count = n /\ new.carried = n
  <2>1. today \in Int /\ today + INVITE_EXPIRY \in Int
    BY <1>0 DEF InviteLimits
  <2> QED
    BY <1>2, <2>1, IdleRun DEF InviteRow
<1> HIDE DEF new
<1>5. run \in InviteRun /\ run.pc = "reserve" /\ run.invite = {i}
  BY <1>0, <1>4 DEF InviteRun, Paid
<1> HIDE DEF run
<1>6. /\ inviting' \in [Requests -> InviteRun]
      /\ \A p \in Requests : inviting'[p] = IF p = q THEN run ELSE inviting[p]
      /\ invitation' \in [Invites -> InviteRow]
      /\ \A k \in Invites : invitation'[k] = IF k = i THEN new ELSE invitation[k]
  BY <1>3, <1>4, <1>5 DEF InviteInv, InviteTypes
<1>7. InviteTypes'
  BY <1>0, <1>6 DEF InviteInv, InviteTypes
<1>8. \A k \in Invites : Invitation!Exists(k) => Invitation!Exists(k)'
  BY <1>1, <1>6 DEF Invitation!Exists
<1>9. Invitation!Exists(i)' /\ mails[i] = <<>>
  BY <1>0, <1>1, <1>4, <1>6 DEF Invitation!Exists, Invitation!Never, InviteInv, CapInv
<1>10. \A p \in Requests : KnowsItsRow(inviting[p])'
  BY <1>5, <1>6, <1>8, <1>9 DEF InviteInv, KnowsItsRow, Named
<1>11. \A p \in Requests, k \in Invites :
         /\ Sends(p, k)' <=> Sends(p, k)
         /\ Sends(p, k) => k # i /\ inviting'[p] = inviting[p]
  <2>1. \A p \in Requests : inviting[p].pc = "send" => Named(inviting[p])
    BY DEF InviteInv, KnowsItsRow
  <2>2. \A p \in Requests, k \in Invites : Sends(p, k) => k # i /\ p # q
    BY <1>0, <1>1, <2>1 DEF Sends, Named
  <2> QED
    BY <1>5, <1>6, <2>2 DEF Sends
<1>12. \A k \in Invites : Sending(k)' = Sending(k)
  BY <1>11 DEF Sending
<1>13. CapInv'
  <2>1. Sending(i) = 0
    BY <1>11 DEF Sending
  <2> QED
    BY <1>0, <1>2, <1>4, <1>6, <1>8, <1>9, <1>12, <2>1 DEF InviteInv, CapInv
<1>14. SpacedInv'
  BY <1>0, <1>6, <1>9, <1>11 DEF InviteInv, SpacedInv
<1>15. ChargedInv'
  <2>1. PaidFor' = PaidFor
    BY <1>0, <1>5, <1>6 DEF PaidFor, Paid
  <2>2. AllMails' = AllMails
    BY <1>0 DEF AllMails
  <2> QED
    BY <1>0, <2>1, <2>2 DEF InviteInv, ChargedInv
<1> QED
  BY <1>7, <1>10, <1>13, <1>14, <1>15 DEF InviteInv

\* A new expiry, or an acceptance: nothing that is counted changes.
LEMMA InviteRenews ==
  ASSUME InviteLimits, InviteInv,
         \/ \E q \in Requests : Invitation!Renew(q) \/ Invitation!Stamp(q)
         \/ \E i \in Invites : Invitation!Revoke(i)
  PROVE  InviteInv'
<1>0. /\ today \in Nat /\ today + INVITE_EXPIRY \in Int
      /\ invitation \in [Invites -> InviteRow] /\ inviting \in [Requests -> InviteRun]
  BY DEF InviteInv, InviteTypes, InviteLimits
<1>1. ASSUME NEW q \in Requests, Invitation!Renew(q) PROVE InviteInv'
  <2>1. /\ inviting' = [inviting EXCEPT ![q] = [inviting[q] EXCEPT !.pc = "reserve"]]
        /\ inviting[q].pc = "renew" /\ UNCHANGED <<charged, mails, today>>
    BY <1>1 DEF Invitation!Renew, Invitation!Goto
  <2> DEFINE run == [inviting[q] EXCEPT !.pc = "reserve"]
  <2>2. run \in InviteRun /\ run.pc = "reserve" /\ run.invite = inviting[q].invite
    BY <1>0 DEF InviteRun, Paid
  <2>3. KnowsItsRow(run)
    BY <2>1, <2>2 DEF InviteInv, KnowsItsRow, Named
  <2> HIDE DEF run
  <2>4. \A p \in Requests : inviting'[p] = IF p = q THEN run ELSE inviting[p]
    BY <1>0, <2>1 DEF run
  <2>5. /\ invitation' \in [Invites -> InviteRow]
        /\ \A i \in Invites : /\ invitation'[i].created = invitation[i].created
                              /\ invitation'[i].send_count = invitation[i].send_count
                              /\ invitation'[i].last_sent_at = invitation[i].last_sent_at
                              /\ invitation'[i].carried = invitation[i].carried
    BY <1>0, <1>1 DEF Invitation!Renew, InviteRow
  <2>6. InviteTypes'
    BY <2>1, <2>2, <2>5 DEF InviteInv, InviteTypes, run
  <2> QED
    BY <2>1, <2>2, <2>3, <2>4, <2>5, <2>6, InvitesKeep DEF Paid
<1>2. ASSUME NEW q \in Requests, Invitation!Stamp(q) PROVE InviteInv'
  <2>1. /\ inviting' = [inviting EXCEPT ![q] = Invitation!Idle]
        /\ UNCHANGED <<charged, mails, today>>
    BY <1>2 DEF Invitation!Stamp, Invitation!Return
  <2>2. \A p \in Requests : inviting'[p] = IF p = q THEN Invitation!Idle ELSE inviting[p]
    BY <1>0, <2>1
  <2>3. /\ invitation' \in [Invites -> InviteRow]
        /\ \A i \in Invites : /\ invitation'[i].created = invitation[i].created
                              /\ invitation'[i].send_count = invitation[i].send_count
                              /\ invitation'[i].last_sent_at = invitation[i].last_sent_at
                              /\ invitation'[i].carried = invitation[i].carried
    BY <1>0, <1>2 DEF Invitation!Stamp, InviteRow
  <2>4. InviteTypes'
    BY <2>1, <2>3, IdleRun DEF InviteInv, InviteTypes
  <2> QED
    BY <2>1, <2>2, <2>3, <2>4, IdleRun, InvitesKeep DEF Paid
<1>3. ASSUME NEW i \in Invites, Invitation!Revoke(i) PROVE InviteInv'
  <2>1. UNCHANGED <<charged, mails, today, inviting>>
    BY <1>3 DEF Invitation!Revoke
  <2>2. /\ invitation' \in [Invites -> InviteRow]
        /\ \A k \in Invites : /\ invitation'[k].created = invitation[k].created
                              /\ invitation'[k].send_count = invitation[k].send_count
                              /\ invitation'[k].last_sent_at = invitation[k].last_sent_at
                              /\ invitation'[k].carried = invitation[k].carried
    BY <1>0, <1>3 DEF Invitation!Revoke, InviteRow
  <2>3. InviteTypes'
    BY <2>1, <2>2 DEF InviteInv, InviteTypes
  <2> QED
    BY <2>1, <2>2, <2>3, InvitesKeep
<1> QED
  BY <1>1, <1>2, <1>3

\* The slot is taken on the row as it is, not as it was read.
LEMMA InviteReserves ==
  ASSUME InviteLimits, InviteInv, NEW q \in Requests, Invitation!Reserve(q)
  PROVE  InviteInv'
<1>0. /\ inviting[q] \in InviteRun /\ inviting[q].pc = "reserve"
      /\ KnowsItsRow(inviting[q])
      /\ UNCHANGED <<mails, today, charged>> /\ today \in Nat
  BY DEF Invitation!Reserve, InviteInv, InviteTypes
<1>1. PICK i \in Invites : inviting[q].invite = {i} /\ Invitation!Exists(i)
  BY <1>0 DEF KnowsItsRow, Named
<1>2. CASE ~Invitation!HasSlot(i)
  BY <1>0, <1>1, <1>2, Returns DEF Invitation!Reserve
<1>3. CASE Invitation!HasSlot(i)
  <2> DEFINE new == RowWith(invitation[i], invitation[i].send_count + 1, today)
             run == RunWith(inviting[q], today, inviting[q].seen.last_sent_at)
  <2>0. invitation[i] \in InviteRow
    BY DEF InviteInv, InviteTypes
  <2>1. /\ invitation' = [invitation EXCEPT ![i] = new]
        /\ inviting' = [inviting EXCEPT ![q] = run]
    BY <1>1, <1>3 DEF Invitation!Reserve, RowWith, RunWith
  <2>2. /\ new \in InviteRow /\ new.created = invitation[i].created
        /\ new.send_count = invitation[i].send_count + 1
        /\ new.last_sent_at = today /\ new.carried = invitation[i].carried
    <3>1. invitation[i].send_count + 1 \in Nat /\ today \in Int
      BY <1>0, <2>0 DEF InviteRow
    <3> DEFINE former == invitation[i]
               n == former.send_count + 1
    <3>2. former \in InviteRow /\ n \in Nat /\ today \in Int
      BY <2>0, <3>1
    <3> HIDE DEF former, n
    <3>3. /\ RowWith(former, n, today) \in InviteRow
          /\ RowWith(former, n, today).created = former.created
          /\ RowWith(former, n, today).send_count = n
          /\ RowWith(former, n, today).last_sent_at = today
          /\ RowWith(former, n, today).carried = former.carried
      BY <3>2, RowUpdate
    <3> QED
      BY <3>3 DEF former, n
  <2>3. run \in InviteRun /\ run.pc = "send" /\ run.invite = {i} /\ run.at = today
    <3>1. today \in Int /\ inviting[q].seen.last_sent_at \in Int
      BY <1>0 DEF InviteRun, InviteRow
    <3> QED
      BY <1>0, <1>1, <3>1, RunUpdate
  <2> HIDE DEF new, run
  <2>4. /\ inviting' \in [Requests -> InviteRun]
        /\ \A p \in Requests : inviting'[p] = IF p = q THEN run ELSE inviting[p]
        /\ invitation' \in [Invites -> InviteRow]
        /\ \A k \in Invites : invitation'[k] = IF k = i THEN new ELSE invitation[k]
    BY <2>1, <2>2, <2>3 DEF InviteInv, InviteTypes
  <2>5. InviteTypes'
    BY <1>0, <2>4 DEF InviteInv, InviteTypes
  <2>6. \A k \in Invites : Invitation!Exists(k)' <=> Invitation!Exists(k)
    BY <2>2, <2>4 DEF Invitation!Exists
  <2>7. \A p \in Requests : KnowsItsRow(inviting[p])'
    BY <1>1, <2>3, <2>4, <2>6 DEF InviteInv, KnowsItsRow, Named
  <2>8. /\ invitation[i].send_count < INVITE_MAX_SENDS
        /\ invitation[i].last_sent_at # today
    BY <1>0, <1>3, <2>0 DEF Invitation!HasSlot, Invitation!Never, Invitation!COOLDOWN, InviteRow
  <2>9. \A p \in Requests : ~Sends(p, i)
    BY <2>8 DEF InviteInv, SpacedInv
  <2>10. /\ \A p \in Requests : Sends(p, i)' <=> p = q
         /\ \A p \in Requests, k \in Invites \ {i} :
              /\ Sends(p, k)' <=> Sends(p, k)
              /\ Sends(p, k) => inviting'[p] = inviting[p]
    BY <1>0, <2>3, <2>4, <2>9 DEF Sends
  <2>11. /\ Sending(i) = 0 /\ Sending(i)' = 1
         /\ \A k \in Invites \ {i} : Sending(k)' = Sending(k)
    BY <2>9, <2>10 DEF Sending
  <2>12. CapInv'
    <3> SUFFICES ASSUME NEW k \in Invites
                 PROVE  /\ invitation'[k].send_count <= INVITE_MAX_SENDS
                        /\ Len(mails[k]) + invitation'[k].carried + Sending(k)'
                             <= invitation'[k].send_count
                        /\ ~Invitation!Exists(k)' => mails[k] = <<>>
      BY <1>0 DEF CapInv
    <3>1. CASE k # i
      BY <2>4, <2>6, <2>11, <3>1 DEF InviteInv, CapInv
    <3>2. CASE k = i
      <4>1. /\ Len(mails[i]) \in Nat /\ invitation[i].carried \in Nat
            /\ invitation[i].send_count \in Nat
        BY <2>0 DEF InviteInv, InviteTypes, InviteRow
      <4>2. Len(mails[i]) + invitation[i].carried <= invitation[i].send_count
        BY <2>11, <4>1 DEF InviteInv, CapInv
      <4>3. /\ invitation'[i].carried = invitation[i].carried
            /\ invitation'[i].send_count = invitation[i].send_count + 1
            /\ INVITE_MAX_SENDS \in Nat
        BY <1>1, <2>2, <2>4 DEF InviteLimits
      <4> QED
        BY <1>1, <2>6, <2>8, <2>11, <3>2, <4>1, <4>2, <4>3
    <3> QED
      BY <3>1, <3>2
  <2>13. SpacedInv'
    <3>1. \A k \in 1..Len(mails[i]) : mails[i][k] < today /\ mails[i][k] <= today
      BY <2>8 DEF InviteInv, SpacedInv
    <3>2. \A p \in Requests : Sends(p, i)' => inviting'[p].at = today
      BY <2>3, <2>4, <2>10
    <3> QED
      BY <1>0, <2>2, <2>4, <2>10, <3>1, <3>2 DEF InviteInv, SpacedInv
  <2>14. ChargedInv'
    <3>1. PaidFor' = PaidFor
      BY <1>0, <2>3, <2>4 DEF PaidFor, Paid
    <3>2. AllMails' = AllMails
      BY <1>0 DEF AllMails
    <3> QED
      BY <1>0, <3>1, <3>2 DEF InviteInv, ChargedInv
  <2> QED
    BY <2>5, <2>7, <2>12, <2>13, <2>14 DEF InviteInv
<1> QED
  BY <1>2, <1>3

\* Who holds the slot of a row when the request that mails it ends.
LEMMA InviteEnds ==
  ASSUME InviteInv, NEW q \in Requests, inviting[q].pc = "send",
         inviting' = [inviting EXCEPT ![q] = Invitation!Idle]
  PROVE  /\ inviting' \in [Requests -> InviteRun]
         /\ \A p \in Requests :
              inviting'[p] = IF p = q THEN Invitation!Idle ELSE inviting[p]
         /\ \E i \in Invites :
              /\ inviting[q].invite = {i} /\ Invitation!Exists(i)
              /\ inviting[q].at = today /\ invitation[i].last_sent_at = today
              /\ \A k \in 1..Len(mails[i]) : mails[i][k] < today
              /\ Sending(i) = 1 /\ Sending(i)' = 0
              /\ \A p \in Requests : ~Sends(p, i)'
              /\ \A p \in Requests, k \in Invites \ {i} :
                   /\ Sends(p, k)' <=> Sends(p, k)
                   /\ Sends(p, k) => inviting'[p] = inviting[p]
              /\ \A k \in Invites \ {i} : Sending(k)' = Sending(k)
<1>1. /\ inviting' \in [Requests -> InviteRun]
      /\ \A p \in Requests :
           inviting'[p] = IF p = q THEN Invitation!Idle ELSE inviting[p]
  BY IdleRun DEF InviteInv, InviteTypes
<1>2. KnowsItsRow(inviting[q])
  BY DEF InviteInv
<1>3. PICK i \in Invites : inviting[q].invite = {i} /\ Invitation!Exists(i)
  BY <1>2 DEF KnowsItsRow, Named
<1>4. Sends(q, i)
  BY <1>3 DEF Sends
<1>5. /\ inviting[q].at = today /\ invitation[i].last_sent_at = today
      /\ \A k \in 1..Len(mails[i]) : mails[i][k] < today
      /\ \A p \in Requests : Sends(p, i) => p = q
  BY <1>4 DEF InviteInv, SpacedInv
<1>6. /\ \A p \in Requests : ~Sends(p, i)'
      /\ \A p \in Requests, k \in Invites \ {i} :
           /\ Sends(p, k)' <=> Sends(p, k)
           /\ Sends(p, k) => inviting'[p] = inviting[p]
  BY <1>1, <1>3, <1>5, IdleRun DEF Sends
<1>7. /\ Sending(i) = 1 /\ Sending(i)' = 0
      /\ \A k \in Invites \ {i} : Sending(k)' = Sending(k)
  BY <1>4, <1>6 DEF Sending
<1> QED
  BY <1>1, <1>3, <1>5, <1>6, <1>7

LEMMA InviteIsSent ==
  ASSUME InviteLimits, InviteInv, NEW q \in Requests, Invitation!Sent(q)
  PROVE  InviteInv'
<1>0. /\ inviting[q].pc = "send" /\ inviting' = [inviting EXCEPT ![q] = Invitation!Idle]
      /\ UNCHANGED <<invitation, today, charged>> /\ today \in Nat
      /\ mails \in [Invites -> Seq(Nat)]
  BY DEF Invitation!Sent, Invitation!Return, InviteInv, InviteTypes
<1>1. /\ inviting' \in [Requests -> InviteRun]
      /\ \A p \in Requests :
           inviting'[p] = IF p = q THEN Invitation!Idle ELSE inviting[p]
  BY <1>0, InviteEnds
<1>2. PICK i \in Invites :
        /\ inviting[q].invite = {i} /\ Invitation!Exists(i)
        /\ inviting[q].at = today /\ invitation[i].last_sent_at = today
        /\ \A k \in 1..Len(mails[i]) : mails[i][k] < today
        /\ Sending(i) = 1 /\ Sending(i)' = 0
        /\ \A p \in Requests : ~Sends(p, i)'
        /\ \A p \in Requests, k \in Invites \ {i} :
             /\ Sends(p, k)' <=> Sends(p, k)
             /\ Sends(p, k) => inviting'[p] = inviting[p]
        /\ \A k \in Invites \ {i} : Sending(k)' = Sending(k)
  BY <1>0, InviteEnds
<1>3. mails' = [k \in Invites |-> IF k = i THEN Append(mails[k], today) ELSE mails[k]]
  BY <1>2 DEF Invitation!Sent
<1>4. /\ mails' \in [Invites -> Seq(Nat)]
      /\ mails'[i] = Append(mails[i], today)
      /\ Len(mails[i]) \in Nat /\ Len(mails'[i]) = Len(mails[i]) + 1
      /\ \A k \in 1..Len(mails[i]) : mails'[i][k] = mails[i][k] /\ mails[i][k] \in Nat
      /\ mails'[i][Len(mails[i]) + 1] = today
      /\ \A k \in Invites \ {i} : mails'[k] = mails[k]
  BY <1>0, <1>3
<1>5. InviteTypes'
  BY <1>0, <1>1, <1>4 DEF InviteInv, InviteTypes
<1>6. \A p \in Requests : KnowsItsRow(inviting[p])'
  BY <1>0, <1>1, IdleRun DEF InviteInv, KnowsItsRow, Named, Invitation!Exists
<1>7. CapInv'
  <2> SUFFICES ASSUME NEW k \in Invites
               PROVE  /\ invitation[k].send_count <= INVITE_MAX_SENDS
                      /\ Len(mails'[k]) + invitation[k].carried + Sending(k)'
                           <= invitation[k].send_count
                      /\ ~Invitation!Exists(k) => mails'[k] = <<>>
    BY <1>0 DEF CapInv, Invitation!Exists
  <2>1. CASE k # i
    BY <1>2, <1>4, <2>1 DEF InviteInv, CapInv
  <2>2. CASE k = i
    <3>1. invitation[i].carried \in Nat /\ invitation[i].send_count \in Nat
      BY DEF InviteInv, InviteTypes, InviteRow
    <3>2. /\ Len(mails[i]) + invitation[i].carried + 1 <= invitation[i].send_count
          /\ invitation[i].send_count <= INVITE_MAX_SENDS
      BY <1>2 DEF InviteInv, CapInv
    <3> QED
      BY <1>2, <1>4, <2>2, <3>1, <3>2
  <2> QED
    BY <2>1, <2>2
<1>8. SpacedInv'
  <2>1. \A k \in 1..Len(mails'[i]) : k \in 1..Len(mails[i]) \/ k = Len(mails[i]) + 1
    BY <1>4
  <2>2. \A j, k \in 1..Len(mails[i]) : j < k => mails[i][k] - mails[i][j] >= 1
    BY DEF InviteInv, SpacedInv
  <2>3. \A j, k \in 1..Len(mails'[i]) : j < k => mails'[i][k] - mails'[i][j] >= 1
    <3> SUFFICES ASSUME NEW j \in 1..Len(mails'[i]), NEW k \in 1..Len(mails'[i]), j < k
                 PROVE  mails'[i][k] - mails'[i][j] >= 1
      OBVIOUS
    <3>1. j \in 1..Len(mails[i])
      BY <1>4
    <3>2. CASE k \in 1..Len(mails[i])
      BY <1>4, <2>2, <3>1, <3>2
    <3>3. CASE k = Len(mails[i]) + 1
      BY <1>0, <1>2, <1>4, <3>1, <3>3
    <3> QED
      BY <2>1, <3>2, <3>3
  <2>4. \A k \in 1..Len(mails'[i]) : mails'[i][k] <= today
    BY <1>0, <1>2, <1>4, <2>1
  <2> SUFFICES ASSUME NEW k \in Invites
               PROVE  /\ \A p \in Requests : Sends(p, k)' =>
                           /\ inviting'[p].at = today /\ invitation[k].last_sent_at = today
                           /\ \A n \in 1..Len(mails'[k]) : mails'[k][n] < today
                           /\ \A r \in Requests : Sends(r, k)' => r = p
                      /\ \A n \in 1..Len(mails'[k]) :
                           /\ mails'[k][n] <= today
                           /\ invitation[k].last_sent_at # today => mails'[k][n] < today
                      /\ \A j, n \in 1..Len(mails'[k]) : j < n => mails'[k][n] - mails'[k][j] >= 1
    BY <1>0 DEF SpacedInv
  <2>5. CASE k = i
    BY <1>2, <2>3, <2>4, <2>5
  <2>6. CASE k # i
    <3>1. /\ mails'[k] = mails[k]
          /\ \A p \in Requests : Sends(p, k)' => Sends(p, k) /\ inviting'[p] = inviting[p]
      BY <1>2, <1>4, <2>6
    <3> QED
      BY <3>1 DEF InviteInv, SpacedInv
  <2> QED
    BY <2>5, <2>6
<1>9. ChargedInv'
  <2> DEFINE m == <<i, Len(mails[i]) + 1>>
  <2>1. q \in PaidFor /\ PaidFor' = PaidFor \ {q}
    BY <1>0, <1>1, IdleRun DEF PaidFor, Paid
  <2>2. Cardinality(PaidFor') = Cardinality(PaidFor) - 1
    BY <2>1, PaidAreFinite, FS_RemoveElement
  <2>3. AllMails' \subseteq AllMails \cup {m}
    <3> SUFFICES ASSUME NEW k \in Invites, NEW n \in 1..DAILY_BUDGET + 1, n <= Len(mails'[k])
                 PROVE  <<k, n>> \in AllMails \cup {m}
      BY DEF AllMails
    <3>1. CASE k # i
      BY <1>4, <3>1 DEF AllMails
    <3>2. CASE k = i
      <4>1. n \in 1..Len(mails[i]) \/ n = Len(mails[i]) + 1
        BY <1>4, <3>2 DEF InviteLimits
      <4> QED
        BY <3>2, <4>1 DEF AllMails
    <3> QED
      BY <3>1, <3>2
  <2>4. /\ IsFiniteSet(AllMails \cup {m})
        /\ Cardinality(AllMails \cup {m}) <= Cardinality(AllMails) + 1
        /\ Cardinality(AllMails) \in Nat
    <3>1. IsFiniteSet(AllMails)
      BY DEF InviteInv, ChargedInv
    <3>2. Cardinality(AllMails) \in Nat
      BY <3>1, FS_CardinalityType
    <3> HIDE DEF m
    <3>3. /\ IsFiniteSet(AllMails \cup {m})
          /\ \/ Cardinality(AllMails \cup {m}) = Cardinality(AllMails)
             \/ Cardinality(AllMails \cup {m}) = Cardinality(AllMails) + 1
      BY <3>1, FS_AddElement
    <3> QED
      BY <3>2, <3>3
  <2>5. /\ IsFiniteSet(AllMails') /\ Cardinality(AllMails') \in Nat
        /\ Cardinality(AllMails') <= Cardinality(AllMails \cup {m})
        /\ Cardinality(AllMails \cup {m}) \in Nat
    BY <2>3, <2>4, FS_Subset, FS_CardinalityType
  <2> QED
    BY <1>0, <2>2, <2>4, <2>5, PaidAreFinite DEF InviteInv, InviteTypes, ChargedInv
<1> QED
  BY <1>5, <1>6, <1>7, <1>8, <1>9 DEF InviteInv

\* The slot is given back by the only request that holds it.
LEMMA InviteIsNotSent ==
  ASSUME InviteLimits, InviteInv, NEW q \in Requests, Invitation!NotSent(q)
  PROVE  InviteInv'
<1>0. /\ inviting[q].pc = "send" /\ inviting' = [inviting EXCEPT ![q] = Invitation!Idle]
      /\ UNCHANGED <<mails, today, charged>> /\ today \in Nat
      /\ invitation \in [Invites -> InviteRow] /\ inviting[q] \in InviteRun
  BY DEF Invitation!NotSent, Invitation!Return, InviteInv, InviteTypes
<1>1. /\ inviting' \in [Requests -> InviteRun]
      /\ \A p \in Requests :
           inviting'[p] = IF p = q THEN Invitation!Idle ELSE inviting[p]
  BY <1>0, InviteEnds
<1>2. PICK i \in Invites :
        /\ inviting[q].invite = {i} /\ Invitation!Exists(i)
        /\ inviting[q].at = today /\ invitation[i].last_sent_at = today
        /\ \A k \in 1..Len(mails[i]) : mails[i][k] < today
        /\ Sending(i) = 1 /\ Sending(i)' = 0
        /\ \A p \in Requests : ~Sends(p, i)'
        /\ \A p \in Requests, k \in Invites \ {i} :
             /\ Sends(p, k)' <=> Sends(p, k)
             /\ Sends(p, k) => inviting'[p] = inviting[p]
        /\ \A k \in Invites \ {i} : Sending(k)' = Sending(k)
  BY <1>0, InviteEnds
<1> DEFINE old == invitation[i]
<1>3. /\ old \in InviteRow /\ old.send_count \in Nat /\ old.carried \in Nat
      /\ Len(mails[i]) \in Nat
      /\ Len(mails[i]) + old.carried + 1 <= old.send_count
      /\ old.send_count <= INVITE_MAX_SENDS
  <2>1. old \in InviteRow
    BY <1>0
  <2> QED
    BY <1>2, <2>1 DEF InviteInv, InviteTypes, CapInv, InviteRow
<1> DEFINE new == RowWith(old, old.send_count - 1, inviting[q].prior)
<1>4. /\ new \in InviteRow /\ new.created = old.created /\ new.carried = old.carried
      /\ new.send_count = old.send_count - 1
  <2>1. old.send_count - 1 \in Nat /\ inviting[q].prior \in Int
    BY <1>0, <1>3 DEF InviteRun
  <2>2. old \in InviteRow
    BY <1>3
  <2> HIDE DEF old
  <2> QED
    <3> DEFINE n == old.send_count - 1
               t == inviting[q].prior
    <3>1. n \in Nat /\ t \in Int
      BY <2>1
    <3> HIDE DEF n, t
    <3>2. /\ RowWith(old, n, t) \in InviteRow
          /\ RowWith(old, n, t).created = old.created
          /\ RowWith(old, n, t).carried = old.carried
          /\ RowWith(old, n, t).send_count = n
      BY <2>2, <3>1, RowUpdate
    <3> QED
      BY <3>2 DEF n, t
<1>5. Invitation!Released(old, q) = new
  <2>1. old.send_count > 0
    BY <1>3
  <2> QED
    BY <2>1 DEF Invitation!Released, RowWith
<1>6. invitation' = [k \in Invites |-> IF k = i THEN new ELSE invitation[k]]
  BY <1>2, <1>5 DEF Invitation!NotSent
<1> HIDE DEF new
<1>7. /\ invitation' \in [Invites -> InviteRow] /\ invitation'[i] = new
      /\ \A k \in Invites \ {i} : invitation'[k] = invitation[k]
  BY <1>0, <1>4, <1>6
<1>8. InviteTypes'
  BY <1>0, <1>1, <1>7 DEF InviteInv, InviteTypes
<1>9. \A k \in Invites : Invitation!Exists(k)' <=> Invitation!Exists(k)
  BY <1>4, <1>7 DEF Invitation!Exists
<1>10. \A p \in Requests : KnowsItsRow(inviting[p])'
  BY <1>1, <1>9, IdleRun DEF InviteInv, KnowsItsRow, Named
<1>11. CapInv'
  <2> SUFFICES ASSUME NEW k \in Invites
               PROVE  /\ invitation'[k].send_count <= INVITE_MAX_SENDS
                      /\ Len(mails[k]) + invitation'[k].carried + Sending(k)'
                           <= invitation'[k].send_count
                      /\ ~Invitation!Exists(k)' => mails[k] = <<>>
    BY <1>0 DEF CapInv
  <2>1. CASE k # i
    BY <1>2, <1>7, <1>9, <2>1 DEF InviteInv, CapInv
  <2>2. CASE k = i
    BY <1>2, <1>3, <1>4, <1>7, <1>9, <2>2 DEF InviteLimits
  <2> QED
    BY <2>1, <2>2
<1>12. SpacedInv'
  <2>1. \A k \in 1..Len(mails[i]) : mails[i][k] <= today
    BY DEF InviteInv, SpacedInv
  <2> QED
    BY <1>0, <1>2, <1>7, <2>1 DEF InviteInv, SpacedInv
<1>13. ChargedInv'
  <2>1. PaidFor' = PaidFor \ {q}
    BY <1>1, IdleRun DEF PaidFor, Paid
  <2>2. Cardinality(PaidFor') \in Nat /\ Cardinality(PaidFor') <= Cardinality(PaidFor)
    BY <2>1, PaidAreFinite, FS_Subset, FS_CardinalityType
  <2>3. AllMails' = AllMails /\ Cardinality(AllMails) \in Nat
    BY <1>0, FS_CardinalityType DEF AllMails, InviteInv, ChargedInv
  <2> QED
    BY <1>0, <2>2, <2>3, PaidAreFinite DEF InviteInv, InviteTypes, ChargedInv
<1> QED
  BY <1>8, <1>10, <1>11, <1>12, <1>13 DEF InviteInv

LEMMA InviteNext ==
  ASSUME InviteLimits, InviteInv, Invitation!Next \/ UNCHANGED InvitationVars
  PROVE  InviteInv'
<1>1. CASE Invitation!Tick
  BY <1>1, InviteTicks
<1>2. ASSUME NEW q \in Requests,
             \/ Invitation!CheckCreate(q) \/ Invitation!Insert(q) \/ Invitation!Charge(q)
             \/ Invitation!Renew(q) \/ Invitation!Reserve(q) \/ Invitation!Sent(q)
             \/ Invitation!NotSent(q) \/ Invitation!Die(q) \/ Invitation!Stamp(q)
             \/ \E i \in Invites : Invitation!CheckResend(q, i) \/ Invitation!Join(q, i)
      PROVE  InviteInv'
  BY <1>2, InviteChecks, InviteInserts, InviteCharges, InviteRenews, InviteReserves,
     InviteIsSent, InviteIsNotSent
<1>3. ASSUME NEW i \in Invites, Invitation!Revoke(i) PROVE InviteInv'
  BY <1>3, InviteRenews
<1>4. CASE UNCHANGED InvitationVars
  <2>1. UNCHANGED <<invitation, charged, inviting, mails, today>>
    BY <1>4 DEF InvitationVars
  <2>2. InviteTypes' /\ \A q \in Requests : KnowsItsRow(inviting[q])'
    BY <2>1 DEF InviteInv, InviteTypes, KnowsItsRow, Named, Invitation!Exists
  <2>3. CapInv'
    BY <2>1 DEF InviteInv, CapInv, Sending, Sends, Invitation!Exists
  <2>4. SpacedInv' = SpacedInv
    BY <2>1 DEF SpacedInv, Sends
  <2>5. ChargedInv'
    BY <2>1 DEF InviteInv, ChargedInv, AllMails, PaidFor
  <2> QED
    BY <2>2, <2>3, <2>4, <2>5 DEF InviteInv
<1> QED
  BY <1>1, <1>2, <1>3, <1>4 DEF Invitation!Next

LEMMA InviteBounds ==
  ASSUME InviteLimits, InviteInv
  PROVE  Invitation!InviteMailIsBounded
<1>1. ASSUME NEW i \in Invites
      PROVE  /\ Len(mails[i]) + invitation[i].carried <= INVITE_MAX_SENDS
             /\ \A j, k \in DOMAIN mails[i] : j < k => mails[i][k] - mails[i][j] >= 1
  <2>1. /\ Len(mails[i]) \in Nat /\ invitation[i].carried \in Nat
        /\ invitation[i].send_count \in Nat /\ DOMAIN mails[i] = 1..Len(mails[i])
    BY DEF InviteInv, InviteTypes, InviteRow
  <2>2. Sending(i) \in {0, 1}
    BY DEF Sending
  <2>3. /\ Len(mails[i]) + invitation[i].carried + Sending(i) <= invitation[i].send_count
        /\ invitation[i].send_count <= INVITE_MAX_SENDS
    BY DEF InviteInv, CapInv
  <2>4. \A j, k \in DOMAIN mails[i] : j < k => mails[i][k] - mails[i][j] >= 1
    BY <2>1 DEF InviteInv, SpacedInv
  <2> QED
    BY <2>1, <2>2, <2>3, <2>4 DEF InviteLimits
<1>2. Invitation!Mailed(1..DAILY_BUDGET + 1) = AllMails
  BY DEF Invitation!Mailed, AllMails
<1>3. Cardinality(AllMails) <= DAILY_BUDGET
  <2>1. Cardinality(AllMails) \in Nat
    BY FS_CardinalityType DEF InviteInv, ChargedInv
  <2> QED
    BY <2>1, PaidAreFinite DEF InviteInv, InviteTypes, ChargedInv, InviteLimits
<1> QED
  BY <1>1, <1>2, <1>3, SameCardinality
     DEF Invitation!InviteMailIsBounded, Invitation!COOLDOWN

(* However creations, resends, revocations and acceptances of invitations  *)
(* overlap, fail to mail or die, a row's mails stay under its cap, a       *)
(* cooldown apart, and all of them within the organization's budget.       *)
THEOREM InviteMailsStayBounded ==
  ASSUME InviteLimits
  PROVE  ServicesSpec => []InviteMailIsBounded
<1>1. ServicesInit => (service = "invitations" => InviteInv)
  BY InvitesStart DEF ServicesInit
<1>2. (service = "invitations" => InviteInv) /\ [ServicesNext]_allVars
        => (service = "invitations" => InviteInv)'
  BY OneServiceMoves, InviteNext
<1>3. (service = "invitations" => InviteInv) => InviteMailIsBounded
  BY InviteBounds DEF InviteMailIsBounded
<1> QED
  BY <1>1, <1>2, <1>3, PTL DEF ServicesSpec, allVars

-----------------------------------------------------------------------------
(* The quota breaker.  The row holds the latest end ever recorded and what *)
(* a pass keeps is never behind what it was warned of.                     *)

QuotaLimits == {Backoff, MaxWindow, MaxHour} \subseteq Nat /\ Budgets # {}

BlockTimes == [Budgets -> Nat]

CallerRun == [pc : {"idle", "ready", "calling", "refused"}, scope : Budgets, until : Nat,
        kept : BlockTimes, warned : BlockTimes]

\* What holds of one caller c, given what is recorded and the time.
Heeds(c, run, held, time) ==
  /\ \A s \in Budgets : run.warned[s] <= held[s]
  /\ \A s \in Budgets : run.kept[s] # Breaker!Unread => c \in Passes /\ run.warned[s] <= run.kept[s]
  /\ run.pc = "calling" => run.warned[run.scope] <= time

QuotaInv ==
  /\ block \in BlockTimes /\ recorded \in BlockTimes /\ minute \in Nat
  /\ \A s \in Budgets : block[s] = recorded[s]
  /\ caller \in [Breaker!Callers -> CallerRun]
  /\ \A c \in Breaker!Callers : Heeds(c, caller[c], recorded, minute)

\* A caller at rest is warned of nothing.
LEMMA IdleCallerHeeds ==
  ASSUME QuotaLimits, NEW c, NEW held \in BlockTimes, NEW time
  PROVE  Breaker!Idle \in CallerRun /\ Heeds(c, Breaker!Idle, held, time)
<1>1. Breaker!Unread \in Nat
  BY DEF QuotaLimits, Breaker!Unread
<1>2. (CHOOSE s \in Budgets : TRUE) \in Budgets
  BY DEF QuotaLimits
<1>3. Breaker!Idle \in CallerRun
  BY <1>1, <1>2 DEF Breaker!Idle, CallerRun, BlockTimes
<1>4. Heeds(c, Breaker!Idle, held, time)
  BY DEF Breaker!Idle, Heeds, BlockTimes
<1> QED  BY <1>3, <1>4

\* A step that gives one caller a run that heeds, and moves neither the held
\* nor the time back, keeps the invariant.
LEMMA OneCallerMoves ==
  ASSUME QuotaLimits, QuotaInv, NEW c \in Breaker!Callers, NEW run \in CallerRun,
         block' \in BlockTimes, recorded' \in BlockTimes, minute' \in Nat,
         \A s \in Budgets : block'[s] = recorded'[s],
         \A s \in Budgets : recorded[s] <= recorded'[s],
         minute <= minute',
         caller' = [caller EXCEPT ![c] = run],
         Heeds(c, run, recorded', minute')
  PROVE  QuotaInv'
<1>1. caller' \in [Breaker!Callers -> CallerRun]
  BY DEF QuotaInv
<1>2. ASSUME NEW d \in Breaker!Callers
      PROVE  Heeds(d, caller'[d], recorded', minute')
  <2>1. CASE d = c
    BY <2>1 DEF QuotaInv
  <2>2. CASE d # c
    <3>1. caller'[d] = caller[d] /\ caller[d] \in CallerRun /\ Heeds(d, caller[d], recorded, minute)
      BY <2>2 DEF QuotaInv
    <3>2. \A s \in Budgets : caller[d].warned[s] \in Nat
      BY <3>1 DEF CallerRun, BlockTimes
    <3>3. \A s \in Budgets : recorded[s] \in Nat /\ recorded'[s] \in Nat
      BY DEF QuotaInv, BlockTimes
    <3>4. caller[d].scope \in Budgets /\ minute \in Nat
      BY <3>1 DEF CallerRun, QuotaInv
    <3> QED  BY <3>1, <3>2, <3>3, <3>4 DEF Heeds
  <2> QED  BY <2>1, <2>2
<1> QED  BY <1>1, <1>2 DEF QuotaInv

LEMMA BreakerStarts == ASSUME QuotaLimits PROVE Breaker!Init => QuotaInv
<1> SUFFICES ASSUME Breaker!Init PROVE QuotaInv
  OBVIOUS
<1>1. block \in BlockTimes /\ recorded \in BlockTimes /\ minute \in Nat
  BY DEF Breaker!Init, BlockTimes
<1>2. \A s \in Budgets : block[s] = recorded[s]
  BY DEF Breaker!Init
<1>3. \A c \in Breaker!Callers : caller[c] = Breaker!Idle
  BY DEF Breaker!Init
<1>4. Breaker!Idle \in CallerRun /\ \A c \in Breaker!Callers : Heeds(c, Breaker!Idle, recorded, minute)
  BY <1>1, IdleCallerHeeds
<1> QED  BY <1>1, <1>2, <1>3, <1>4 DEF QuotaInv, Breaker!Init

LEMMA BreakerNext == ASSUME QuotaLimits PROVE QuotaInv /\ [Breaker!Next]_BreakerVars => QuotaInv'
<1> SUFFICES ASSUME QuotaInv, [Breaker!Next]_BreakerVars PROVE QuotaInv'
  OBVIOUS
<1>t. block \in BlockTimes /\ recorded \in BlockTimes /\ minute \in Nat /\ Breaker!Unread \in Nat
  BY DEF QuotaInv, QuotaLimits, Breaker!Unread
<1>c. ASSUME NEW c \in Breaker!Callers
      PROVE  /\ caller[c] \in CallerRun /\ Heeds(c, caller[c], recorded, minute)
             /\ \A s \in Budgets : /\ caller[c].warned[s] \in Nat /\ caller[c].kept[s] \in Nat
                                   /\ block[s] \in Nat /\ recorded[s] = block[s]
             /\ caller[c].scope \in Budgets /\ caller[c].until \in Nat
  BY DEF QuotaInv, CallerRun, BlockTimes
<1>1. CASE Breaker!Tick
  <2>1. minute' \in Nat /\ minute <= minute'
    BY <1>1, <1>t DEF Breaker!Tick
  <2>2. ASSUME NEW c \in Breaker!Callers PROVE Heeds(c, caller[c], recorded, minute')
    BY <1>c, <2>1, <1>t DEF Heeds
  <2> QED  BY <1>1, <2>1, <2>2 DEF Breaker!Tick, QuotaInv
<1>2. ASSUME NEW c \in Breaker!Callers, Breaker!Start(c) PROVE QuotaInv'
  <2> DEFINE run == [Breaker!Idle EXCEPT !.pc = "ready", !.warned = recorded]
  <2>1. run \in CallerRun /\ run.warned = recorded /\ run.kept = Breaker!Idle.kept /\ run.pc = "ready"
    BY <1>t, IdleCallerHeeds DEF Breaker!Idle, CallerRun
  <2>2. Heeds(c, run, recorded, minute)
    <3>1. \A s \in Budgets : run.kept[s] = Breaker!Unread
      BY <2>1 DEF Breaker!Idle
    <3> QED  BY <1>t, <2>1, <3>1 DEF Heeds, BlockTimes
  <2> HIDE DEF run
  <2>3. caller' = [caller EXCEPT ![c] = run]
    BY <1>2 DEF Breaker!Start, run
  <2> QED  BY <1>2, <1>t, <2>1, <2>2, <2>3, OneCallerMoves DEF Breaker!Start, QuotaInv, BlockTimes
<1>3. ASSUME NEW c \in Breaker!Callers, Breaker!Ask(c) PROVE QuotaInv'
  <2>1. PICK s \in Budgets :
          LET asked == [caller[c] EXCEPT !.scope = s, !.kept = Breaker!Keeps(c, s, Breaker!Found(c, s))]
          IN  caller' = [caller EXCEPT ![c] =
                IF Breaker!Found(c, s) <= minute THEN [asked EXCEPT !.pc = "calling"]
                                      ELSE Breaker!GoesOn(c, asked)]
    BY <1>3 DEF Breaker!Ask
  <2> DEFINE asked == [caller[c] EXCEPT !.scope = s, !.kept = Breaker!Keeps(c, s, Breaker!Found(c, s))]
             run == IF Breaker!Found(c, s) <= minute THEN [asked EXCEPT !.pc = "calling"]
                                          ELSE Breaker!GoesOn(c, asked)
  <2>2. Breaker!Found(c, s) \in Nat /\ caller[c].warned[s] <= Breaker!Found(c, s)
    BY <1>c DEF Breaker!Found, Heeds
  <2>3. /\ Breaker!Keeps(c, s, Breaker!Found(c, s)) \in BlockTimes
        /\ \A b \in Budgets :
             Breaker!Keeps(c, s, Breaker!Found(c, s))[b] # Breaker!Unread =>
               c \in Passes /\ caller[c].warned[b] <= Breaker!Keeps(c, s, Breaker!Found(c, s))[b]
    <3>1. caller[c].kept \in BlockTimes
      BY <1>c DEF CallerRun
    <3> QED  BY <3>1, <2>2, <1>c DEF Breaker!Keeps, BlockTimes, Heeds
  <2>4. asked \in CallerRun /\ asked.warned = caller[c].warned /\ asked.scope = s
          /\ asked.kept = Breaker!Keeps(c, s, Breaker!Found(c, s)) /\ asked.pc = caller[c].pc
    BY <1>c, <2>3 DEF CallerRun
  <2> HIDE DEF asked
  <2>5. run \in CallerRun /\ Heeds(c, run, recorded, minute)
    <3>1. CASE Breaker!Found(c, s) <= minute
      <4>1. /\ run \in CallerRun /\ run.warned = caller[c].warned /\ run.scope = s
            /\ run.kept = Breaker!Keeps(c, s, Breaker!Found(c, s))
        BY <3>1, <2>4 DEF CallerRun
      <4>2. caller[c].warned[s] <= minute
        BY <3>1, <2>2, <1>c, <1>t
      <4> QED  BY <4>1, <4>2, <2>3, <1>c DEF Heeds
    <3>2. CASE ~(Breaker!Found(c, s) <= minute) /\ c \in Passes
      <4>1. /\ run \in CallerRun /\ run.warned = caller[c].warned /\ run.pc = "ready"
            /\ run.kept = Breaker!Keeps(c, s, Breaker!Found(c, s))
        BY <3>2, <2>4 DEF CallerRun, Breaker!GoesOn
      <4> QED  BY <4>1, <2>3, <1>c DEF Heeds
    <3>3. CASE ~(Breaker!Found(c, s) <= minute) /\ c \notin Passes
      BY <3>3, <1>t, IdleCallerHeeds DEF Breaker!GoesOn
    <3> QED  BY <3>1, <3>2, <3>3
  <2>6. caller' = [caller EXCEPT ![c] = run]
    BY <2>1 DEF asked
  <2> HIDE DEF run
  <2> QED  BY <1>3, <1>t, <2>5, <2>6, OneCallerMoves DEF Breaker!Ask, QuotaInv, BlockTimes
<1>4. ASSUME NEW c \in Breaker!Callers, Breaker!Answer(c) PROVE QuotaInv'
  <2>1. Breaker!GoesOn(c, caller[c]) \in CallerRun /\ Heeds(c, Breaker!GoesOn(c, caller[c]), recorded, minute)
    <3>1. CASE c \in Passes
      <4>1. /\ Breaker!GoesOn(c, caller[c]) \in CallerRun
            /\ Breaker!GoesOn(c, caller[c]).warned = caller[c].warned
            /\ Breaker!GoesOn(c, caller[c]).kept = caller[c].kept
            /\ Breaker!GoesOn(c, caller[c]).pc = "ready"
        BY <3>1, <1>c DEF Breaker!GoesOn, CallerRun
      <4> QED  BY <4>1, <1>c DEF Heeds
    <3>2. CASE c \notin Passes
      BY <3>2, <1>t, IdleCallerHeeds DEF Breaker!GoesOn
    <3> QED  BY <3>1, <3>2
  <2>2. caller' = [caller EXCEPT ![c] = Breaker!GoesOn(c, caller[c])]
    BY <1>4 DEF Breaker!Answer
  <2> QED  BY <1>4, <1>t, <2>1, <2>2, OneCallerMoves DEF Breaker!Answer, QuotaInv, BlockTimes
<1>5. ASSUME NEW c \in Breaker!Callers, Breaker!Refuse(c) PROVE QuotaInv'
  <2>1. PICK window \in 1..MaxWindow \cup {Backoff} :
          caller' = [caller EXCEPT ![c].pc = "refused", ![c].until = minute + window]
    BY <1>5 DEF Breaker!Refuse
  <2> DEFINE run == [caller[c] EXCEPT !.pc = "refused", !.until = minute + window]
  <2>2. minute + window \in Nat
    BY <1>t DEF QuotaLimits
  <2>3. /\ run \in CallerRun /\ run.warned = caller[c].warned
        /\ run.kept = caller[c].kept /\ run.pc = "refused"
    BY <1>c, <2>2 DEF CallerRun
  <2>4. Heeds(c, run, recorded, minute)
    BY <2>3, <1>c DEF Heeds
  <2>5. caller' = [caller EXCEPT ![c] = run]
    BY <2>1
  <2> HIDE DEF run
  <2> QED  BY <1>5, <1>t, <2>3, <2>4, <2>5, OneCallerMoves DEF Breaker!Refuse, QuotaInv, BlockTimes
<1>6. ASSUME NEW c \in Breaker!Callers, Breaker!Trip(c) PROVE QuotaInv'
  <2> DEFINE s == caller[c].scope
             until == IF Breaker!Extended(s, caller[c].until) THEN caller[c].until ELSE block[s]
             told == [caller[c] EXCEPT !.kept = Breaker!Remembered(c, s, until),
                                       !.warned[s] = recorded'[s]]
             run == Breaker!GoesOn(c, told)
  <2>1. /\ block' = [block EXCEPT ![s] = until]
        /\ recorded' = [recorded EXCEPT ![s] = Breaker!Later(@, caller[c].until)]
        /\ caller' = [caller EXCEPT ![c] = run]
        /\ minute' = minute
    BY <1>6 DEF Breaker!Trip
  <2>2. /\ s \in Budgets /\ until \in Nat /\ block[s] <= until
        /\ Breaker!Later(recorded[s], caller[c].until) = until
    BY <1>c DEF Breaker!Extended, Breaker!Later
  <2>k. Breaker!Keeps(c, s, until) = Breaker!Remembered(c, s, until)
    BY DEF Breaker!Remembered
  <2> HIDE DEF s, until
  <2>3. /\ block' \in BlockTimes /\ recorded' \in BlockTimes /\ recorded'[s] = until
        /\ \A b \in Budgets : block'[b] = recorded'[b] /\ recorded[b] <= recorded'[b]
    BY <2>1, <2>2, <1>t, <1>c DEF BlockTimes
  <2>4. /\ told.kept = Breaker!Keeps(c, s, until) /\ told.pc = caller[c].pc
        /\ told.warned = [caller[c].warned EXCEPT ![s] = until]
        /\ told.scope = caller[c].scope /\ told.until = caller[c].until
    BY <2>3, <2>k, <1>c DEF CallerRun
  <2>5. Breaker!Keeps(c, s, until) \in BlockTimes /\ told.warned \in BlockTimes
    BY <2>2, <2>4, <1>c DEF Breaker!Keeps, CallerRun, BlockTimes
  <2>6. told \in CallerRun
    BY <2>4, <2>5, <1>c DEF CallerRun
  <2>7. \A b \in Budgets : /\ told.warned[b] <= recorded'[b]
                           /\ told.kept[b] # Breaker!Unread => c \in Passes /\ told.warned[b] <= told.kept[b]
    <3>1. \A b \in Budgets : told.warned[b] = IF b = s THEN until ELSE caller[c].warned[b]
      BY <2>4, <2>2, <1>c DEF CallerRun, BlockTimes
    <3>2. \A b \in Budgets : told.kept[b] = IF c \in Passes /\ b = s THEN until ELSE caller[c].kept[b]
      BY <2>4, <2>2, <1>c DEF Breaker!Keeps, CallerRun, BlockTimes
    <3>3. \A b \in Budgets : caller[c].warned[b] <= recorded[b] /\ recorded[b] <= recorded'[b]
                               /\ recorded'[b] \in Nat /\ recorded[b] \in Nat
      BY <2>3, <1>c, <1>t DEF Heeds, BlockTimes
    <3>4. ASSUME NEW b \in Budgets PROVE told.warned[b] <= recorded'[b]
      BY <3>1, <3>3, <2>2, <2>3, <1>c
    <3>5. ASSUME NEW b \in Budgets, told.kept[b] # Breaker!Unread
          PROVE  c \in Passes /\ told.warned[b] <= told.kept[b]
      <4>1. CASE c \in Passes
        BY <4>1, <3>1, <3>2, <3>5, <2>2, <1>c DEF Heeds
      <4>2. CASE c \notin Passes
        BY <4>2, <3>2, <3>5, <1>c DEF Heeds
      <4> QED  BY <4>1, <4>2
    <3> QED  BY <3>4, <3>5
  <2> HIDE DEF told
  <2>8. run \in CallerRun /\ Heeds(c, run, recorded', minute)
    <3>1. CASE c \in Passes
      <4>1. /\ run \in CallerRun /\ run.warned = told.warned /\ run.kept = told.kept
            /\ run.pc = "ready"
        BY <3>1, <2>6 DEF Breaker!GoesOn, CallerRun
      <4> QED  BY <4>1, <2>7 DEF Heeds
    <3>2. CASE c \notin Passes
      BY <3>2, <2>3, IdleCallerHeeds DEF Breaker!GoesOn
    <3> QED  BY <3>1, <3>2
  <2> HIDE DEF run
  <2>9. Heeds(c, run, recorded', minute') /\ minute' \in Nat /\ minute <= minute'
    BY <2>1, <2>8, <1>t
  <2> QED  BY <2>1, <2>3, <2>8, <2>9, OneCallerMoves
<1>7. ASSUME NEW c \in Breaker!Callers, Breaker!End(c) PROVE QuotaInv'
  <2>1. Breaker!Idle \in CallerRun /\ Heeds(c, Breaker!Idle, recorded, minute)
    BY <1>t, IdleCallerHeeds
  <2>2. caller' = [caller EXCEPT ![c] = Breaker!Idle]
    BY <1>7 DEF Breaker!End
  <2> QED  BY <1>7, <1>t, <2>1, <2>2, OneCallerMoves DEF Breaker!End, QuotaInv, BlockTimes
<1>8. CASE UNCHANGED BreakerVars
  <2>1. block' = block /\ caller' = caller /\ recorded' = recorded /\ minute' = minute
    BY <1>8 DEF BreakerVars
  <2> QED  BY <2>1 DEF QuotaInv
<1> QED  BY <1>1, <1>2, <1>3, <1>4, <1>5, <1>6, <1>7, <1>8 DEF Breaker!Next

(* No run calls the platform on a budget before the end of a refusal that  *)
(* was recorded when it started or that it recorded (common/quota.py       *)
(* 126-174), for any number of passes, checks and budgets.                 *)
THEOREM RefusalsStayHeeded ==
  ASSUME QuotaLimits
  PROVE  ServicesSpec => []RefusalsAreHeeded
<1>1. ServicesInit => (service = "quota" => QuotaInv)
  BY BreakerStarts DEF ServicesInit
<1>2. (service = "quota" => QuotaInv) /\ [ServicesNext]_allVars
        => (service = "quota" => QuotaInv)'
  BY OneServiceMoves, BreakerNext
<1>3. (service = "quota" => QuotaInv) => RefusalsAreHeeded
  BY DEF RefusalsAreHeeded, QuotaInv, Heeds, Breaker!RefusalsAreHeeded
<1> QED
  BY <1>1, <1>2, <1>3, PTL DEF ServicesSpec, allVars
-----------------------------------------------------------------------------
(* The queues of a channel: QueueSlots_proofs, for the channel with one    *)
(* queue and for the one with two.                                         *)

Slotted == INSTANCE QueueSlots_proofs
             WITH now <- instant, plan <- intended, Queues <- Queue, Posts <- Accounts
Paired == INSTANCE QueueSlots_proofs
            WITH now <- instant, plan <- intended, Posts <- QueuedPosts

LEMMA SameChannel ==
  ASSUME TRUE
  PROVE  /\ Channel!Init <=> Slotted!Init
         /\ Channel!Next <=> Slotted!Next
         /\ Channel!OnlyHandsDoubleBook <=> Slotted!OnlyHandsDoubleBook
         /\ Channel!LadderInOrder <=> Slotted!LadderInOrder
<1>1. Channel!Init <=> Slotted!Init
  BY DEF Channel!Init, Slotted!Init, Channel!NoTime, Slotted!NoTime
<1>2. Channel!Next <=> Slotted!Next
  BY DEF Channel!Next, Slotted!Next,
         Channel!Tick, Slotted!Tick, Channel!QueueOp, Slotted!QueueOp, Channel!Outside,
         Slotted!Outside, Channel!Protected, Slotted!Protected, Channel!Future, Slotted!Future,
         Channel!OccupiedDatetimes, Slotted!OccupiedDatetimes, Channel!Upcoming,
         Slotted!Upcoming, Channel!Free, Slotted!Free, Channel!LockChannel,
         Slotted!LockChannel, Channel!Begin, Slotted!Begin, Channel!MayPlace, Slotted!MayPlace,
         Channel!AddPostNextAvailable, Slotted!AddPostNextAvailable, Channel!Movable,
         Slotted!Movable, Channel!First, Slotted!First, Channel!Movers, Slotted!Movers,
         Channel!Later, Slotted!Later, Channel!Avoid, Slotted!Avoid, Channel!Ladders,
         Slotted!Ladders, Channel!Prioritize, Slotted!Prioritize, Channel!ReorderQueue,
         Slotted!ReorderQueue, Channel!Commit, Slotted!Commit, Channel!Leave, Slotted!Leave,
         Channel!RemoveFromQueue, Slotted!RemoveFromQueue, Channel!ByHand, Slotted!ByHand,
         Channel!About, Slotted!About, Channel!Booked, Slotted!Booked, Channel!ReschedulePost,
         Slotted!ReschedulePost, Channel!GenerateRecurringPost, Slotted!GenerateRecurringPost,
         Channel!Unschedule, Slotted!Unschedule, Channel!Publish, Slotted!Publish,
         Channel!NoTime, Slotted!NoTime, Channel!PROTECTED_STATUSES,
         Slotted!PROTECTED_STATUSES, Channel!CanTransition, Slotted!CanTransition,
         Channel!VALID_TRANSITIONS, Slotted!VALID_TRANSITIONS, Channel!ToSet, Slotted!ToSet,
         Channel!Min, Slotted!Min, Channel!SetToSeqs, Slotted!SetToSeqs, Channel!Bijection,
         Slotted!Bijection, Channel!Injection, Slotted!Injection, Channel!Surjection,
         Slotted!Surjection, Channel!IsInjective, Slotted!IsInjective, Channel!Cardinality,
         Slotted!Cardinality
<1>3. Channel!OnlyHandsDoubleBook <=> Slotted!OnlyHandsDoubleBook
  BY DEF Channel!OnlyHandsDoubleBook, Slotted!OnlyHandsDoubleBook,
         Channel!Future, Slotted!Future, Channel!Protected, Slotted!Protected,
         Channel!PROTECTED_STATUSES, Slotted!PROTECTED_STATUSES
<1>4. Channel!LadderInOrder <=> Slotted!LadderInOrder
  BY DEF Channel!LadderInOrder, Slotted!LadderInOrder, Channel!Laddered, Slotted!Laddered
<1> QED
  BY <1>1, <1>2, <1>3, <1>4

LEMMA SamePair ==
  ASSUME TRUE
  PROVE  /\ Pair!Init <=> Paired!Init
         /\ Pair!Next <=> Paired!Next
         /\ Pair!OnlyHandsDoubleBook <=> Paired!OnlyHandsDoubleBook
         /\ Pair!LadderInOrder <=> Paired!LadderInOrder
<1>1. Pair!Init <=> Paired!Init
  BY DEF Pair!Init, Paired!Init, Pair!NoTime, Paired!NoTime
<1>2. Pair!Next <=> Paired!Next
  BY DEF Pair!Next, Paired!Next,
         Pair!Tick, Paired!Tick, Pair!QueueOp, Paired!QueueOp, Pair!Outside, Paired!Outside,
         Pair!Protected, Paired!Protected, Pair!Future, Paired!Future, Pair!OccupiedDatetimes,
         Paired!OccupiedDatetimes, Pair!Upcoming, Paired!Upcoming, Pair!Free, Paired!Free,
         Pair!LockChannel, Paired!LockChannel, Pair!Begin, Paired!Begin, Pair!MayPlace,
         Paired!MayPlace, Pair!AddPostNextAvailable, Paired!AddPostNextAvailable, Pair!Movable,
         Paired!Movable, Pair!First, Paired!First, Pair!Movers, Paired!Movers, Pair!Later,
         Paired!Later, Pair!Avoid, Paired!Avoid, Pair!Ladders, Paired!Ladders, Pair!Prioritize,
         Paired!Prioritize, Pair!ReorderQueue, Paired!ReorderQueue, Pair!Commit, Paired!Commit,
         Pair!Leave, Paired!Leave, Pair!RemoveFromQueue, Paired!RemoveFromQueue, Pair!ByHand,
         Paired!ByHand, Pair!About, Paired!About, Pair!Booked, Paired!Booked,
         Pair!ReschedulePost, Paired!ReschedulePost, Pair!GenerateRecurringPost,
         Paired!GenerateRecurringPost, Pair!Unschedule, Paired!Unschedule, Pair!Publish,
         Paired!Publish, Pair!NoTime, Paired!NoTime, Pair!PROTECTED_STATUSES,
         Paired!PROTECTED_STATUSES, Pair!CanTransition, Paired!CanTransition,
         Pair!VALID_TRANSITIONS, Paired!VALID_TRANSITIONS, Pair!ToSet, Paired!ToSet, Pair!Min,
         Paired!Min, Pair!SetToSeqs, Paired!SetToSeqs, Pair!Bijection, Paired!Bijection,
         Pair!Injection, Paired!Injection, Pair!Surjection, Paired!Surjection,
         Pair!IsInjective, Paired!IsInjective, Pair!Cardinality, Paired!Cardinality
<1>3. Pair!OnlyHandsDoubleBook <=> Paired!OnlyHandsDoubleBook
  BY DEF Pair!OnlyHandsDoubleBook, Paired!OnlyHandsDoubleBook,
         Pair!Future, Paired!Future, Pair!Protected, Paired!Protected, Pair!PROTECTED_STATUSES,
         Paired!PROTECTED_STATUSES
<1>4. Pair!LadderInOrder <=> Paired!LadderInOrder
  BY DEF Pair!LadderInOrder, Paired!LadderInOrder, Pair!Laddered, Paired!Laddered
<1> QED
  BY <1>1, <1>2, <1>3, <1>4

SlotsInv ==
  /\ service = "channel" => Slotted!SlotInv
  /\ service = "queues" => Paired!SlotInv

ChannelLimits == Slotted!SlotLimits /\ Paired!SlotLimits

LEMMA SlotsKept ==
  ASSUME ChannelLimits
  PROVE  /\ ServicesInit => SlotsInv
         /\ SlotsInv /\ [ServicesNext]_allVars => SlotsInv'
<1>1. ServicesInit => SlotsInv
  <2>1. ServicesInit /\ service = "channel" => Channel!Init
    BY DEF ServicesInit
  <2>2. ServicesInit /\ service = "queues" => Pair!Init
    BY DEF ServicesInit
  <2> QED
    BY <2>1, <2>2, SameChannel, SamePair, Slotted!SlotsStart, Paired!SlotsStart DEF SlotsInv
<1>2. SlotsInv /\ [ServicesNext]_allVars => SlotsInv'
  <2>1. ChannelVars = Slotted!vars /\ ChannelVars = Paired!vars
    BY DEF ChannelVars, Slotted!vars, Paired!vars
  <2>2. Slotted!SlotInv /\ (Slotted!Next \/ UNCHANGED ChannelVars) => Slotted!SlotInv'
    BY <2>1, Slotted!SlotsNext DEF ChannelLimits, ChannelVars, Slotted!vars
  <2>3. Paired!SlotInv /\ (Paired!Next \/ UNCHANGED ChannelVars) => Paired!SlotInv'
    BY <2>1, Paired!SlotsNext DEF ChannelLimits, ChannelVars, Paired!vars
  <2> QED
    BY <2>2, <2>3, OneServiceMoves, SameChannel, SamePair DEF SlotsInv
<1> QED
  BY <1>1, <1>2

(* Whatever queue operations, drags, clones and publishes interleave, two  *)
(* waiting rows share an instant only if a hand put the second row there   *)
(* (calendar/services.py 158-161), on a channel of any number of rows.     *)
THEOREM OnlyHandsBookTwice ==
  ASSUME ChannelLimits
  PROVE  ServicesSpec => []OnlyHandsDoubleBook
<1>1. SlotsInv => OnlyHandsDoubleBook
  BY SameChannel, SamePair, Slotted!ApartIsEnough, Paired!ApartIsEnough
     DEF SlotsInv, OnlyHandsDoubleBook
<1> QED
  BY <1>1, SlotsKept, PTL DEF ServicesSpec, allVars

(* Prioritising a post puts it before all that its ladder moves and keeps  *)
(* their order (calendar/services.py 221-226), but for entries that share  *)
(* an instant.                                                             *)
THEOREM LaddersKeepOrder ==
  ASSUME ChannelLimits
  PROVE  ServicesSpec => LadderKeepsOrder
<1>1. SlotsInv /\ [ServicesNext]_allVars
        => [/\ service = "channel" => Channel!LadderInOrder
            /\ service = "queues" => Pair!LadderInOrder]_ChannelVars
  <2>1. Slotted!SlotInv /\ Slotted!Next => Slotted!LadderInOrder
    BY Slotted!StepsInOrder DEF ChannelLimits
  <2>2. Paired!SlotInv /\ Paired!Next => Paired!LadderInOrder
    BY Paired!StepsInOrder DEF ChannelLimits
  <2> QED
    BY <2>1, <2>2, OneServiceMoves, SameChannel, SamePair DEF SlotsInv
<1> QED
  BY <1>1, SlotsKept, PTL DEF ServicesSpec, LadderKeepsOrder, allVars

-----------------------------------------------------------------------------
(* The photos of a multi-photo post.  A call that knows of a photo raises  *)
(* by way of their deletion, so none is known once it has raised; what     *)
(* stayed on the page all the same is among what the page did not answer.  *)

PhotosKept ==
  /\ answer \in {"none", "raising", "returned", "retryable", "permanent"}
  /\ photos \in Nat /\ strays \in Nat /\ lost \in Nat
  /\ answer \in {"retryable", "permanent"} => photos = 0
  /\ strays <= lost

\* A raise leaves nothing known behind but by way of the deletion.
LEMMA RaiseKeepsPhotos ==
  ASSUME PhotosKept, NEW how \in {"retryable", "permanent"}, Provider!Raise(how),
         UNCHANGED <<photos, strays>>, lost' \in {lost, lost + 1}
  PROVE  PhotosKept'
<1>1. answer' = IF photos > 0 THEN "raising" ELSE how
  BY DEF Provider!Raise, Provider!Raising
<1>2. photos' = photos /\ strays' = strays /\ lost' \in Nat /\ lost <= lost'
  BY DEF PhotosKept
<1> QED
  BY <1>1, <1>2 DEF PhotosKept

LEMMA PhotosStayKept ==
  ASSUME PhotosKept, Provider!Next \/ UNCHANGED ProviderVars
  PROVE  PhotosKept'
<1>1. ASSUME answer = "none", UNCHANGED <<answer, photos, strays, lost>>
      PROVE  PhotosKept'
  BY <1>1 DEF PhotosKept
<1>2. CASE Provider!Check
  BY <1>1, <1>2, RaiseKeepsPhotos DEF Provider!Check, Provider!At, Provider!Advance
<1>3. CASE Provider!ReadOnly
  BY <1>1, <1>3, RaiseKeepsPhotos DEF Provider!ReadOnly, Provider!At, Provider!Advance
<1>4. CASE Provider!TryRead
  BY <1>1, <1>4 DEF Provider!TryRead, Provider!At, Provider!Advance
<1>5. CASE Provider!Stage
  BY <1>1, <1>5, RaiseKeepsPhotos DEF Provider!Stage, Provider!At, Provider!Advance
<1>6. CASE Provider!StagePhoto
  <2>1. answer = "none" /\ UNCHANGED strays
    BY <1>6 DEF Provider!StagePhoto, Provider!At
  <2>2. CASE Provider!Advance /\ photos' = photos + 1 /\ UNCHANGED lost
    BY <2>1, <2>2 DEF PhotosKept, Provider!Advance
  <2>3. CASE Provider!Raise("retryable") /\ UNCHANGED photos /\ lost' \in {lost, lost + 1}
    BY <2>1, <2>3, RaiseKeepsPhotos
  <2> QED
    BY <1>6, <2>2, <2>3 DEF Provider!StagePhoto
<1>7. CASE Provider!SubmitAnswered
  BY <1>1, <1>7 DEF Provider!SubmitAnswered, Provider!At
<1>8. CASE Provider!SubmitRefused
  BY <1>1, <1>8, RaiseKeepsPhotos DEF Provider!SubmitRefused, Provider!At, Provider!Advance
<1>9. CASE Provider!SubmitLost
  BY <1>9, RaiseKeepsPhotos DEF Provider!SubmitLost, Provider!AfterLost
<1>10. CASE Provider!DeleteStagedPhotos
  <2>1. PICK deleted \in 0..photos : /\ strays' = strays + (photos - deleted)
                                     /\ lost' = lost + (photos - deleted)
    BY <1>10 DEF Provider!DeleteStagedPhotos
  <2>2. photos - deleted \in Nat
    BY DEF PhotosKept
  <2>3. answer' = "retryable" /\ photos' = 0
    BY <1>10 DEF Provider!DeleteStagedPhotos
  <2> QED
    BY <2>1, <2>2, <2>3 DEF PhotosKept
<1>11. CASE Provider!Return
  BY <1>11 DEF Provider!Return, PhotosKept
<1>12. CASE Provider!Retry
  BY <1>12 DEF Provider!Retry, PhotosKept
<1>13. CASE UNCHANGED ProviderVars
  BY <1>13 DEF ProviderVars, PhotosKept
<1> QED
  BY <1>2, <1>3, <1>4, <1>5, <1>6, <1>7, <1>8, <1>9, <1>10, <1>11, <1>12, <1>13 DEF Provider!Next

(* A multi-photo post of any size, retried any number of times, leaves no  *)
(* photo on the page that the page had answered for.                       *)
THEOREM FailedPostsLeaveNoPhotos == ServicesSpec => []NoStrayPhotos
<1>1. ServicesInit => (service = "providers" => PhotosKept)
  BY DEF ServicesInit, Provider!Init, PhotosKept
<1>2. (service = "providers" => PhotosKept) /\ [ServicesNext]_allVars
        => (service = "providers" => PhotosKept)'
  BY OneServiceMoves, PhotosStayKept
<1>3. (service = "providers" => PhotosKept) => NoStrayPhotos
  BY DEF NoStrayPhotos, Provider!NoStrayPhotos, PhotosKept
<1> QED
  BY <1>1, <1>2, <1>3, PTL DEF ServicesSpec, allVars
-----------------------------------------------------------------------------
(* The inbox.  Of the comments no first import answers for, those not yet  *)
(* imported lie ahead of every cursor: the account's, those of the copies  *)
(* the cycles hold, and those they are about to write.  So a walk may be   *)
(* resumed from any of them, and finished by whoever comes last.           *)

Missing == {m \in comments : baseline <= m.at} \ imported

\* Nothing said before s is missing but in threads up to k.
Behind(N, k, s) == \A m \in N : m.at < s => m.thread <= k

SyncColumns == [deep_sweep_at : Nat, sweep : Nat, sweep_started : Nat,
                history : Nat, history_started : Nat]
SyncRun == [pc : {"idle", "plan", "poll", "history", "store", "mark"}, account : SyncColumns,
            since : Nat, deep : BOOLEAN, started : Nat,
            messages : SUBSET [thread : Nat, at : Nat], next : Nat]

SyncTypes ==
  /\ hour \in Nat \ {0}
  /\ comments \subseteq [thread : 1..hour, at : 1..hour]
  /\ newest \in 0..hour
  /\ baseline \in Nat
  /\ account \in SyncColumns
  /\ cycle \in [Cycles -> SyncRun]
  /\ \A c \in Cycles : cycle[c].messages \subseteq comments

\* What the columns say, of an account or of a copy of it.
ColumnsTrue(N, h, a) ==
  /\ a.deep_sweep_at <= h /\ a.sweep_started <= h /\ a.history_started <= h
  /\ Behind(N, 0, a.deep_sweep_at)
  /\ a.sweep = 0 <=> a.sweep_started = 0
  /\ Behind(N, a.sweep, a.sweep_started)

StartOf(kept, run) == IF kept # 0 THEN kept ELSE run.started

RunTrue(N, h, run) ==
  /\ run.pc # "idle" => ColumnsTrue(N, h, run.account)
  /\ run.pc \in {"poll", "history", "store", "mark"} =>
       /\ run.started \in 1..h
       /\ run.deep => run.since = run.account.deep_sweep_at /\ run.account.history = 0
  /\ run.pc = "history" => ~run.deep
  /\ run.pc = "store" /\ run.deep =>
       Behind(N \ run.messages, run.next, StartOf(run.account.sweep_started, run))
  /\ run.pc = "mark" /\ run.deep =>
       Behind(N, run.next, StartOf(run.account.sweep_started, run))

SyncInv ==
  /\ SyncTypes
  /\ ColumnsTrue(Missing, hour, account)
  /\ \A c \in Cycles : RunTrue(Missing, hour, cycle[c])

\* Past names the instants before the connection.
SyncLimits == Past # {} /\ \E n \in Nat : Past \subseteq 1..n

Latest(S) == Sync!Max(S)

LEMMA BoundedHasLatest ==
  ASSUME NEW n \in Nat, NEW S, S # {}, S \subseteq 0..n
  PROVE  Latest(S) \in S /\ \A x \in S : x <= Latest(S)
<1> DEFINE T == {n - x : x \in S}
<1>a. \A x \in S : x \in Nat /\ n - x \in Nat
  OBVIOUS
<1>1. T # {} /\ T \subseteq Nat
  BY <1>a
<1>2. PICK t \in T : \A y \in T : ~(<<y, t>> \in OpToRel(<, Nat))
  BY <1>1, WFMin, NatLessThanWellFounded
<1>3. \A y \in T : ~(y < t)
  BY <1>1, <1>2 DEF OpToRel
<1>4. PICK x \in S : t = n - x
  BY <1>2
<1>5. \A y \in S : x >= y
  <2> SUFFICES ASSUME NEW y \in S PROVE x >= y
    OBVIOUS
  <2>1. n - y \in T
    OBVIOUS
  <2>2. ~(n - y < n - x)
    BY <1>3, <1>4, <2>1
  <2>3. x \in Nat /\ y \in Nat
    BY <1>a, <1>4
  <2> QED
    BY <2>2, <2>3
<1>6. Latest(S) = CHOOSE z \in S : \A y \in S : z >= y
  BY Zenon DEF Latest, Sync!Max
<1>7. Latest(S) \in S /\ \A y \in S : Latest(S) >= y
  BY <1>5, <1>6
<1>8. \A y \in S : y \in Nat
  OBVIOUS
<1> QED
  BY <1>7, <1>8

\* Only what was said at this instant may be missing and was not.
Ages(N, h, N2, h2) ==
  /\ h \in Nat /\ h2 \in Nat /\ h <= h2
  /\ \A m \in N2 : m \in N \/ m.at = h

LEMMA BehindAges ==
  ASSUME NEW N, NEW h, NEW N2, NEW h2, Ages(N, h, N2, h2),
         NEW k \in Nat, NEW s \in Nat, s <= h, Behind(N, k, s)
  PROVE  Behind(N2, k, s)
  BY DEF Ages, Behind

LEMMA ColumnsAge ==
  ASSUME NEW N, NEW h, NEW N2, NEW h2, Ages(N, h, N2, h2),
         NEW a \in SyncColumns, ColumnsTrue(N, h, a)
  PROVE  ColumnsTrue(N2, h2, a)
<1>1. a.deep_sweep_at \in Nat /\ a.sweep \in Nat /\ a.sweep_started \in Nat /\ a.history_started \in Nat
  BY DEF SyncColumns
<1>2. Behind(N2, 0, a.deep_sweep_at) /\ Behind(N2, a.sweep, a.sweep_started)
  BY <1>1, BehindAges DEF ColumnsTrue
<1> QED
  BY <1>1, <1>2 DEF ColumnsTrue, Ages

LEMMA RunAges ==
  ASSUME NEW N, NEW h, NEW N2, NEW h2, Ages(N, h, N2, h2),
         NEW run \in SyncRun, RunTrue(N, h, run)
  PROVE  RunTrue(N2, h2, run)
<1>1. /\ run.account \in SyncColumns /\ run.started \in Nat /\ run.next \in Nat
      /\ run.account.sweep_started \in Nat
  BY DEF SyncRun, SyncColumns
<1>2. run.pc # "idle" => ColumnsTrue(N2, h2, run.account)
  BY <1>1, ColumnsAge DEF RunTrue
<1>3. run.pc \in {"poll", "history", "store", "mark"} => run.started \in 1..h2
  BY <1>1 DEF RunTrue, Ages
<1> DEFINE s == StartOf(run.account.sweep_started, run)
<1>4. run.pc \in {"store", "mark"} => s \in Nat /\ s <= h
  BY <1>1 DEF RunTrue, StartOf, ColumnsTrue, Ages
<1> HIDE DEF s
<1>5. ASSUME run.pc = "store", run.deep
      PROVE  Behind(N2 \ run.messages, run.next, s)
  <2>1. Ages(N \ run.messages, h, N2 \ run.messages, h2)
    BY DEF Ages
  <2> QED
    BY <1>1, <1>4, <1>5, <2>1, BehindAges DEF RunTrue, s
<1>6. ASSUME run.pc = "mark", run.deep
      PROVE  Behind(N2, run.next, s)
  BY <1>1, <1>4, <1>6, BehindAges DEF RunTrue, s
<1> QED
  BY <1>2, <1>3, <1>5, <1>6 DEF RunTrue, s

\* A step that ages what is missing and moves one cycle at most.
LEMMA SyncMoves ==
  ASSUME SyncInv, SyncTypes', Ages(Missing, hour, Missing', hour'),
         ColumnsTrue(Missing', hour', account'),
         NEW c \in Cycles, \A d \in Cycles \ {c} : cycle'[d] = cycle[d],
         RunTrue(Missing', hour', cycle'[c])
  PROVE  SyncInv'
<1>1. \A d \in Cycles : RunTrue(Missing', hour', cycle'[d])
  <2> SUFFICES ASSUME NEW d \in Cycles, d # c PROVE RunTrue(Missing', hour', cycle'[d])
    OBVIOUS
  <2>1. cycle[d] \in SyncRun /\ RunTrue(Missing, hour, cycle[d]) /\ cycle'[d] = cycle[d]
    BY DEF SyncInv, SyncTypes
  <2> QED
    BY <2>1, RunAges
<1> QED
  BY <1>1 DEF SyncInv

\* A step of the channel: no cycle moves and no column is written.
LEMMA SyncRests ==
  ASSUME SyncInv, SyncTypes', Ages(Missing, hour, Missing', hour'),
         UNCHANGED <<account, cycle>>
  PROVE  SyncInv'
<1>1. ColumnsTrue(Missing', hour', account')
  BY ColumnsAge DEF SyncInv, SyncTypes
<1>2. \A d \in Cycles : RunTrue(Missing', hour', cycle'[d])
  BY RunAges DEF SyncInv, SyncTypes
<1> QED
  BY <1>1, <1>2 DEF SyncInv

LEMMA SyncStarts ==
  ASSUME SyncLimits, Sync!Init
  PROVE  SyncInv
<1>1. PICK n \in Nat : Past \subseteq 1..n
  BY DEF SyncLimits
<1>2. Past \subseteq 0..n
  BY <1>1
<1>3. Latest(Past) \in Past /\ \A x \in Past : x <= Latest(Past)
  BY <1>2, BoundedHasLatest DEF SyncLimits
<1> DEFINE last == Latest(Past)
<1>a. last \in Past /\ \A x \in Past : x <= last
  BY <1>3
<1>5. hour = last + 1
  BY Zenon DEF Sync!Init, Latest
<1> HIDE DEF last
<1>4. last \in Nat /\ last >= 1 /\ \A x \in Past : x \in 1..last
  BY <1>1, <1>a
<1>6. comments \subseteq [thread : 1..hour, at : 1..hour]
  <2>1. PICK T \in SUBSET Past : comments = {[thread |-> t, at |-> t] : t \in T}
    BY DEF Sync!Init
  <2>2. \A t \in T : t \in 1..hour
    BY <1>4, <1>5
  <2> QED
    BY <2>1, <2>2
<1>7. Sync!Fresh \in SyncColumns /\ Sync!Idle \in SyncRun /\ Sync!Idle.pc = "idle"
      /\ Sync!Idle.messages = {}
  BY DEF Sync!Fresh, Sync!Idle, Sync!None, SyncColumns, SyncRun
<1>8. newest = 0 /\ baseline = 0 /\ account = Sync!Fresh /\ cycle = [c \in Cycles |-> Sync!Idle]
  BY DEF Sync!Init, Sync!None
<1>9. SyncTypes
  BY <1>4, <1>5, <1>6, <1>7, <1>8 DEF SyncTypes
<1>10. ColumnsTrue(Missing, hour, account)
  <2>1. /\ account.deep_sweep_at = 0 /\ account.sweep = 0
        /\ account.sweep_started = 0 /\ account.history_started = 0
    BY <1>8 DEF Sync!Fresh, Sync!None
  <2>2. Behind(Missing, 0, 0)
    BY <1>6 DEF Behind, Missing
  <2> QED
    BY <2>1, <2>2, <1>4, <1>5 DEF ColumnsTrue
<1>11. \A c \in Cycles : RunTrue(Missing, hour, cycle[c])
  BY <1>7, <1>8 DEF RunTrue
<1> QED
  BY <1>9, <1>10, <1>11 DEF SyncInv

LEMMA ChannelKeeps ==
  ASSUME SyncInv, Sync!Tick \/ Sync!Comment \/ Sync!Webhook \/ UNCHANGED SyncVars
  PROVE  SyncInv'
<1>0. SyncTypes
  BY DEF SyncInv
<1>1. CASE Sync!Tick
  <2>1. /\ hour' = hour + 1
        /\ UNCHANGED <<comments, imported, newest, account, cycle, baseline>>
    BY <1>1 DEF Sync!Tick
  <2>2. comments' \subseteq [thread : 1..hour', at : 1..hour'] /\ newest' \in 0..hour'
        /\ hour' \in Nat \ {0} /\ hour <= hour'
    BY <1>0, <2>1 DEF SyncTypes
  <2>3. SyncTypes'
    BY <1>0, <2>1, <2>2 DEF SyncTypes
  <2>4. Ages(Missing, hour, Missing', hour')
    BY <1>0, <2>1, <2>2 DEF Ages, Missing, SyncTypes
  <2> QED
    BY <2>1, <2>3, <2>4, SyncRests
<1>2. CASE Sync!Comment
  <2>1. PICK t \in {m.thread : m \in comments} \cup {hour} :
          comments' = comments \cup {[thread |-> t, at |-> hour]}
    BY <1>2 DEF Sync!Comment
  <2>2. UNCHANGED <<imported, newest, account, cycle, baseline, hour>>
    BY <1>2 DEF Sync!Comment
  <2>3. t \in 1..hour
    BY <1>0 DEF SyncTypes
  <2>4. comments' \subseteq [thread : 1..hour', at : 1..hour']
    BY <1>0, <2>1, <2>2, <2>3 DEF SyncTypes
  <2>5. SyncTypes'
    BY <1>0, <2>1, <2>2, <2>4 DEF SyncTypes
  <2>6. Ages(Missing, hour, Missing', hour')
    BY <1>0, <2>1, <2>2 DEF Ages, Missing, SyncTypes
  <2> QED
    BY <2>2, <2>5, <2>6, SyncRests
<1>3. CASE Sync!Webhook \/ UNCHANGED SyncVars
  <2>1. UNCHANGED <<comments, imported, account, cycle, baseline, hour>> /\ newest' \in {newest, hour}
    BY <1>3 DEF Sync!Webhook, SyncVars
  <2>2. SyncTypes'
    BY <1>0, <2>1 DEF SyncTypes
  <2>3. Ages(Missing, hour, Missing', hour')
    BY <1>0, <2>1 DEF Ages, Missing, SyncTypes
  <2> QED
    BY <2>1, <2>2, <2>3, SyncRests
<1> QED
  BY <1>1, <1>2, <1>3

\* A cycle that writes nothing but its own place.
LEMMA CycleTurns ==
  ASSUME SyncInv, NEW c \in Cycles, NEW run \in SyncRun,
         cycle' = [cycle EXCEPT ![c] = run],
         UNCHANGED <<comments, imported, newest, account, baseline, hour>>,
         run.messages \subseteq comments, RunTrue(Missing, hour, run)
  PROVE  SyncInv'
<1>1. cycle'[c] = run /\ \A d \in Cycles \ {c} : cycle'[d] = cycle[d]
  BY DEF SyncInv, SyncTypes
<1>2. SyncTypes'
  BY <1>1 DEF SyncInv, SyncTypes
<1>3. Missing' = Missing /\ hour' = hour
  BY DEF Missing
<1>4. Ages(Missing, hour, Missing', hour') /\ ColumnsTrue(Missing', hour', account')
  BY <1>3 DEF Ages, SyncInv, SyncTypes
<1> QED
  BY <1>1, <1>2, <1>3, <1>4, SyncMoves
\* The fields of a cycle's place, and how a step rewrites them.
LEMMA RunFields ==
  ASSUME SyncInv, NEW c \in Cycles
  PROVE  /\ cycle[c] \in SyncRun /\ cycle[c].account \in SyncColumns
         /\ cycle[c].messages \subseteq comments
         /\ RunTrue(Missing, hour, cycle[c])
         /\ account \in SyncColumns /\ ColumnsTrue(Missing, hour, account)
  BY DEF SyncInv, SyncTypes, SyncRun

LEMMA LoadedFields ==
  ASSUME NEW run \in SyncRun, NEW a \in SyncColumns
  PROVE  /\ [run EXCEPT !.pc = "plan", !.account = a] \in SyncRun
         /\ [run EXCEPT !.pc = "plan", !.account = a].pc = "plan"
         /\ [run EXCEPT !.pc = "plan", !.account = a].account = a
         /\ [run EXCEPT !.pc = "plan", !.account = a].messages = run.messages
  BY DEF SyncRun

LEMMA LoadKeeps ==
  ASSUME SyncInv, NEW c \in Cycles, Sync!LoadAccount(c)
  PROVE  SyncInv'
<1> DEFINE run == [Sync!Idle EXCEPT !.pc = "plan", !.account = account]
<1>1. Sync!Idle \in SyncRun /\ Sync!Idle.messages = {}
  BY DEF Sync!Idle, Sync!None, Sync!Fresh, SyncRun, SyncColumns
<1>2. run \in SyncRun /\ run.pc = "plan" /\ run.account = account /\ run.messages = {}
  BY <1>1, RunFields, LoadedFields
<1>3. /\ cycle' = [cycle EXCEPT ![c] = run]
      /\ UNCHANGED <<comments, imported, newest, account, baseline, hour>>
  BY DEF Sync!LoadAccount
<1> HIDE DEF run
<1>4. RunTrue(Missing, hour, run)
  BY <1>2, RunFields DEF RunTrue
<1> QED
  BY <1>2, <1>3, <1>4, CycleTurns

Planned(run, d, h, s) == [run EXCEPT !.pc = "poll", !.deep = d, !.started = h, !.since = s]

LEMMA PlannedFields ==
  ASSUME NEW run \in SyncRun, NEW d \in BOOLEAN, NEW h \in Nat, NEW s \in Nat
  PROVE  /\ Planned(run, d, h, s) \in SyncRun
         /\ Planned(run, d, h, s).pc = "poll"
         /\ Planned(run, d, h, s).account = run.account
         /\ Planned(run, d, h, s).messages = run.messages
         /\ Planned(run, d, h, s).deep = d
         /\ Planned(run, d, h, s).started = h
         /\ Planned(run, d, h, s).since = s
  BY DEF Planned, SyncRun

LEMMA PlannedKeeps ==
  ASSUME SyncInv, NEW c \in Cycles, cycle[c].pc = "plan", NEW d \in BOOLEAN, NEW s \in Nat,
         d => cycle[c].account.history = 0, d => s = cycle[c].account.deep_sweep_at,
         cycle' = [cycle EXCEPT ![c] = Planned(cycle[c], d, hour, s)],
         UNCHANGED <<comments, imported, newest, account, baseline, hour>>
  PROVE  SyncInv'
<1>1. cycle[c] \in SyncRun /\ cycle[c].messages \subseteq comments
      /\ ColumnsTrue(Missing, hour, cycle[c].account)
  BY RunFields DEF RunTrue
<1>2. hour \in Nat \ {0}
  BY DEF SyncInv, SyncTypes
<1> DEFINE run == Planned(cycle[c], d, hour, s)
<1>3. /\ run \in SyncRun /\ run.pc = "poll" /\ run.account = cycle[c].account /\ run.since = s
      /\ run.deep = d /\ run.started = hour /\ run.messages = cycle[c].messages
  BY <1>1, <1>2, PlannedFields
<1>4. cycle' = [cycle EXCEPT ![c] = run]
  OBVIOUS
<1> HIDE DEF run
<1>5. RunTrue(Missing, hour, run)
  BY <1>1, <1>2, <1>3 DEF RunTrue
<1> QED
  BY <1>1, <1>3, <1>4, <1>5, CycleTurns

LEMMA PlanKeeps ==
  ASSUME SyncInv, NEW c \in Cycles, Sync!Plan(c)
  PROVE  SyncInv'
<1>1. PICK slot \in BOOLEAN :
        LET deep == slot /\ Sync!DeepSweepDue(cycle[c].account)
        IN  cycle' = [cycle EXCEPT ![c].pc = "poll", ![c].deep = deep, ![c].started = hour,
                        ![c].since = Sync!Since(cycle[c].account, deep)]
  BY DEF Sync!Plan
<1> DEFINE d == slot /\ Sync!DeepSweepDue(cycle[c].account)
           s == Sync!Since(cycle[c].account, d)
<1>2. cycle' = [cycle EXCEPT ![c] = Planned(cycle[c], d, hour, s)]
  BY <1>1, Zenon DEF Planned
<1>3. d \in BOOLEAN
  BY DEF Sync!DeepSweepDue
<1>4. d => cycle[c].account.history = 0
  BY DEF Sync!DeepSweepDue, Sync!None
<1>5. cycle[c].account.deep_sweep_at \in Nat /\ newest \in Nat
  BY RunFields DEF SyncInv, SyncTypes, SyncColumns
<1>6. s \in Nat
  BY <1>5 DEF Sync!Since
<1>7. d => s = cycle[c].account.deep_sweep_at
  BY DEF Sync!Since
<1>8. cycle[c].pc = "plan" /\ UNCHANGED <<comments, imported, newest, account, baseline, hour>>
  BY DEF Sync!Plan
<1> HIDE DEF d, s
<1> QED
  BY <1>2, <1>3, <1>4, <1>6, <1>7, <1>8, PlannedKeeps

LEMMA CallFailsKeeps ==
  ASSUME SyncInv, NEW c \in Cycles, Sync!CallFails(c)
  PROVE  SyncInv'
<1>1. Sync!Idle \in SyncRun /\ Sync!Idle.messages = {} /\ RunTrue(Missing, hour, Sync!Idle)
  BY DEF Sync!Idle, Sync!None, Sync!Fresh, SyncRun, SyncColumns, RunTrue
<1> QED
  BY <1>1, CycleTurns DEF Sync!CallFails

\* A walk: the threads it asks for, reads, and leaves; and the one it would
\* read next.
AskedBy(token) == {t \in {m.thread : m \in comments} : token = 0 \/ t <= token}
StopsAt(cutoff, deep, t) == ~deep /\ cutoff # 0 /\ t + Lookback < cutoff
ReadBy(token, cutoff, deep) ==
  {t \in AskedBy(token) :
     LET above == {u \in AskedBy(token) : u > t}
     IN  /\ Sync!Cardinality(above) < IF deep THEN DeepPages ELSE CommentPages
         /\ \A u \in above : ~StopsAt(cutoff, deep, u)}
LeftBy(token, cutoff, deep) ==
  {t \in AskedBy(token) \ ReadBy(token, cutoff, deep) :
     \A u \in ReadBy(token, cutoff, deep) : ~StopsAt(cutoff, deep, u)}
NextOf(S) == IF S = {} THEN 0 ELSE Latest(S)

LEMMA WalkIs ==
  ASSUME NEW token, NEW cutoff, NEW deep
  PROVE  Sync!Walk(token, cutoff, deep)
           = [messages |-> {m \in comments : m.thread \in ReadBy(token, cutoff, deep) /\ m.at >= cutoff},
              next |-> NextOf(LeftBy(token, cutoff, deep))]
  BY Zenon DEF Sync!Walk, Sync!None, Latest, AskedBy, StopsAt, ReadBy, LeftBy, NextOf

LEMMA NextBounds ==
  ASSUME NEW n \in Nat, NEW S, S \subseteq 0..n
  PROVE  NextOf(S) \in Nat /\ \A x \in S : x <= NextOf(S) /\ x \in Nat
<1>1. \A x \in S : x \in Nat
  OBVIOUS
<1>2. CASE S = {}
  BY <1>2 DEF NextOf
<1>3. CASE S # {}
  <2>1. Latest(S) \in S /\ \A x \in S : x <= Latest(S)
    BY <1>3, BoundedHasLatest
  <2> QED
    BY <1>1, <1>3, <2>1 DEF NextOf
<1> QED
  BY <1>2, <1>3

LEMMA LeftBounds ==
  ASSUME SyncInv, NEW token, NEW cutoff, NEW deep
  PROVE  LeftBy(token, cutoff, deep) \subseteq 0..hour /\ hour \in Nat
<1>1. AskedBy(token) \subseteq 0..hour /\ hour \in Nat
  BY DEF AskedBy, SyncInv, SyncTypes
<1>2. LeftBy(token, cutoff, deep) \subseteq AskedBy(token)
  BY DEF LeftBy
<1> QED
  BY <1>1, <1>2

LEMMA WalkTypes ==
  ASSUME SyncInv, NEW token, NEW cutoff, NEW deep
  PROVE  /\ Sync!Walk(token, cutoff, deep).messages \subseteq comments
         /\ Sync!Walk(token, cutoff, deep).next \in Nat
  BY WalkIs, LeftBounds, NextBounds

\* A deep walk reads every asked thread beyond the one it would read next.
LEMMA DeepWalk ==
  ASSUME SyncInv, NEW token, NEW cutoff, NEW m \in comments,
         token = 0 \/ m.thread <= token, m.at >= cutoff,
         m.thread > Sync!Walk(token, cutoff, TRUE).next
  PROVE  m \in Sync!Walk(token, cutoff, TRUE).messages
<1>1. m.thread \in AskedBy(token)
  BY DEF AskedBy
<1>2. \A u : ~StopsAt(cutoff, TRUE, u)
  BY DEF StopsAt
<1>3. m.thread \notin ReadBy(token, cutoff, TRUE) => m.thread \in LeftBy(token, cutoff, TRUE)
  BY <1>1, <1>2 DEF LeftBy
<1>4. m.thread > NextOf(LeftBy(token, cutoff, TRUE))
  BY WalkIs
<1>5. m.thread \notin LeftBy(token, cutoff, TRUE)
  <2> DEFINE S == LeftBy(token, cutoff, TRUE)
  <2>1. S \subseteq 0..hour /\ hour \in Nat
    BY LeftBounds
  <2> HIDE DEF S
  <2>2. NextOf(S) \in Nat /\ \A x \in S : x <= NextOf(S) /\ x \in Nat
    BY <2>1, NextBounds
  <2>3. m.thread > NextOf(S)
    BY <1>4 DEF S
  <2>4. m.thread \notin S
    BY <2>2, <2>3
  <2> QED
    BY <2>4 DEF S
<1> QED
  BY <1>3, <1>5, WalkIs
Polled(run, M, k, p) == [run EXCEPT !.messages = M, !.next = k, !.pc = p]

LEMMA PolledFields ==
  ASSUME NEW run \in SyncRun, NEW M \in SUBSET [thread : Nat, at : Nat], NEW k \in Nat,
         NEW p \in {"history", "store"}
  PROVE  /\ Polled(run, M, k, p) \in SyncRun
         /\ Polled(run, M, k, p).pc = p
         /\ Polled(run, M, k, p).account = run.account
         /\ Polled(run, M, k, p).messages = M
         /\ Polled(run, M, k, p).next = k
         /\ Polled(run, M, k, p).deep = run.deep
         /\ Polled(run, M, k, p).started = run.started
         /\ Polled(run, M, k, p).since = run.since
  BY DEF Polled, SyncRun

\* A deep walk from the cursor leaves missing only what lies ahead of it.
LEMMA DeepPollIsSound ==
  ASSUME SyncInv, NEW run \in SyncRun, RunTrue(Missing, hour, run), run.pc = "poll", run.deep,
         NEW w, w = Sync!Walk(run.account.sweep, run.since, TRUE)
  PROVE  Behind(Missing \ w.messages, w.next, StartOf(run.account.sweep_started, run))
<1> DEFINE a == run.account
           s == StartOf(a.sweep_started, run)
<1>1. /\ a \in SyncColumns /\ a.sweep \in Nat /\ a.sweep_started \in Nat
      /\ ColumnsTrue(Missing, hour, a) /\ run.since = a.deep_sweep_at /\ w.next \in Nat
  BY WalkTypes DEF SyncRun, SyncColumns, RunTrue
<1> SUFFICES ASSUME NEW m \in Missing \ w.messages, m.at < s PROVE m.thread <= w.next
  BY DEF Behind
<1>2. m \in comments /\ m.at \in Nat /\ m.thread \in Nat /\ m.thread > 0
  BY DEF Missing, SyncInv, SyncTypes
<1>3. m.thread \in Nat /\ w.next \in Nat
  BY <1>1, <1>2
<1>4. ASSUME m.thread > w.next PROVE FALSE
  <2>1. CASE a.sweep # 0 /\ m.thread > a.sweep
    <3>1. s = a.sweep_started
      BY <1>1, <2>1 DEF StartOf, ColumnsTrue
    <3> QED
      BY <1>1, <1>2, <2>1, <3>1 DEF ColumnsTrue, Behind
  <2>2. CASE m.at < run.since
    BY <1>1, <1>2, <2>2 DEF ColumnsTrue, Behind
  <2>3. CASE (a.sweep = 0 \/ m.thread <= a.sweep) /\ m.at >= run.since
    BY <1>2, <1>4, <2>3, DeepWalk
  <2> QED
    BY <1>1, <1>2, <2>1, <2>2, <2>3 DEF SyncColumns
<1>5. ~(m.thread > w.next)
  BY <1>4
<1>6. \A x, y \in Nat : ~(x > y) => x <= y
  OBVIOUS
<1> QED
  BY <1>3, <1>5, <1>6

LEMMA PollKeeps ==
  ASSUME SyncInv, NEW c \in Cycles, Sync!Poll(c)
  PROVE  SyncInv'
<1> DEFINE old == cycle[c]
           token == IF old.deep THEN old.account.sweep ELSE 0
<1>1. PICK w \in Sync!Fetched(token, old.since, old.deep) :
        cycle' = [cycle EXCEPT ![c].messages = w.messages, ![c].next = w.next,
                    ![c].pc = IF old.account.history # 0 THEN "history" ELSE "store"]
  BY Zenon DEF Sync!Poll, Sync!None
<1>2. old \in SyncRun /\ old.account \in SyncColumns /\ RunTrue(Missing, hour, old) /\ old.pc = "poll"
  BY RunFields DEF Sync!Poll
<1> HIDE DEF token
<1>3. w.messages \subseteq comments /\ w.next \in Nat
  <2> DEFINE walk == Sync!Walk(token, old.since, old.deep)
  <2>1. walk.messages \subseteq comments /\ walk.next \in Nat
    BY WalkTypes
  <2>2. walk = [messages |-> walk.messages, next |-> walk.next]
    BY WalkIs
  <2>3. w = walk \/ \E N \in Sync!Embedded(walk.messages) : w = [walk EXCEPT !.messages = N]
    BY DEF Sync!Fetched
  <2> HIDE DEF walk
  <2>4. ASSUME NEW N \in Sync!Embedded(walk.messages), w = [walk EXCEPT !.messages = N]
        PROVE  w.messages \subseteq comments /\ w.next \in Nat
    BY <2>1, <2>2, <2>4 DEF Sync!Embedded
  <2> QED
    BY <2>1, <2>3, <2>4
<1>4. old.deep => w = Sync!Walk(token, old.since, TRUE)
  BY DEF Sync!Fetched
<1> DEFINE p == IF old.account.history # 0 THEN "history" ELSE "store"
           run == Polled(old, w.messages, w.next, p)
<1>5. cycle' = [cycle EXCEPT ![c] = run]
  BY <1>1, Zenon DEF Polled
<1>6. w.messages \in SUBSET [thread : Nat, at : Nat]
  BY <1>3 DEF SyncInv, SyncTypes
<1>7. p \in {"history", "store"} /\ (p = "history" => old.account.history # 0)
  OBVIOUS
<1>8. UNCHANGED <<comments, imported, newest, account, baseline, hour>>
  BY DEF Sync!Poll
<1>9. old.deep => Behind(Missing \ w.messages, w.next, StartOf(old.account.sweep_started, old))
  BY <1>2, <1>4, DeepPollIsSound DEF token
<1> HIDE DEF old, p
<1>10. /\ run \in SyncRun /\ run.pc = p /\ run.account = old.account /\ run.since = old.since
       /\ run.deep = old.deep /\ run.started = old.started /\ run.messages = w.messages
       /\ run.next = w.next
  BY <1>2, <1>3, <1>6, <1>7, PolledFields
<1> HIDE DEF run
<1>11. StartOf(old.account.sweep_started, run) = StartOf(old.account.sweep_started, old)
  BY <1>10 DEF StartOf
<1>12. RunTrue(Missing, hour, run)
  BY <1>2, <1>7, <1>9, <1>10, <1>11 DEF RunTrue
<1> QED
  BY <1>3, <1>5, <1>8, <1>10, <1>12, CycleTurns

LEMMA HistoryKeeps ==
  ASSUME SyncInv, NEW c \in Cycles, Sync!History(c)
  PROVE  SyncInv'
<1> DEFINE old == cycle[c]
           walk == Sync!Walk(old.account.history, 0, FALSE)
<1>1. /\ old \in SyncRun /\ old.account \in SyncColumns /\ RunTrue(Missing, hour, old)
      /\ old.pc = "history" /\ old.messages \subseteq comments
  BY RunFields DEF Sync!History
<1>2. \E M, k : /\ cycle' = [cycle EXCEPT ![c] = Polled(old, M, k, "store")]
                /\ M \subseteq comments /\ k \in Nat
  <2>1. walk.messages \subseteq comments /\ walk.next \in Nat
    BY WalkTypes
  <2>2. old.account.history \in Nat
    BY <1>1 DEF SyncColumns
  <2>3. CASE cycle' = [cycle EXCEPT ![c].messages = @ \cup walk.messages,
                                    ![c].next = walk.next, ![c].pc = "store"]
    <3> HIDE DEF walk
    <3>1. cycle' = [cycle EXCEPT ![c] = Polled(old, old.messages \cup walk.messages, walk.next, "store")]
      BY <2>3, Zenon DEF Polled
    <3> QED
      BY <1>1, <2>1, <3>1
  <2>4. CASE cycle' = [cycle EXCEPT ![c].next = old.account.history, ![c].pc = "store"]
    <3>1. cycle' = [cycle EXCEPT ![c] = [old EXCEPT !.next = old.account.history, !.pc = "store"]]
      BY <2>4, Zenon
    <3>2. [old EXCEPT !.next = old.account.history, !.pc = "store"]
            = Polled(old, old.messages, old.account.history, "store")
      BY <1>1 DEF Polled, SyncRun
    <3> QED
      BY <1>1, <2>2, <3>1, <3>2
  <2> QED
    BY <2>3, <2>4 DEF Sync!History, Sync!None
<1>3. PICK M, k : /\ cycle' = [cycle EXCEPT ![c] = Polled(old, M, k, "store")]
                  /\ M \subseteq comments /\ k \in Nat
  BY <1>2
<1>4. M \in SUBSET [thread : Nat, at : Nat]
  BY <1>3 DEF SyncInv, SyncTypes
<1>5. UNCHANGED <<comments, imported, newest, account, baseline, hour>>
  BY DEF Sync!History
<1> DEFINE run == Polled(old, M, k, "store")
<1>6. cycle' = [cycle EXCEPT ![c] = run]
  BY <1>3
<1> HIDE DEF old
<1>7. /\ run \in SyncRun /\ run.pc = "store" /\ run.account = old.account
      /\ run.deep = old.deep /\ run.started = old.started /\ run.messages = M
  BY <1>1, <1>3, <1>4, PolledFields
<1> HIDE DEF run
<1>8. RunTrue(Missing, hour, run)
  BY <1>1, <1>7 DEF RunTrue
<1> QED
  BY <1>3, <1>5, <1>6, <1>7, <1>8, CycleTurns
\* What is stored was on the channel, and is missing no longer.
LEMMA ImportKeeps ==
  ASSUME SyncInv, NEW c \in Cycles, NEW M, M \subseteq cycle[c].messages, Sync!Import(M),
         NEW run \in SyncRun, run.messages \subseteq comments,
         cycle' = [cycle EXCEPT ![c] = run],
         UNCHANGED <<comments, account, baseline, hour>>,
         RunTrue(Missing \ M, hour, run)
  PROVE  SyncInv'
<1>1. cycle'[c] = run /\ \A d \in Cycles \ {c} : cycle'[d] = cycle[d]
  BY DEF SyncInv, SyncTypes
<1>2. newest' \in 0..hour
  <2>1. newest' = Latest({newest} \cup {m.at : m \in M})
    BY Zenon DEF Sync!Import, Latest
  <2>2. {newest} \cup {m.at : m \in M} \subseteq 0..hour /\ hour \in Nat
    BY RunFields DEF SyncInv, SyncTypes
  <2>3. {newest} \cup {m.at : m \in M} # {}
    OBVIOUS
  <2> QED
    BY <2>1, <2>2, <2>3, BoundedHasLatest
<1>3. SyncTypes'
  BY <1>1, <1>2 DEF SyncInv, SyncTypes
<1>4. Missing' = Missing \ M /\ hour' = hour
  BY DEF Missing, Sync!Import
<1>5. Ages(Missing, hour, Missing', hour')
  BY <1>4 DEF Ages, SyncInv, SyncTypes
<1>6. ColumnsTrue(Missing', hour', account')
  BY <1>5, ColumnsAge, RunFields
<1> QED
  BY <1>1, <1>3, <1>4, <1>5, <1>6, SyncMoves

LEMMA MarkingFields ==
  ASSUME NEW run \in SyncRun
  PROVE  /\ [run EXCEPT !.pc = "mark"] \in SyncRun
         /\ [run EXCEPT !.pc = "mark"].pc = "mark"
         /\ [run EXCEPT !.pc = "mark"].account = run.account
         /\ [run EXCEPT !.pc = "mark"].messages = run.messages
         /\ [run EXCEPT !.pc = "mark"].next = run.next
         /\ [run EXCEPT !.pc = "mark"].deep = run.deep
         /\ [run EXCEPT !.pc = "mark"].started = run.started
         /\ [run EXCEPT !.pc = "mark"].since = run.since
  BY DEF SyncRun

LEMMA IdleIsTrue ==
  ASSUME NEW N, NEW h
  PROVE  Sync!Idle \in SyncRun /\ Sync!Idle.messages = {} /\ RunTrue(N, h, Sync!Idle)
  BY DEF Sync!Idle, Sync!None, Sync!Fresh, SyncRun, SyncColumns, RunTrue

LEMMA StoreKeeps ==
  ASSUME SyncInv, NEW c \in Cycles, Sync!Store(c) \/ Sync!StoreSome(c)
  PROVE  SyncInv'
<1>1. CASE Sync!Store(c)
  <2> DEFINE run == [cycle[c] EXCEPT !.pc = "mark"]
             N == Missing \ cycle[c].messages
  <2>1. /\ cycle[c] \in SyncRun /\ cycle[c].account \in SyncColumns
        /\ cycle[c].messages \subseteq comments
        /\ RunTrue(Missing, hour, cycle[c]) /\ cycle[c].pc = "store"
    BY <1>1, RunFields DEF Sync!Store
  <2>2. /\ run \in SyncRun /\ run.pc = "mark" /\ run.account = cycle[c].account
        /\ run.messages = cycle[c].messages /\ run.next = cycle[c].next
        /\ run.deep = cycle[c].deep /\ run.started = cycle[c].started /\ run.since = cycle[c].since
    BY <2>1, MarkingFields
  <2>3. cycle' = [cycle EXCEPT ![c] = run]
    BY <1>1, Zenon DEF Sync!Store
  <2>4. Ages(Missing, hour, N, hour)
    BY DEF Ages, SyncInv, SyncTypes
  <2>5. ColumnsTrue(N, hour, cycle[c].account)
    BY <2>1, <2>4, ColumnsAge DEF RunTrue
  <2> HIDE DEF run
  <2>6. StartOf(run.account.sweep_started, run) = StartOf(cycle[c].account.sweep_started, cycle[c])
    BY <2>2 DEF StartOf
  <2>7. RunTrue(N, hour, run)
    BY <2>1, <2>2, <2>5, <2>6 DEF RunTrue
  <2>8. Sync!Import(cycle[c].messages) /\ UNCHANGED <<comments, account, baseline, hour>>
    BY <1>1 DEF Sync!Store
  <2> QED
    BY <2>1, <2>2, <2>3, <2>7, <2>8, ImportKeeps
<1>2. CASE Sync!StoreSome(c)
  <2>1. PICK M \in SUBSET cycle[c].messages : Sync!Import(M)
    BY <1>2 DEF Sync!StoreSome
  <2>2. cycle' = [cycle EXCEPT ![c] = Sync!Idle] /\ UNCHANGED <<comments, account, baseline, hour>>
    BY <1>2 DEF Sync!StoreSome
  <2> QED
    BY <2>1, <2>2, IdleIsTrue, ImportKeeps
<1> QED
  BY <1>1, <1>2
\* What a finished walk, or one to be resumed, makes of the columns.
Swept(a, k, s) ==
  [a EXCEPT !.sweep = k,
            !.sweep_started = IF k = 0 THEN 0 ELSE s,
            !.deep_sweep_at = IF k = 0 THEN s ELSE @]
Walked(a, k, s) ==
  [a EXCEPT !.history = k,
            !.history_started = IF k = 0 THEN 0 ELSE s,
            !.deep_sweep_at = IF k = 0 THEN s ELSE @]

LEMMA SweptFields ==
  ASSUME NEW a \in SyncColumns, NEW k \in Nat, NEW s \in Nat
  PROVE  /\ Swept(a, k, s) \in SyncColumns
         /\ Swept(a, k, s).sweep = k
         /\ Swept(a, k, s).sweep_started = IF k = 0 THEN 0 ELSE s
         /\ Swept(a, k, s).deep_sweep_at = IF k = 0 THEN s ELSE a.deep_sweep_at
         /\ Swept(a, k, s).history_started = a.history_started
  BY DEF Swept, SyncColumns

LEMMA WalkedFields ==
  ASSUME NEW a \in SyncColumns, NEW k \in Nat, NEW s \in Nat
  PROVE  /\ Walked(a, k, s) \in SyncColumns
         /\ Walked(a, k, s).sweep = a.sweep
         /\ Walked(a, k, s).sweep_started = a.sweep_started
         /\ Walked(a, k, s).deep_sweep_at = IF k = 0 THEN s ELSE a.deep_sweep_at
         /\ Walked(a, k, s).history_started = IF k = 0 THEN 0 ELSE s
  BY DEF Walked, SyncColumns

\* A sweep is finished, or resumed, by whichever cycle comes last.
LEMMA SweptIsTrue ==
  ASSUME NEW N, \A m \in N : m.at \in Nat,
         NEW h \in Nat, NEW a \in SyncColumns, ColumnsTrue(N, h, a),
         NEW k \in Nat, NEW s \in Nat \ {0}, s <= h, Behind(N, k, s)
  PROVE  ColumnsTrue(N, h, Swept(a, k, s))
<1> DEFINE b == Swept(a, k, s)
<1>1. /\ b.sweep = k /\ b.sweep_started = (IF k = 0 THEN 0 ELSE s)
      /\ b.deep_sweep_at = (IF k = 0 THEN s ELSE a.deep_sweep_at)
      /\ b.history_started = a.history_started
  BY SweptFields
<1> HIDE DEF b
<1>2. CASE k = 0
  <2>1. Behind(N, 0, 0)
    BY DEF Behind
  <2> QED
    BY <1>1, <1>2, <2>1 DEF ColumnsTrue, b
<1>3. CASE k # 0
  BY <1>1, <1>3 DEF ColumnsTrue, b
<1> QED
  BY <1>2, <1>3

\* The first import writes no sweep; finished, it raises the baseline to the
\* time it gives the account, so that nothing earlier is missing.
LEMMA WalkedIsTrue ==
  ASSUME NEW N, NEW h \in Nat, NEW a \in SyncColumns, ColumnsTrue(N, h, a),
         NEW k \in Nat, NEW s \in Nat \ {0}, s <= h,
         \A m \in N : m.at \in Nat /\ (k = 0 => m.at >= s)
  PROVE  ColumnsTrue(N, h, Walked(a, k, s))
<1> DEFINE b == Walked(a, k, s)
<1>1. /\ b.sweep = a.sweep /\ b.sweep_started = a.sweep_started
      /\ b.deep_sweep_at = (IF k = 0 THEN s ELSE a.deep_sweep_at)
      /\ b.history_started = (IF k = 0 THEN 0 ELSE s)
  BY WalkedFields
<1> HIDE DEF b
<1>2. k = 0 => Behind(N, 0, s)
  BY DEF Behind
<1> QED
  BY <1>1, <1>2 DEF ColumnsTrue, b

LEMMA MarkKeeps ==
  ASSUME SyncInv, NEW c \in Cycles, Sync!Mark(c)
  PROVE  SyncInv'
<1> DEFINE old == cycle[c]
           a == old.account
           k == old.next
<1>1. /\ old \in SyncRun /\ a \in SyncColumns /\ k \in Nat /\ old.started \in 1..hour
      /\ RunTrue(Missing, hour, old) /\ old.pc = "mark" /\ ColumnsTrue(Missing, hour, a)
      /\ hour \in Nat \ {0} /\ account \in SyncColumns /\ ColumnsTrue(Missing, hour, account)
      /\ baseline \in Nat
  BY RunFields DEF Sync!Mark, RunTrue, SyncRun, SyncInv, SyncTypes
<1>2. /\ account' = Sync!Marked(c)
      /\ baseline' = IF Sync!FirstImportEnds(c) THEN Latest({baseline, account'.deep_sweep_at}) ELSE baseline
      /\ cycle' = [cycle EXCEPT ![c] = Sync!Idle]
      /\ UNCHANGED <<comments, imported, newest, hour>>
  BY Zenon DEF Sync!Mark, Latest
<1> DEFINE sweep == StartOf(a.sweep_started, old)
           walk == StartOf(a.history_started, old)
<1>3. sweep \in Nat \ {0} /\ sweep <= hour /\ walk \in Nat \ {0} /\ walk <= hour
  BY <1>1 DEF StartOf, ColumnsTrue, SyncColumns
<1>4. account' = IF old.deep THEN Swept(account, k, sweep)
                 ELSE IF a.deep_sweep_at = 0 THEN Walked(account, k, walk) ELSE account
  BY <1>2, Zenon DEF Sync!Marked, Sync!Start, Sync!Finished, Sync!None, StartOf, Swept, Walked
<1>5. old.deep => Behind(Missing, k, sweep)
  BY <1>1 DEF RunTrue
<1>6. Sync!FirstImportEnds(c) <=> ~old.deep /\ a.deep_sweep_at = 0 /\ k = 0
  BY DEF Sync!FirstImportEnds, Sync!None
<1> HIDE DEF old, a, k, sweep, walk
<1>7. account' \in SyncColumns
  BY <1>1, <1>3, <1>4, SweptFields, WalkedFields
<1>8. /\ baseline' \in Nat /\ baseline <= baseline'
      /\ Sync!FirstImportEnds(c) => account'.deep_sweep_at <= baseline'
  <2>1. account'.deep_sweep_at \in Nat
    BY <1>7 DEF SyncColumns
  <2> DEFINE S == {baseline, account'.deep_sweep_at}
  <2>2. \E n \in Nat : S \subseteq 0..n
    <3>1. S \subseteq 0..(baseline + account'.deep_sweep_at) /\ baseline + account'.deep_sweep_at \in Nat
      BY <1>1, <2>1
    <3> QED
      BY <3>1
  <2>3. Latest(S) \in S /\ \A x \in S : x <= Latest(S)
    BY <2>2, BoundedHasLatest
  <2> HIDE DEF S
  <2>4. CASE Sync!FirstImportEnds(c)
    <3>1. baseline' = Latest(S)
      BY <1>2, <2>4 DEF S
    <3> QED
      BY <1>1, <2>1, <2>3, <3>1 DEF S
  <2> QED
    BY <1>1, <1>2, <2>4
<1>9. /\ cycle'[c] = Sync!Idle
      /\ \A d \in Cycles \ {c} : cycle'[d] = cycle[d]
  BY <1>2 DEF SyncInv, SyncTypes
<1>10. SyncTypes'
  BY <1>2, <1>7, <1>8, <1>9, IdleIsTrue DEF SyncInv, SyncTypes
<1>11. /\ Missing' \subseteq Missing
       /\ \A m \in Missing' : m.at \in Nat /\ m.at >= baseline'
  BY <1>1, <1>2, <1>8 DEF Missing, SyncInv, SyncTypes
<1>12. Ages(Missing, hour, Missing', hour')
  BY <1>1, <1>2, <1>11 DEF Ages
<1>13. ColumnsTrue(Missing', hour, account)
  BY <1>1, <1>2, <1>12, ColumnsAge
<1>14. ColumnsTrue(Missing', hour, account')
  <2>1. CASE old.deep
    <3>1. Behind(Missing', k, sweep)
      BY <1>1, <1>3, <1>5, <1>12, <2>1, BehindAges
    <3>2. account' = Swept(account, k, sweep)
      BY <1>4, <2>1
    <3> QED
      BY <1>1, <1>3, <1>11, <1>13, <3>1, <3>2, SweptIsTrue
  <2>2. CASE ~old.deep /\ a.deep_sweep_at = 0
    <3>1. account' = Walked(account, k, walk)
      BY <1>4, <2>2
    <3>a. account'.deep_sweep_at = IF k = 0 THEN walk ELSE account.deep_sweep_at
      <4>1. account \in SyncColumns /\ k \in Nat /\ walk \in Nat
        BY <1>1, <1>3
      <4> QED
        BY <3>1, <4>1, WalkedFields, Zenon
    <3>2. k = 0 => walk <= baseline'
      BY <1>6, <1>8, <2>2, <3>a
    <3>3. \A m \in Missing' : m.at \in Nat /\ (k = 0 => m.at >= walk)
      BY <1>3, <1>8, <1>11, <3>2
    <3> QED
      BY <1>1, <1>3, <1>13, <3>1, <3>3, WalkedIsTrue
  <2>3. CASE ~old.deep /\ a.deep_sweep_at # 0
    BY <1>4, <1>13, <2>3
  <2> QED
    BY <2>1, <2>2, <2>3
<1>15. hour' = hour
  BY <1>2
<1> QED
  BY <1>9, <1>10, <1>12, <1>14, <1>15, IdleIsTrue, SyncMoves

LEMMA SyncKeeps ==
  ASSUME SyncInv, Sync!Next \/ UNCHANGED SyncVars
  PROVE  SyncInv'
<1>1. CASE Sync!Tick \/ Sync!Comment \/ Sync!Webhook \/ UNCHANGED SyncVars
  BY <1>1, ChannelKeeps
<1>2. ASSUME NEW c \in Cycles,
             \/ Sync!LoadAccount(c) \/ Sync!Plan(c) \/ Sync!Poll(c) \/ Sync!History(c)
             \/ Sync!CallFails(c) \/ Sync!Store(c) \/ Sync!StoreSome(c) \/ Sync!Mark(c)
      PROVE  SyncInv'
  BY <1>2, LoadKeeps, PlanKeeps, PollKeeps, HistoryKeeps, CallFailsKeeps, StoreKeeps, MarkKeeps
<1> QED
  BY <1>1, <1>2 DEF Sync!Next

(* Every comment older than a finished sweep is in the inbox, but for what *)
(* the first import answers for, however the walk was cut into calls,      *)
(* whatever arrived meanwhile, and for any number of cycles that overlap,  *)
(* fail or die (inbox/tasks.py): no walk that finishes leaves a hole that  *)
(* later sweeps would not look at.                                         *)
THEOREM SweepsLeaveNoHole ==
  ASSUME SyncLimits
  PROVE  ServicesSpec => []SweptHistoryIsComplete
<1>1. ServicesInit => (service = "inbox" => SyncInv)
  BY SyncStarts DEF ServicesInit
<1>2. (service = "inbox" => SyncInv) /\ [ServicesNext]_allVars => (service = "inbox" => SyncInv)'
  BY OneServiceMoves, SyncKeeps
<1>3. (service = "inbox" => SyncInv) => SweptHistoryIsComplete
  <2> SUFFICES ASSUME SyncInv PROVE Sync!SweptHistoryIsComplete
    BY DEF SweptHistoryIsComplete
  <2>1. Behind(Missing, 0, account.deep_sweep_at)
    BY DEF SyncInv, ColumnsTrue
  <2>2. \A m \in Missing : m.thread > 0 /\ m.thread \in Nat
    BY DEF Missing, SyncInv, SyncTypes
  <2>3. \A m \in Missing : ~(m.at < account.deep_sweep_at)
    BY <2>1, <2>2 DEF Behind
  <2> QED
    BY <2>3 DEF Missing, Sync!SweptHistoryIsComplete
<1> QED
  BY <1>1, <1>2, <1>3, PTL DEF ServicesSpec, allVars

-----------------------------------------------------------------------------
(* What the engine is promised by a provider's steps.                      *)

Preparations == {"check", "read", "tryread", "stage", "stageinit", "photo", "poll"}
Steps == Preparations \cup Provider!Submissions

\* Steps that put nothing up, whatever becomes of them.
Preparing(s) == s \in Seq(Preparations)

\* After a submission nothing raises, and a second address is only another
\* address for the same submission.
Promising(s) ==
  /\ s \in Seq(Steps)
  /\ \E i \in 1..Len(s) : s[i] \in Provider!Submissions
  /\ \A i, j \in 1..Len(s) : (i < j /\ s[i] \in Provider!Submissions) =>
       IF s[i] = "either" THEN s[j] = "either" ELSE s[j] = "tryread"

LEMMA PreparationsSubmitNothing ==
  Preparations \cap Provider!Submissions = {} /\ Preparations \subseteq Steps
  BY DEF Preparations, Steps, Provider!Submissions

LEMMA PreparingInTurn ==
  ASSUME NEW s, NEW t, Preparing(s), Preparing(t)
  PROVE  Preparing(s \o t)
  BY DEF Preparing

LEMMA PromisingAtLast ==
  ASSUME NEW s, NEW t, Preparing(s), Promising(t)
  PROVE  Promising(s \o t)
<1> DEFINE u == s \o t
<1>1. /\ s \in Seq(Steps) /\ t \in Seq(Steps) /\ u \in Seq(Steps)
      /\ Len(u) = Len(s) + Len(t) /\ Len(s) \in Nat /\ Len(t) \in Nat
  BY PreparationsSubmitNothing DEF Preparing, Promising
<1>2. \A i \in 1..Len(u) : u[i] = IF i <= Len(s) THEN s[i] ELSE t[i - Len(s)]
  BY <1>1
<1>3. \A i \in 1..Len(s) : s[i] \notin Provider!Submissions
  BY PreparationsSubmitNothing DEF Preparing
<1> HIDE DEF u
<1>4. \E i \in 1..Len(u) : u[i] \in Provider!Submissions
  <2>1. PICK i \in 1..Len(t) : t[i] \in Provider!Submissions
    BY DEF Promising
  <2>2. i + Len(s) \in 1..Len(u) /\ ~(i + Len(s) <= Len(s)) /\ (i + Len(s)) - Len(s) = i
    BY <1>1
  <2>3. u[i + Len(s)] = t[i]
    BY <1>2, <2>2
  <2> QED
    BY <2>1, <2>2, <2>3, Zenon
<1>5. ASSUME NEW i \in 1..Len(u), NEW j \in 1..Len(u), i < j, u[i] \in Provider!Submissions
      PROVE  IF u[i] = "either" THEN u[j] = "either" ELSE u[j] = "tryread"
  <2>1. ~(i <= Len(s)) /\ ~(j <= Len(s))
    <3>1. i <= Len(s) => i \in 1..Len(s) /\ u[i] = s[i]
      BY <1>1, <1>2
    <3>2. ~(i <= Len(s))
      BY <1>3, <1>5, <3>1
    <3> QED
      BY <1>1, <1>5, <3>2
  <2>2. i - Len(s) \in 1..Len(t) /\ j - Len(s) \in 1..Len(t) /\ i - Len(s) < j - Len(s)
    BY <1>1, <1>5, <2>1
  <2>3. u[i] = t[i - Len(s)] /\ u[j] = t[j - Len(s)]
    BY <1>2, <2>1
  <2> QED
    BY <1>5, <2>2, <2>3 DEF Promising
<1> QED
  BY <1>1, <1>4, <1>5 DEF Promising, u

LEMMA EachPrepares ==
  ASSUME Items \in Nat
  PROVE  /\ Preparing(Provider!Each(<<"stage">>))
         /\ Preparing(Provider!Each(<<"photo">>))
         /\ Preparing(Provider!Each(<<"stage", "poll">>))
<1>1. /\ Len(<<"stage">>) = 1 /\ Len(<<"photo">>) = 1 /\ Len(<<"stage", "poll">>) = 2
      /\ Items * 1 \in Nat /\ Items * 2 \in Nat
  OBVIOUS
<1>2. /\ \A i \in 1..Items * 1 : 1 + ((i - 1) % 1) = 1
      /\ \A i \in 1..Items * 2 : 1 + ((i - 1) % 2) \in {1, 2}
  OBVIOUS
<1>3. \A k \in {1, 2} : <<"stage", "poll">>[k] \in Preparations
  BY DEF Preparations
<1>4. <<"stage">>[1] \in Preparations /\ <<"photo">>[1] \in Preparations
  BY DEF Preparations
<1>5. Preparing(Provider!Each(<<"stage">>))
  BY <1>1, <1>2, <1>4 DEF Preparing, Provider!Each
<1>6. Preparing(Provider!Each(<<"photo">>))
  BY <1>1, <1>2, <1>4 DEF Preparing, Provider!Each
<1>7. Preparing(Provider!Each(<<"stage", "poll">>))
  BY <1>1, <1>2, <1>3 DEF Preparing, Provider!Each
<1> QED
  BY <1>5, <1>6, <1>7

LEMMA EachPromises ==
  ASSUME Items \in Nat \ {0}
  PROVE  Promising(Provider!Each(<<"either">>))
<1> DEFINE s == Provider!Each(<<"either">>)
<1>1. s = [i \in 1..Items |-> "either"]
  <2>1. Len(<<"either">>) = 1 /\ Items * 1 = Items /\ <<"either">>[1] = "either"
    OBVIOUS
  <2>2. \A i \in 1..Items : 1 + ((i - 1) % 1) = 1
    OBVIOUS
  <2> QED
    BY <2>1, <2>2 DEF Provider!Each
<1>2. "either" \in Steps /\ "either" \in Provider!Submissions
  BY DEF Steps, Provider!Submissions
<1> HIDE DEF s
<1>3. s \in Seq(Steps) /\ Len(s) = Items
  BY <1>1, <1>2
<1> QED
  BY <1>1, <1>2, <1>3 DEF Promising, s

\* The posts and comments whose steps do not depend on the attachments.
LEMMA FixedPlansPromise ==
  /\ Preparing(Provider!Dispatch)
  /\ Promising(Provider!FacebookText)
  /\ Promising(Provider!FacebookPhoto)
  /\ Promising(Provider!FacebookVideo)
  /\ Promising(Provider!FacebookReel)
  /\ Promising(Provider!InstagramSingle)
  /\ Promising(Provider!InstagramComment)
  /\ Promising(Provider!InstagramLoginSingle)
  /\ Promising(Provider!ThreadsText)
  /\ Promising(Provider!ThreadsMedia)
  /\ Promising(Provider!ThreadsComment)
  /\ Promising(Provider!TikTokPull)
  /\ Promising(Provider!TikTokFile)
  /\ Promising(Provider!YouTubeVideo)
  /\ Promising(Provider!YouTubeComment)
  /\ Promising(Provider!LinkedInText)
  /\ Promising(Provider!LinkedInImage)
  /\ Promising(Provider!LinkedInArticle)
  /\ Promising(Provider!LinkedInPoll)
  /\ Promising(Provider!LinkedInComment)
  /\ Promising(Provider!MastodonComment)
  /\ Promising(Provider!PinterestImage)
  /\ Promising(Provider!PinterestVideo)
  /\ Promising(Provider!DevtoArticle)
  /\ Promising(Provider!GoogleBusinessPost)
<1> USE DEF Steps, Preparations, Provider!Submissions
<1>0. Preparing(Provider!Dispatch)
  BY DEF Preparing, Provider!Dispatch
<1>1. /\ Promising(Provider!FacebookText)
      /\ Promising(Provider!FacebookPhoto)
      /\ Promising(Provider!FacebookVideo)
      /\ Promising(Provider!FacebookReel)
      /\ Promising(Provider!InstagramSingle)
      /\ Promising(Provider!InstagramComment)
  BY DEF Promising, Provider!FacebookText, Provider!FacebookPhoto,
         Provider!FacebookVideo, Provider!FacebookReel,
         Provider!InstagramSingle, Provider!InstagramComment
<1>2. /\ Promising(Provider!InstagramLoginSingle)
      /\ Promising(Provider!ThreadsText)
      /\ Promising(Provider!ThreadsMedia)
      /\ Promising(Provider!ThreadsComment)
      /\ Promising(Provider!TikTokPull)
      /\ Promising(Provider!TikTokFile)
  BY DEF Promising, Provider!InstagramLoginSingle, Provider!ThreadsText,
         Provider!ThreadsMedia, Provider!ThreadsComment,
         Provider!TikTokPull, Provider!TikTokFile
<1>3. /\ Promising(Provider!YouTubeVideo)
      /\ Promising(Provider!YouTubeComment)
      /\ Promising(Provider!LinkedInText)
      /\ Promising(Provider!LinkedInImage)
      /\ Promising(Provider!LinkedInArticle)
      /\ Promising(Provider!LinkedInPoll)
  BY DEF Promising, Provider!YouTubeVideo, Provider!YouTubeComment,
         Provider!LinkedInText, Provider!LinkedInImage,
         Provider!LinkedInArticle, Provider!LinkedInPoll
<1>4. /\ Promising(Provider!LinkedInComment)
      /\ Promising(Provider!MastodonComment)
      /\ Promising(Provider!PinterestImage)
      /\ Promising(Provider!PinterestVideo)
      /\ Promising(Provider!DevtoArticle)
      /\ Promising(Provider!GoogleBusinessPost)
  BY DEF Promising, Provider!LinkedInComment, Provider!MastodonComment,
         Provider!PinterestImage, Provider!PinterestVideo,
         Provider!DevtoArticle, Provider!GoogleBusinessPost
<1> QED
  BY <1>0, <1>1, <1>2, <1>3, <1>4

\* And those with as many steps as there are attachments.
LEMMA RepeatingPlansPromise ==
  ASSUME Items \in Nat \ {0}
  PROVE  /\ Promising(Provider!FacebookMultiPhoto)
         /\ Promising(Provider!FacebookComment)
         /\ Promising(Provider!InstagramCarousel)
         /\ Promising(Provider!InstagramLoginCarousel)
         /\ Promising(Provider!ThreadsCarousel)
         /\ Promising(Provider!LinkedInVideo)
         /\ Promising(Provider!BlueskyPost)
         /\ Promising(Provider!MastodonPost)
<1>1. /\ Preparing(<<"check">>) /\ Preparing(<<"check", "read">>) /\ Preparing(<<"read">>)
      /\ Preparing(<<"read", "read", "stage">>) /\ Preparing(<<"check", "read", "tryread">>)
  BY DEF Preparing, Preparations
<1>2. Promising(<<"submit">>) /\ Promising(<<"submitid">>) /\ Promising(<<"stage", "poll", "submit">>)
  BY DEF Promising, Steps, Preparations, Provider!Submissions
<1>3. /\ Preparing(Provider!Each(<<"stage">>)) /\ Preparing(Provider!Each(<<"photo">>))
      /\ Preparing(Provider!Each(<<"stage", "poll">>))
  BY EachPrepares
<1> QED
  BY <1>1, <1>2, <1>3, EachPromises, PreparingInTurn, PromisingAtLast
  DEF Provider!FacebookMultiPhoto, Provider!FacebookComment, Provider!InstagramCarousel,
      Provider!InstagramLoginCarousel, Provider!ThreadsCarousel, Provider!LinkedInVideo,
      Provider!BlueskyPost, Provider!MastodonPost

\* So every call starts on a plan that keeps the promise, whatever it posts.
LEMMA CallsStartPromising ==
  ASSUME Items \in Nat \ {0},
         plan \in {Provider!Dispatch \o p : p \in Provider!PostPlans} \cup Provider!CommentPlans
  PROVE  Promising(plan)
<1>1. \A p \in Provider!PostPlans : Promising(p)
  BY FixedPlansPromise, RepeatingPlansPromise DEF Provider!PostPlans
<1>2. \A p \in Provider!CommentPlans : Promising(p)
  BY FixedPlansPromise, RepeatingPlansPromise DEF Provider!CommentPlans
<1> QED
  BY <1>1, <1>2, FixedPlansPromise, PromisingAtLast

-----------------------------------------------------------------------------
(* The call.  Until its post is up a submission is still ahead of it; once *)
(* it is, only steps that cannot raise are, and the call has not raised.   *)

StillToSubmit == \E i \in step..Len(plan) : plan[i] \in Provider!Submissions
NothingRaises == \A i \in step..Len(plan) : plan[i] = "tryread"

CallInv ==
  /\ Promising(plan)
  /\ step \in Nat \ {0}
  /\ posted \in BOOLEAN
  /\ answer \in {"none", "raising", "returned", "retryable", "permanent"}
  /\ posted => answer \in {"none", "returned"}
  /\ answer = "none" => IF posted THEN NothingRaises ELSE StillToSubmit

LEMMA CallStarts ==
  ASSUME Items \in Nat \ {0}, Provider!Init
  PROVE  CallInv /\ Provider!Call!Init
<1>1. Promising(plan) /\ step = 1 /\ posted = FALSE /\ answer = "none"
  BY CallsStartPromising DEF Provider!Init
<1>2. StillToSubmit
  BY <1>1 DEF StillToSubmit, Promising
<1>3. Provider!Call!Init
  BY DEF Provider!Init, Provider!Call!Init
<1>4. (answer = "none" => IF posted THEN NothingRaises ELSE StillToSubmit) /\ posted \in BOOLEAN
  BY <1>1, <1>2, Zenon
<1> QED
  BY <1>1, <1>3, <1>4 DEF CallInv

\* The step at hand, and the ones after it.
LEMMA StepAtHand ==
  ASSUME CallInv, NEW kinds, Provider!At(kinds)
  PROVE  /\ answer = "none" /\ step \in 1..Len(plan) /\ plan[step] \in kinds
         /\ Len(plan) \in Nat
         /\ step + 1 \in Nat \ {0}
         /\ posted => plan[step] = "tryread"
<1>1. answer = "none" /\ step <= Len(plan) /\ plan[step] \in kinds
  BY DEF Provider!At
<1>2. Len(plan) \in Nat /\ step \in 1..Len(plan)
  BY <1>1 DEF CallInv, Promising
<1>3. posted => plan[step] = "tryread"
  BY <1>1, <1>2 DEF CallInv, NothingRaises
<1> QED
  BY <1>1, <1>2, <1>3

\* A step that submits nothing is a stutter of the call when it goes well.
LEMMA PassingOn ==
  ASSUME CallInv, NEW kinds, Provider!At(kinds), kinds \cap Provider!Submissions = {},
         Provider!Advance, UNCHANGED <<plan, posted, live, unclear>>
  PROVE  CallInv' /\ UNCHANGED Provider!Call!callVars
<1>1. answer = "none" /\ answer' = "none" /\ step' = step + 1 /\ step \in 1..Len(plan)
      /\ Len(plan) \in Nat /\ plan[step] \notin Provider!Submissions
  BY StepAtHand DEF Provider!Advance
<1>2. posted => NothingRaises'
  BY <1>1 DEF CallInv, NothingRaises
<1>3. ~posted => StillToSubmit'
  <2>1. SUFFICES ASSUME ~posted PROVE StillToSubmit'
    OBVIOUS
  <2>2. PICK i \in step..Len(plan) : plan[i] \in Provider!Submissions
    BY <1>1, <2>1 DEF CallInv, StillToSubmit
  <2>3. i \in step'..Len(plan)
    BY <1>1, <2>2
  <2> QED
    BY <2>2, <2>3 DEF StillToSubmit
<1>4. UNCHANGED Provider!Call!callVars
  BY <1>1 DEF Provider!Call!callVars
<1> QED
  BY <1>1, <1>2, <1>3, <1>4 DEF CallInv

\* And a raise of the call when it does not.
LEMMA RaisingBeforeThePost ==
  ASSUME CallInv, NEW kinds, Provider!At(kinds), "tryread" \notin kinds,
         NEW how \in {"retryable", "permanent"}, Provider!Raise(how),
         UNCHANGED <<plan, posted, live, unclear>>
  PROVE  CallInv' /\ Provider!Call!Raise
<1>1. answer = "none" /\ ~posted /\ step' = step
      /\ (answer' = "raising" \/ answer' = how)
  BY StepAtHand DEF Provider!Raise
<1>2. Provider!Call!Raise
  BY <1>1 DEF Provider!Call!Raise
<1> QED
  BY <1>1, <1>2 DEF CallInv

CallStep == Provider!Call!Next \/ UNCHANGED Provider!Call!callVars

LEMMA StepsKeepThePromise ==
  ASSUME CallInv, Provider!Next \/ UNCHANGED ProviderVars
  PROVE  CallInv' /\ CallStep
<1>0. /\ {"check"} \cap Provider!Submissions = {}
      /\ {"read", "poll"} \cap Provider!Submissions = {}
      /\ {"tryread"} \cap Provider!Submissions = {}
      /\ {"stage", "stageinit"} \cap Provider!Submissions = {}
      /\ {"photo"} \cap Provider!Submissions = {}
      /\ "tryread" \notin Provider!Submissions
  BY DEF Provider!Submissions
<1> USE DEF CallStep
<1>1. CASE Provider!Check
  BY <1>0, <1>1, PassingOn, RaisingBeforeThePost DEF Provider!Check, Provider!Call!Next
<1>2. CASE Provider!ReadOnly
  BY <1>0, <1>2, PassingOn, RaisingBeforeThePost DEF Provider!ReadOnly, Provider!Call!Next
<1>3. CASE Provider!TryRead
  BY <1>0, <1>3, PassingOn DEF Provider!TryRead
<1>4. CASE Provider!Stage
  BY <1>0, <1>4, PassingOn, RaisingBeforeThePost DEF Provider!Stage, Provider!Call!Next
<1>5. CASE Provider!StagePhoto
  BY <1>0, <1>5, PassingOn, RaisingBeforeThePost DEF Provider!StagePhoto, Provider!Call!Next
<1>6. CASE Provider!SubmitAnswered
  <2>1. /\ answer = "none" /\ answer' = "none" /\ ~posted /\ posted' = TRUE
        /\ step \in 1..Len(plan) /\ Len(plan) \in Nat /\ plan' = plan
        /\ plan[step] \in Provider!Submissions
        /\ step' = IF plan[step] = "either" THEN Len(plan) + 1 ELSE step + 1
    BY <1>0, <1>6, StepAtHand DEF Provider!SubmitAnswered
  <2>2. NothingRaises'
    BY <2>1 DEF CallInv, Promising, NothingRaises
  <2>3. Provider!Call!GoLive
    BY <1>6, <2>1 DEF Provider!SubmitAnswered, Provider!Call!GoLive
  <2> QED
    BY <2>1, <2>2, <2>3 DEF CallInv, Provider!Call!Next
<1>7. CASE Provider!SubmitRefused
  <2>1. /\ answer = "none" /\ ~posted /\ UNCHANGED <<plan, posted, live, unclear>>
        /\ step \in 1..Len(plan) /\ Len(plan) \in Nat
    BY <1>0, <1>7, StepAtHand DEF Provider!SubmitRefused
  <2>2. CASE Provider!Raise("retryable") \/ Provider!Raise("permanent")
    BY <1>0, <1>7, <2>1, <2>2, RaisingBeforeThePost DEF Provider!SubmitRefused, Provider!Call!Next
  <2>3. CASE plan[step] = "either" /\ step < Len(plan) /\ Provider!Advance
    <3>1. step' = step + 1 /\ answer' = answer
      BY <2>3 DEF Provider!Advance
    <3>2. step + 1 \in 1..Len(plan) /\ step < step + 1
      BY <2>1, <2>3
    <3>3. plan[step + 1] = "either"
      BY <2>1, <2>3, <3>2 DEF CallInv, Promising, Provider!Submissions
    <3>4. StillToSubmit'
      BY <2>1, <3>1, <3>2, <3>3 DEF StillToSubmit, Provider!Submissions
    <3> QED
      BY <2>1, <3>1, <3>2, <3>4 DEF CallInv, Provider!Call!callVars
  <2> QED
    BY <1>7, <2>2, <2>3 DEF Provider!SubmitRefused
<1>8. CASE Provider!SubmitLost
  <2>1. /\ answer = "none" /\ ~posted /\ posted' = posted /\ step' = step /\ plan' = plan
        /\ answer' \in {"raising", "retryable"}
    BY <1>0, <1>8, StepAtHand DEF Provider!SubmitLost, Provider!AfterLost, Provider!Raise
  <2>2. Provider!Call!LoseSight
    BY <1>8, <2>1 DEF Provider!SubmitLost, Provider!Call!LoseSight
  <2> QED
    BY <2>1, <2>2 DEF CallInv, Provider!Call!Next
<1>9. CASE Provider!DeleteStagedPhotos
  BY <1>9 DEF Provider!DeleteStagedPhotos, CallInv, Provider!Call!callVars
<1>10. CASE Provider!Return
  <2>1. /\ answer = "none" /\ step > Len(plan) /\ answer' = "returned"
        /\ UNCHANGED <<plan, step, posted, live, unclear>>
    BY <1>10 DEF Provider!Return
  <2>2. posted
    BY <2>1 DEF CallInv, StillToSubmit, Promising
  <2>3. Provider!Call!Return
    BY <2>1, <2>2 DEF Provider!Call!Return
  <2> QED
    BY <2>1, <2>2, <2>3 DEF CallInv, Provider!Call!Next
<1>11. CASE Provider!Retry
  <2>1. /\ answer = "retryable" /\ answer' = "none" /\ step' = 1
        /\ UNCHANGED <<plan, posted, live, unclear>>
    BY <1>11 DEF Provider!Retry
  <2>2. ~posted /\ StillToSubmit'
    BY <2>1 DEF CallInv, StillToSubmit, Promising
  <2>3. Provider!Call!Retry
    BY <2>1 DEF Provider!Call!Retry
  <2> QED
    BY <2>1, <2>2, <2>3 DEF CallInv, Provider!Call!Next
<1>12. CASE UNCHANGED ProviderVars
  BY <1>12 DEF ProviderVars, CallInv, NothingRaises, StillToSubmit, Provider!Call!callVars
<1> QED
  BY <1>1, <1>2, <1>3, <1>4, <1>5, <1>6, <1>7, <1>8, <1>9, <1>10, <1>11, <1>12 DEF Provider!Next

(* Every provider's calls, with any number of attachments and of retries,  *)
(* are what the engine takes them for: refusals, a post, or a submission   *)
(* lost from sight.                                                        *)
THEOREM ProvidersKeepTheirPromise ==
  ASSUME Items \in Nat \ {0}
  PROVE  ServicesSpec => KeepsPromise
<1> DEFINE Inv == service = "providers" => CallInv
<1>1. ServicesInit => Inv /\ Provider!Call!Init
  BY CallStarts DEF ServicesInit, ProviderOff, Provider!Call!Init
<1>2. Inv /\ [ServicesNext]_allVars => Inv'
  BY OneServiceMoves, StepsKeepThePromise
<1>3. Inv /\ [ServicesNext]_allVars => [Provider!Call!Next]_(Provider!Call!callVars)
  <2>1. SUFFICES ASSUME Inv, [ServicesNext]_allVars
                 PROVE  [Provider!Call!Next]_(Provider!Call!callVars)
    OBVIOUS
  <2>2. CASE service = "providers"
    BY <2>1, <2>2, OneServiceMoves, StepsKeepThePromise DEF CallStep
  <2>3. CASE service # "providers"
    BY <2>1, <2>3, OneServiceMoves DEF ProviderVars, Provider!Call!callVars
  <2> QED
    BY <2>2, <2>3
<1> QED
  BY <1>1, <1>2, <1>3, PTL DEF ServicesSpec, KeepsPromise, Provider!KeepsPromise, Provider!Call!Spec, allVars
=============================================================================
