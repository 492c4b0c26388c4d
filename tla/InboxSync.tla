----------------------------- MODULE InboxSync -----------------------------
(***************************************************************************)
(* How the comments of one YouTube channel reach the inbox                 *)
(* (inbox/tasks.py, providers/youtube.py).  The routine poll stops early   *)
(* to spare a shared quota; a capped walk of the first import, and a       *)
(* periodic sweep of the whole history, are resumed from cursors kept on   *)
(* the account.  Cycles of the worker and of the run_inbox_sync command    *)
(* may overlap, calls fail, and a cycle dies or raises between two         *)
(* messages.  A page holds one thread, and a walk reads what the channel   *)
(* holds at one instant.                                                   *)
(***************************************************************************)
EXTENDS Naturals, FiniteSets, FiniteSetsExt

CONSTANTS Cycles,       \* the cycles that may overlap
          Lookback,     \* _COMMENT_LOOKBACK
          CommentPages, \* _MAX_COMMENT_PAGES
          DeepPages,    \* _MAX_DEEP_COMMENT_PAGES
          DeepSweepTime, \* INBOX_DEEP_SWEEP_SECONDS
          StoreFails,   \* a cycle may die or raise while it stores messages
          Past,         \* when threads may have begun before the connection
          MaxComments,  \* bound: the channel has at most so many
          MaxTime       \* bound: the clock stops here

VARIABLES comments,     \* the channel: [thread, at], a reply has at > thread
          imported,     \* those of them in the inbox
          newest,       \* the latest received_at of the inbox
          account,      \* the account's sync columns
          cycle,        \* where each cycle stands
          baseline,     \* ghost: the latest deep_sweep_at the first import set
          now

vars == <<comments, imported, newest, account, cycle, baseline, now>>

None == 0

\* The two cursors name the newest thread still to be read.
Fresh == [deep_sweep_at |-> None, sweep |-> None, sweep_started |-> None,
          history |-> None, history_started |-> None]

Idle == [pc |-> "idle", account |-> Fresh, since |-> None, deep |-> FALSE,
         started |-> None, messages |-> {}, next |-> None]

Init ==
  /\ \E T \in SUBSET Past : comments = {[thread |-> t, at |-> t] : t \in T}
  /\ imported = {}
  /\ newest = None
  /\ account = Fresh
  /\ cycle = [c \in Cycles |-> Idle]
  /\ baseline = None
  /\ now = Max(Past) + 1

-----------------------------------------------------------------------------
(* The channel and its webhook                                             *)

Tick ==
  /\ now < MaxTime
  /\ now' = now + 1
  /\ UNCHANGED <<comments, imported, newest, account, cycle, baseline>>

\* A new thread, or a reply to any thread.
Comment ==
  /\ Cardinality(comments) < MaxComments
  /\ \E t \in {m.thread : m \in comments} \cup {now} :
       comments' = comments \cup {[thread |-> t, at |-> now]}
  /\ UNCHANGED <<imported, newest, account, cycle, baseline, now>>

\* _process_youtube_notification stores an entry of its own, received now.
Webhook ==
  /\ newest < now
  /\ newest' = now
  /\ UNCHANGED <<comments, imported, account, cycle, baseline, now>>

-----------------------------------------------------------------------------
(* YouTubeProvider.get_messages                                            *)

\* Pages from a cursor on, newest first, until the history ends, the cap is
\* reached or, in a routine poll, a page reaches behind the cutoff.
Walk(token, since, deep) ==
  LET threads  == {m.thread : m \in comments}
      asked    == {t \in threads : token = None \/ t <= token}
      stops(t) == ~deep /\ since # None /\ t + Lookback < since
      pages    == IF deep THEN DeepPages ELSE CommentPages
      read     == {t \in asked : LET above == {u \in asked : u > t}
                                 IN  Cardinality(above) < pages /\ \A u \in above : ~stops(u)}
      rest     == {t \in asked \ read : \A u \in read : ~stops(u)}
  IN  [messages |-> {m \in comments : m.thread \in read /\ m.at >= since},
       next |-> IF rest = {} THEN None ELSE Max(rest)]

\* A routine page embeds only some of the replies of its threads.
Embedded(M) == {N \in SUBSET M : \A m \in M : m.at = m.thread => m \in N}

Fetched(token, since, deep) ==
  LET w == Walk(token, since, deep)
  IN  IF deep \/ since = None THEN {w} ELSE {[w EXCEPT !.messages = N] : N \in Embedded(w.messages)}

-----------------------------------------------------------------------------
(* InboxSyncEngine._sync_account                                           *)

\* sync_all loads the accounts at the start of the pass.
LoadAccount(c) ==
  /\ cycle[c].pc = "idle"
  /\ cycle' = [cycle EXCEPT ![c] = [Idle EXCEPT !.pc = "plan", !.account = account]]
  /\ UNCHANGED <<comments, imported, newest, account, baseline, now>>

DeepSweepDue(a) ==
  /\ a.deep_sweep_at # None
  /\ a.history = None
  /\ a.sweep # None \/ a.deep_sweep_at + DeepSweepTime <= now

\* Mutant of Since: the sweep starts from the newest message, as a poll does.
Since_Newest(a, deep) == newest

Since(a, deep) == IF deep THEN a.deep_sweep_at ELSE newest

\* The slot of the cycle may have gone to another account.
Plan(c) ==
  /\ cycle[c].pc = "plan"
  /\ \E slot \in BOOLEAN :
       LET deep == slot /\ DeepSweepDue(cycle[c].account)
       IN  cycle' = [cycle EXCEPT ![c].pc = "poll", ![c].deep = deep, ![c].started = now,
                       ![c].since = Since(cycle[c].account, deep)]
  /\ UNCHANGED <<comments, imported, newest, account, baseline, now>>

Poll(c) ==
  /\ cycle[c].pc = "poll"
  /\ \E w \in Fetched(IF cycle[c].deep THEN cycle[c].account.sweep ELSE None,
                      cycle[c].since, cycle[c].deep) :
       cycle' = [cycle EXCEPT ![c].messages = w.messages, ![c].next = w.next,
                   ![c].pc = IF cycle[c].account.history # None THEN "history" ELSE "store"]
  /\ UNCHANGED <<comments, imported, newest, account, baseline, now>>

\* A page of the first import, if the cycle's slot is still there.
History(c) ==
  /\ cycle[c].pc = "history"
  /\ \/ LET w == Walk(cycle[c].account.history, None, FALSE)
        IN  cycle' = [cycle EXCEPT ![c].messages = @ \cup w.messages,
                                   ![c].next = w.next, ![c].pc = "store"]
     \/ cycle' = [cycle EXCEPT ![c].next = cycle[c].account.history, ![c].pc = "store"]
  /\ UNCHANGED <<comments, imported, newest, account, baseline, now>>

\* A call raises, or the token is gone: only the time of the poll is stamped.
CallFails(c) ==
  /\ cycle[c].pc \in {"poll", "history"}
  /\ cycle' = [cycle EXCEPT ![c] = Idle]
  /\ UNCHANGED <<comments, imported, newest, account, baseline, now>>

Import(M) ==
  /\ imported' = imported \cup M
  /\ newest' = Max({newest} \cup {m.at : m \in M})

Store(c) ==
  /\ cycle[c].pc = "store"
  /\ Import(cycle[c].messages)
  /\ cycle' = [cycle EXCEPT ![c].pc = "mark"]
  /\ UNCHANGED <<comments, account, baseline, now>>

\* Some messages are in the inbox when an UPDATE raises or the worker dies.
StoreSome(c) ==
  /\ StoreFails
  /\ cycle[c].pc = "store"
  /\ \E M \in SUBSET cycle[c].messages : Import(M)
  /\ cycle' = [cycle EXCEPT ![c] = Idle]
  /\ UNCHANGED <<comments, account, baseline, now>>

\* The start of a walk is kept while it is not over, and becomes the account's
\* deep_sweep_at when it is.
Start(kept, c) == IF kept # None THEN kept ELSE cycle[c].started

Finished(kept, c) == Start(kept, c)

\* _mark_polled: the columns are computed from the copy the cycle loaded, and
\* only those named here are written.
Marked(c) ==
  LET a == cycle[c].account
      next == cycle[c].next
      swept == [account EXCEPT
        !.sweep = next,
        !.sweep_started = IF next = None THEN None ELSE Start(a.sweep_started, c),
        !.deep_sweep_at = IF next = None THEN Finished(a.sweep_started, c) ELSE @]
      walked == [account EXCEPT
        !.history = next,
        !.history_started = IF next = None THEN None ELSE Start(a.history_started, c),
        !.deep_sweep_at = IF next = None THEN Finished(a.history_started, c) ELSE @]
  IN  IF cycle[c].deep THEN swept ELSE IF a.deep_sweep_at = None THEN walked ELSE account

FirstImportEnds(c) ==
  ~cycle[c].deep /\ cycle[c].account.deep_sweep_at = None /\ cycle[c].next = None

Mark(c) ==
  /\ cycle[c].pc = "mark"
  /\ account' = Marked(c)
  /\ baseline' = IF FirstImportEnds(c) THEN Max({baseline, account'.deep_sweep_at}) ELSE baseline
  /\ cycle' = [cycle EXCEPT ![c] = Idle]
  /\ UNCHANGED <<comments, imported, newest, now>>

Next ==
  \/ Tick \/ Comment \/ Webhook
  \/ \E c \in Cycles :
       \/ LoadAccount(c) \/ Plan(c) \/ Poll(c) \/ History(c) \/ CallFails(c)
       \/ Store(c) \/ StoreSome(c) \/ Mark(c)

Spec == Init /\ [][Next]_vars

-----------------------------------------------------------------------------
(* A finished sweep leaves no hole behind it: from the account's first     *)
(* baseline on, every comment and reply older than deep_sweep_at is in the *)
(* inbox, however its walk was cut into calls, whatever arrived meanwhile, *)
(* and however cycles overlap, fail or die.  Later sweeps never look there *)
(* again.                                                                  *)
SweptHistoryIsComplete ==
  {m \in comments : baseline <= m.at /\ m.at < account.deep_sweep_at} \subseteq imported

\* What tasks.py:177-178 and :220-221 say of the first import: it is resumable
\* through its cursor, and "a failure cannot advance" the baseline past it.
FirstImportIsComplete ==
  {m \in comments : m.at < baseline} \subseteq imported
=============================================================================
