----------------------------- MODULE MCServices -----------------------------
(***************************************************************************)
(* The services that share no state with one another, and the rows of a    *)
(* post: one of them is chosen at the start and takes every step, and the  *)
(* variables of the others stay as they are.                               *)
(***************************************************************************)
EXTENDS PostAggregate, TLC

CONSTANTS Links, Managers, Browsers,
          Invites, Requests, INVITE_MAX_SENDS, INVITE_EXPIRY, DAILY_BUDGET,
          Permissions, REVOCATION_CACHE_TTL,
          Attempts, Bodies, Posts, DailyLimit,
          Cycles, Lookback, CommentPages, DeepPages, DeepSweepTime, StoreFails,
          Past, MaxComments,
          Queue, Queues, QueuedPosts, Horizon, Slots, NoPlan, MaxNow, HandInstants, MaxHandMoves,
          Items, MaxCalls,
          Passes, Budgets, Backoff, MaxWindow,
          MaxDay, MaxHour       \* bounds on the clocks of the services

VARIABLES
  service,
  link, isClient, manager, browser, sessions,
  invitation, charged, member, inviting, mails, today,
  key, cached, issuer, admin, call, since, offboarded, clock,
  record, posts, attempt, era,
  comments, imported, newest, account, cycle, baseline, hour,
  instant, status, at, entries, intended, hands, clashed,
  block, caller, recorded, minute,
  plan, step, answer, posted, calls, live, unclear, photos, strays, lost

MagicVars == <<link, isClient, manager, browser, sessions>>
InvitationVars == <<invitation, charged, member, inviting, mails, today>>
KeyVars == <<key, cached, issuer, admin, call, since, offboarded, clock>>
AgentVars == <<record, posts, attempt, era>>
SyncVars == <<comments, imported, newest, account, cycle, baseline, hour>>
ChannelVars == <<instant, status, at, entries, intended, hands, clashed>>
BreakerVars == <<block, caller, recorded, minute>>
ProviderVars == <<plan, step, answer, posted, calls, live, unclear, photos, strays, lost>>

Magic == INSTANCE MagicLinks
Invitation == INSTANCE Invitations WITH row <- invitation, request <- inviting, now <- today, MaxTime <- MaxDay
Key == INSTANCE ApiKeys WITH request <- call, now <- clock, MaxTime <- MaxHour
Agent == INSTANCE AgentPosts
Sync == INSTANCE InboxSync WITH now <- hour, MaxTime <- MaxHour
Channel == INSTANCE QueueSlots WITH now <- instant, plan <- intended, Queues <- Queue, Posts <- Accounts
Breaker == INSTANCE QuotaBreaker WITH now <- minute, Probes <- Permissions, MaxTime <- MaxHour
Provider == INSTANCE ProviderPublish
\* Two queues of the channel, and fewer posts to put into them.
Pair == INSTANCE QueueSlots WITH now <- instant, plan <- intended, Posts <- QueuedPosts

MagicOff == link = "off" /\ isClient = "off" /\ manager = "off" /\ browser = "off" /\ sessions = "off"
InvitationOff == invitation = "off" /\ charged = "off" /\ member = "off" /\ inviting = "off" /\ mails = "off" /\ today = "off"
KeyOff == key = "off" /\ cached = "off" /\ issuer = "off" /\ admin = "off" /\ call = "off" /\ since = "off" /\ offboarded = "off" /\ clock = "off"
AgentOff == record = "off" /\ posts = "off" /\ attempt = "off" /\ era = "off"
SyncOff == comments = "off" /\ imported = "off" /\ newest = "off" /\ account = "off" /\ cycle = "off" /\ baseline = "off" /\ hour = "off"
ChannelOff == instant = "off" /\ status = "off" /\ at = "off" /\ entries = "off" /\ intended = "off" /\ hands = "off" /\ clashed = "off"
BreakerOff == block = "off" /\ caller = "off" /\ recorded = "off" /\ minute = "off"
ProviderOff ==
  /\ plan = Provider!MastodonComment
  /\ step = 1
  /\ answer = "none"
  /\ posted = FALSE
  /\ calls = 1
  /\ live = 0
  /\ unclear = FALSE
  /\ photos = 0
  /\ strays = 0
  /\ lost = 0

ServicesInit ==
  /\ service \in {"post", "links", "invitations", "keys", "agents", "inbox", "channel", "quota", "providers",
                 "queues"}
  /\ Init
  /\ IF service = "links" THEN Magic!Init ELSE MagicOff
  /\ IF service = "invitations" THEN Invitation!Init ELSE InvitationOff
  /\ IF service = "keys" THEN Key!Init ELSE KeyOff
  /\ IF service = "agents" THEN Agent!Init ELSE AgentOff
  /\ IF service = "inbox" THEN Sync!Init ELSE SyncOff
  /\ CASE service = "channel" -> Channel!Init
       [] service = "queues"  -> Pair!Init
       [] OTHER               -> ChannelOff
  /\ IF service = "quota" THEN Breaker!Init ELSE BreakerOff
  /\ IF service = "providers" THEN Provider!Init ELSE ProviderOff

PostStep ==
  /\ service = "post"
  /\ Next
  /\ UNCHANGED <<service, MagicVars, InvitationVars, KeyVars, AgentVars, SyncVars, ChannelVars, BreakerVars, ProviderVars>>

MagicStep ==
  /\ service = "links"
  /\ Magic!Next
  /\ UNCHANGED <<service, vars, InvitationVars, KeyVars, AgentVars, SyncVars, ChannelVars, BreakerVars, ProviderVars>>

InvitationStep ==
  /\ service = "invitations"
  /\ Invitation!Next
  /\ UNCHANGED <<service, vars, MagicVars, KeyVars, AgentVars, SyncVars, ChannelVars, BreakerVars, ProviderVars>>

KeyStep ==
  /\ service = "keys"
  /\ Key!Next
  /\ UNCHANGED <<service, vars, MagicVars, InvitationVars, AgentVars, SyncVars, ChannelVars, BreakerVars, ProviderVars>>

AgentStep ==
  /\ service = "agents"
  /\ Agent!Next
  /\ UNCHANGED <<service, vars, MagicVars, InvitationVars, KeyVars, SyncVars, ChannelVars, BreakerVars, ProviderVars>>

SyncStep ==
  /\ service = "inbox"
  /\ Sync!Next
  /\ UNCHANGED <<service, vars, MagicVars, InvitationVars, KeyVars, AgentVars, ChannelVars, BreakerVars, ProviderVars>>

ChannelStep ==
  /\ \/ service = "channel" /\ Channel!Next
     \/ service = "queues" /\ Pair!Next
  /\ UNCHANGED <<service, vars, MagicVars, InvitationVars, KeyVars, AgentVars, SyncVars, BreakerVars, ProviderVars>>

BreakerStep ==
  /\ service = "quota"
  /\ Breaker!Next
  /\ UNCHANGED <<service, vars, MagicVars, InvitationVars, KeyVars, AgentVars, SyncVars, ChannelVars, ProviderVars>>

ProviderStep ==
  /\ service = "providers"
  /\ Provider!Next
  /\ UNCHANGED <<service, vars, MagicVars, InvitationVars, KeyVars, AgentVars, SyncVars, ChannelVars, BreakerVars>>

ServicesNext ==
  \/ PostStep \/ MagicStep \/ InvitationStep \/ KeyStep \/ AgentStep
  \/ SyncStep \/ ChannelStep \/ BreakerStep \/ ProviderStep

ServicesSpec == ServicesInit /\ [][ServicesNext]_<<service, vars, MagicVars, InvitationVars, KeyVars, AgentVars, SyncVars, ChannelVars, BreakerVars, ProviderVars>>

\* The sets that are the same in MCServices.cfg are permuted together.
Symmetry == Permutations(Managers) \cup Permutations(Browsers) \cup Permutations(Links)

-----------------------------------------------------------------------------
(* The properties of the services, each stated and explained in its        *)
(* module; those of the rows are in PostAggregate.                         *)

ClientKeepsAWayIn == service = "links" => Magic!ClientKeepsAWayIn
InviteMailIsBounded == service = "invitations" => Invitation!InviteMailIsBounded
StaleRowsDie == service = "keys" => Key!StaleRowsDie
OffboardedAtOnce == service = "keys" => Key!OffboardedAtOnce
RetriesAreSafe == service = "agents" => Agent!RetriesAreSafe
SweptHistoryIsComplete == service = "inbox" => Sync!SweptHistoryIsComplete
RefusalsAreHeeded == service = "quota" => Breaker!RefusalsAreHeeded
NoStrayPhotos == service = "providers" => Provider!NoStrayPhotos
OnlyHandsDoubleBook ==
  /\ service = "channel" => Channel!OnlyHandsDoubleBook
  /\ service = "queues" => Pair!OnlyHandsDoubleBook
KeepsPromise == Provider!KeepsPromise
LadderKeepsOrder ==
  [][/\ service = "channel" => Channel!LadderInOrder
     /\ service = "queues" => Pair!LadderInOrder]_ChannelVars
=============================================================================
