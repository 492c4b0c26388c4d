-------------------------- MODULE ProviderPublish --------------------------
(***************************************************************************)
(* publish_post and publish_comment of the providers: for each kind of     *)
(* post, the requests the provider makes and in which order, and the       *)
(* engine's retries around them.                                           *)
(*                                                                         *)
(* Every request can be refused, get no answer, or get one that cannot be  *)
(* read.  Only the request that puts the post up ("submit") makes that     *)
(* matter: the engine retries whatever raises a retryable error, so what   *)
(* comes after the submission must not raise.                              *)
(*                                                                         *)
(* Source: providers/*.py, and _dispatch_to_provider of                    *)
(* apps/publisher/engine.py.                                               *)
(***************************************************************************)
EXTENDS Naturals, Sequences

CONSTANTS
  Items,     \* attachments of a carousel, a multi-photo post or a chunked upload
  MaxCalls   \* bound on calls of the provider: MAX_RETRIES + 1 in the engine

-----------------------------------------------------------------------------
(* The steps a provider takes                                              *)
(*                                                                         *)
(*   check     a condition on the content: raises a non-retryable error    *)
(*   read      a request without effect, or a download: raises             *)
(*   tryread   the same, with its failure caught                           *)
(*   stage     a request that prepares something not yet public: raises    *)
(*   photo     stage, of a photo the provider deletes again if it fails    *)
(*   poll      waits until what was staged is ready: raises                *)
(*   init      submit, with the error codes that never change set apart    *)
(*   submit    puts the post up; an answer without an id counts            *)
(*   submitid  puts the post up; an answer without an id raises            *)
(*   either    submitid, at one of several addresses in turn               *)

\* The same steps for every attachment.
Each(steps) == [i \in 1..Items * Len(steps) |-> steps[1 + ((i - 1) % Len(steps))]]

\* What the engine does first: the last look for a blocker, a token refresh
\* whose failure is caught, the downloads.
Dispatch == <<"check", "tryread", "read">>

FacebookText == <<"check", "submitid">>
FacebookPhoto == <<"check", "submitid">>
FacebookMultiPhoto == <<"check">> \o Each(<<"photo">>) \o <<"submitid">>
\* The look-up of the post id not caught.
FacebookVideo_Uncaught == <<"check", "submitid", "read">>
FacebookVideo == <<"check", "submitid", "tryread">>
FacebookReel == <<"check", "stage", "stage", "submit", "tryread">>
FacebookComment == Each(<<"either">>)

InstagramSingle == <<"check", "read", "stage", "poll", "submit">>
InstagramCarousel == <<"check", "read">> \o Each(<<"stage", "poll">>) \o <<"stage", "poll", "submit">>
InstagramComment == <<"submitid">>
InstagramLoginSingle == <<"check", "stage", "poll", "submit">>
InstagramLoginCarousel == <<"check">> \o Each(<<"stage", "poll">>) \o <<"stage", "poll", "submit">>

ThreadsText == <<"read", "stage", "submit">>
ThreadsMedia == <<"read", "stage", "poll", "submit">>
ThreadsCarousel == <<"read">> \o Each(<<"stage", "poll">>) \o <<"stage", "poll", "submit">>
ThreadsComment == <<"read", "stage", "submit">>

\* PULL_FROM_URL is accepted with the init request, a file with its upload.
TikTokPull == <<"check", "tryread", "check", "init">>
TikTokFile == <<"check", "tryread", "check", "stageinit", "submit">>

YouTubeVideo == <<"check", "stage", "check", "submit", "tryread">>
YouTubeComment == <<"submit">>

LinkedInText == <<"read", "submit">>
LinkedInImage == <<"read", "stage", "stage", "submit">>
LinkedInVideo == <<"read", "read", "stage">> \o Each(<<"stage">>) \o <<"stage", "poll", "submit">>
LinkedInArticle == <<"read", "submit">>
LinkedInPoll == <<"read", "check", "submit">>
LinkedInComment == <<"read", "submit">>

BlueskyPost == <<"check", "read", "tryread">> \o Each(<<"stage">>) \o <<"submit">>
MastodonPost == Each(<<"stage">>) \o <<"submitid">>
MastodonComment == <<"submitid">>
PinterestImage == <<"check", "submit">>
PinterestVideo == <<"check", "stage", "stage", "submit">>
DevtoArticle == <<"check", "submitid">>
GoogleBusinessPost == <<"check", "read", "read", "submit">>

PostPlans ==
  {FacebookText, FacebookPhoto, FacebookMultiPhoto, FacebookVideo, FacebookReel,
   InstagramSingle, InstagramCarousel, InstagramLoginSingle, InstagramLoginCarousel,
   ThreadsText, ThreadsMedia, ThreadsCarousel, TikTokPull, TikTokFile, YouTubeVideo,
   LinkedInText, LinkedInImage, LinkedInVideo, LinkedInArticle, LinkedInPoll,
   BlueskyPost, MastodonPost, PinterestImage, PinterestVideo, DevtoArticle,
   GoogleBusinessPost}

CommentPlans ==
  {FacebookComment, InstagramComment, ThreadsComment, YouTubeComment,
   LinkedInComment, MastodonComment}

-----------------------------------------------------------------------------
VARIABLES
  plan,     \* the steps of this row's provider
  step,     \* the next one
  answer,   \* of the call: none yet, raising, returned, or how it raised
  posted,   \* did this call's submission succeed, for all it knows?
  calls,
  live,     \* posts that are up
  unclear,  \* was the answer to some submission lost?
  photos,   \* photos this call staged, as far as it knows
  strays,   \* photos it gave up on that are still on the page
  lost      \* stagings and deletions of a photo that got no answer

vars == <<plan, step, answer, posted, calls, live, unclear, photos, strays, lost>>

Init ==
  /\ plan \in {Dispatch \o p : p \in PostPlans} \cup CommentPlans
  /\ step = 1
  /\ answer = "none"
  /\ posted = FALSE
  /\ calls = 1
  /\ live = 0
  /\ unclear = FALSE
  /\ photos = 0
  /\ strays = 0
  /\ lost = 0

At(kinds) == answer = "none" /\ step <= Len(plan) /\ plan[step] \in kinds

Advance == step' = step + 1 /\ UNCHANGED answer

\* The multi-photo post deletes what it staged before the error goes on; or
\* only when it is the post itself that failed.
Raising_PostOnly == photos > 0 /\ plan[step] # "photo"
Raising == photos > 0
Raise(how) ==
  /\ answer' = IF Raising THEN "raising" ELSE how
  /\ UNCHANGED step

Check ==
  /\ At({"check"})
  /\ Advance \/ Raise("permanent")
  /\ UNCHANGED <<plan, posted, calls, live, unclear, photos, strays, lost>>

ReadOnly ==
  /\ At({"read", "poll"})
  /\ Advance \/ Raise("retryable")
  /\ UNCHANGED <<plan, posted, calls, live, unclear, photos, strays, lost>>

TryRead ==
  /\ At({"tryread"})
  /\ Advance
  /\ UNCHANGED <<plan, posted, calls, live, unclear, photos, strays, lost>>

Stage ==
  /\ At({"stage", "stageinit"})
  /\ Advance \/ Raise("retryable") \/ (plan[step] = "stageinit" /\ Raise("permanent"))
  /\ UNCHANGED <<plan, posted, calls, live, unclear, photos, strays, lost>>

StagePhoto ==
  /\ At({"photo"})
  /\ \/ Advance /\ photos' = photos + 1 /\ UNCHANGED lost
     \/ Raise("retryable") /\ UNCHANGED <<photos, lost>>
     \/ Raise("retryable") /\ lost' = lost + 1 /\ UNCHANGED photos
  /\ UNCHANGED <<plan, posted, calls, live, unclear, strays>>

Submissions == {"init", "submit", "submitid", "either"}

\* An answer with an id, or one without where the provider does not insist.
SubmitAnswered ==
  /\ At(Submissions)
  /\ live' = live + 1
  /\ posted' = TRUE
  /\ step' = IF plan[step] = "either" THEN Len(plan) + 1 ELSE step + 1
  /\ UNCHANGED <<plan, answer, calls, unclear, photos, strays, lost>>

\* A clear refusal.  Another address is tried only where the answer is that
\* there is no such object.
SubmitRefused ==
  /\ At(Submissions)
  /\ \/ Raise("retryable")
     \/ plan[step] = "init" /\ Raise("permanent")
     \/ plan[step] = "either" /\ step < Len(plan) /\ Advance
  /\ UNCHANGED <<plan, posted, calls, live, unclear, photos, strays, lost>>

\* No answer, a server error, a body that cannot be read, or one without the
\* id a "submitid" insists on: raised, whether the post is up or not.
AfterLost == Raise("retryable")

SubmitLost ==
  /\ At(Submissions)
  /\ AfterLost
  /\ unclear' = TRUE
  /\ live' \in {live, live + 1}
  /\ UNCHANGED <<plan, posted, calls, photos, strays, lost>>

\* Each photo the call knows of is deleted, its failure logged and ignored.
DeleteStagedPhotos ==
  /\ answer = "raising"
  /\ answer' = "retryable"
  /\ \E deleted \in 0..photos :
       /\ strays' = strays + (photos - deleted)
       /\ lost' = lost + (photos - deleted)
  /\ photos' = 0
  /\ UNCHANGED <<plan, step, posted, calls, live, unclear>>

Return ==
  /\ answer = "none"
  /\ step > Len(plan)
  /\ answer' = "returned"
  /\ UNCHANGED <<plan, step, posted, calls, live, unclear, photos, strays, lost>>

\* A comment is retried after a check of its own (module FirstComment).
Retry ==
  /\ answer = "retryable"
  /\ plan \notin CommentPlans
  /\ calls < MaxCalls
  /\ calls' = calls + 1
  /\ answer' = "none"
  /\ step' = 1
  /\ strays' = strays + photos
  /\ photos' = 0
  /\ UNCHANGED <<plan, posted, live, unclear, lost>>

Next ==
  \/ Check \/ ReadOnly \/ TryRead \/ Stage \/ StagePhoto
  \/ SubmitAnswered \/ SubmitRefused \/ SubmitLost
  \/ DeleteStagedPhotos \/ Return \/ Retry

Spec == Init /\ [][Next]_vars

-----------------------------------------------------------------------------
(* Properties                                                              *)

TypeOK ==
  /\ plan \in {Dispatch \o p : p \in PostPlans} \cup CommentPlans
  /\ step \in 1..Len(plan) + 1
  /\ answer \in {"none", "raising", "returned", "retryable", "permanent"}
  /\ posted \in BOOLEAN
  /\ calls \in 1..MaxCalls
  /\ live \in 0..MaxCalls
  /\ unclear \in BOOLEAN
  /\ photos \in 0..Items
  /\ {strays, lost} \subseteq 0..(Items + 1) * MaxCalls

Call == INSTANCE PublishCall WITH
          answer <- IF answer = "raising" THEN "retryable" ELSE answer

(* Every provider keeps the promise the engine's retries rest on: once the *)
(* post is up, for all the provider knows, the call returns and does not   *)
(* raise (facebook.py 452-466: "nothing here may propagate, or the publish *)
(* engine would schedule a retry and double-post the video"), it submits   *)
(* once, and it calls an error permanent only with nothing put up.  So a   *)
(* row has two posts only where the answer to a submission was lost; and a *)
(* comment is tried at a second address only where the first said there is *)
(* no such object (facebook.py 613-617: after a 5xx "posting again would   *)
(* double-comment on a live Page").                                        *)
KeepsPromise == Call!Spec

(* A multi-photo post that failed leaves no photo on the page, at whatever *)
(* step and in whichever of its calls it failed, unless the page did not   *)
(* answer when a photo was staged or deleted (facebook.py 409-414).        *)
NoStrayPhotos ==
  (answer \in {"retryable", "permanent"} /\ lost = 0) => photos + strays = 0
=============================================================================
