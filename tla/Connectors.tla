----------------------------- MODULE Connectors -----------------------------
(*****************************************************************************)
(* The platform connectors (integrations/platforms): how one account is      *)
(* authorized and how one publish request is carried out over HTTP, call     *)
(* after call, while its caller retries it.                                  *)
(*                                                                           *)
(* A request to a platform is answered ok, refused, or not at all; the       *)
(* platform may have acted although the answer was a server error, a         *)
(* timeout, or a connection that broke while it was read.  What urllib       *)
(* reports as a timeout is a TimeoutError; a broken answer is another        *)
(* exception, which the connectors do not catch.                             *)
(*****************************************************************************)
EXTENDS Naturals, Sequences, FiniteSets

CONSTANTS Channels,   \* the channels tried
          MaxCalls,   \* bound on the calls made for one request
          MaxPolls    \* container_poll_attempts, status_poll_attempts

ASSUME ConnectorsAssumption ==
    /\ Channels \subseteq {"FACEBOOK", "INSTAGRAM", "LINKEDIN", "TIKTOK", "YOUTUBE"}
    /\ MaxCalls \in Nat \ {0} /\ MaxPolls \in Nat \ {0}

VARIABLES app,      \* the SocialProviderConfig of the channel's provider
          job,      \* what is to be published, and who calls
          auth,     \* AuthorizationAdapter.complete between its HTTP requests
          options,  \* the visibilities the platform allows the account
          call,     \* Connector.publish between its HTTP requests
          site,     \* what exists at the platform
          receipts  \* the OfficialPublishResult of each call, in order

connectorVars == <<app, job, auth, options, call, site, receipts>>

---------------------------------------------------------------------------
(* Records *)

Refusals == {"401", "429", "4xx"}         \* the platform did not act
Doubtful == {"5xx", "timeout", "broken"}  \* it may have acted
Codes == {"REAUTHORIZATION_REQUIRED", "RATE_LIMITED", "PROVIDER_UNAVAILABLE",
          "VALIDATION_REJECTED", "OUTCOME_UNKNOWN", "CONFIGURATION_REQUIRED",
          "PROVIDER_ERROR", "PUBLISH_FINALIZE_ERROR", "EXCEPTION"}
Receipt == [status: {"SUCCEEDED", "SUCCEEDED_PRIVATE", "FAILED"}, code: Codes \cup {""}]

Config == [enabled: BOOLEAN, secret: BOOLEAN, store: BOOLEAN, audited: BOOLEAN]

(* consent is absent, explicit alone, explicit with a key the connector      *)
(* does not know, or complete.  What a channel does not read of a request    *)
(* is fixed; the batches have no YouTube.                                    *)
Request ==
    {r \in [channel: Channels, caller: {"task", "batch"}, text: BOOLEAN,
            media: {"none", "video", "image"},
            consent: {"none", "explicit", "foreign", "full"},
            visibility: {"private", "public"}] :
       /\ r.channel \in {"FACEBOOK", "LINKEDIN"} => r.media = "none"
       /\ r.channel \in {"INSTAGRAM", "TIKTOK"} => r.text
       /\ r.channel \notin {"TIKTOK", "YOUTUBE"} => r.consent = "none" /\ r.visibility = "public"
       /\ r.channel = "YOUTUBE" => r.caller = "task"}
Resting == [step |-> "rest", polls |-> 0]
Post == [of: 1..MaxCalls, public: BOOLEAN]

(* build_social_provider_runtime: which adapters and connectors exist *)
Authorizable == app.enabled /\ app.store /\ app.secret
Publishable == Authorizable /\ (app.audited \/ job.channel = "TIKTOK")

(* provider_failure: a status that is not 2xx *)
Failure(answer) ==
    CASE answer = "401" -> "REAUTHORIZATION_REQUIRED"
      [] answer = "429" -> "RATE_LIMITED"
      [] answer = "5xx" -> "PROVIDER_UNAVAILABLE"
      [] answer = "4xx" -> "VALIDATION_REJECTED"

(* An exception that is no TimeoutError escapes the connector.             *)
Outcome(answer) ==
    CASE answer = "timeout" -> "OUTCOME_UNKNOWN"
      [] answer = "broken" -> "EXCEPTION"
      [] OTHER -> Failure(answer)

(* The task engine records the codes it knows and calls the others, and      *)
(* exceptions, a provider error; the batch records the code it is given.     *)
Recorded(code) ==
    IF job.caller = "batch" \/ code \in {"RATE_LIMITED", "PUBLISH_FINALIZE_ERROR"}
    THEN code ELSE "PROVIDER_ERROR"

ConnectorsInit ==
    /\ app \in Config /\ job \in Request
    /\ auth = [step |-> "rest", result |-> "", mode |-> ""]
    /\ options \in {{"private"}, {"private", "public"}}
    /\ call = Resting
    /\ site = [posts |-> {}, underway |-> {}, container |-> FALSE]
    /\ receipts = <<>>

---------------------------------------------------------------------------
(* Authorization: the code is exchanged, the accounts are looked up.       *)

publishing == <<app, job, options, call, site, receipts>>

AuthFailure(answer, exchanging) ==
    CASE answer = "401" -> "REAUTHORIZATION_REQUIRED"
      [] answer \in {"429", "5xx", "timeout"} -> "PROVIDER_UNAVAILABLE"
      [] answer = "4xx" -> IF exchanging THEN "AUTHORIZATION_REJECTED" ELSE "INSUFFICIENT_CAPABILITY"
      [] answer = "broken" -> IF job.channel = "YOUTUBE" THEN "AUTHORIZATION_REJECTED" ELSE "EXCEPTION"

BeginAuthorization ==
    /\ auth.step = "rest" /\ auth.result = "" /\ Authorizable
    /\ auth' = [auth EXCEPT !.step = "exchange"]
    /\ UNCHANGED publishing

AuthorizationFails ==
    /\ auth.step \in {"exchange", "discover", "details"}
    /\ \E answer \in Refusals \cup Doubtful :
          auth' = [auth EXCEPT !.step = "rest",
                               !.result = AuthFailure(answer, auth.step = "exchange")]
    /\ UNCHANGED publishing

(* No access token, no open id, or not the upload scope *)
ExchangeIncomplete ==
    /\ auth.step = "exchange"
    /\ auth' = [auth EXCEPT !.step = "rest",
                    !.result = IF job.channel = "YOUTUBE" THEN "INSUFFICIENT_CAPABILITY"
                               ELSE "AUTHORIZATION_REJECTED"]
    /\ UNCHANGED publishing

Exchanged ==
    /\ auth.step = "exchange"
    /\ auth' = [auth EXCEPT !.step = "discover"]
    /\ UNCHANGED publishing

(* A page without CREATE_CONTENT, a role that is not an approved             *)
(* administrator, a channel without a title: nothing is left to offer.       *)
NothingManaged ==
    /\ auth.step \in {"discover", "details"}
    /\ auth' = [auth EXCEPT !.step = "rest",
                    !.result = IF job.channel = "YOUTUBE" THEN "INSUFFICIENT_CAPABILITY"
                               ELSE "NO_MANAGEABLE_ACCOUNT"]
    /\ UNCHANGED publishing

(* LinkedIn looks up each organization by itself.                          *)
LooksUpOrganization ==
    /\ job.channel = "LINKEDIN" /\ auth.step = "discover"
    /\ auth' = [auth EXCEPT !.step = "details"]
    /\ UNCHANGED publishing

(* The publication mode the candidate is offered with *)
OfferedMode ==
    IF job.channel # "TIKTOK" \/ (app.audited /\ "public" \in options)
    THEN "PUBLIC" ELSE "PRIVATE_ONLY"

OffersAccounts ==
    /\ auth.step = (IF job.channel = "LINKEDIN" THEN "details" ELSE "discover")
    /\ auth' = [step |-> "rest", result |-> "ok", mode |-> OfferedMode]
    /\ UNCHANGED publishing

---------------------------------------------------------------------------
(* Publishing.  The caller makes another call while the last one failed.   *)

still == <<app, job, auth, options>>
Now == Len(receipts) + 1
Reports(status, code) ==
    /\ receipts' = Append(receipts, [status |-> status, code |-> code])
    /\ call' = Resting
Fails(code) == Reports("FAILED", Recorded(code))
Advances(step) == call' = [call EXCEPT !.step = step, !.polls = 0]

MayCall ==
    /\ auth.result = "ok" /\ call = Resting /\ Len(receipts) < MaxCalls
    /\ receipts # <<>> => receipts[Len(receipts)].status = "FAILED"

(* build_publish_payload, which the task engine calls first *)
PayloadBuilds ==
    CASE job.channel \in {"FACEBOOK", "LINKEDIN"} -> job.text
      [] job.channel = "INSTAGRAM" -> job.media # "none"
      [] OTHER -> job.media = "video"

(* What each connector checks of the request before it sends anything      *)
ConsentSuffices == job.consent \in {"foreign", "full"}
Accepts ==
    CASE job.channel \in {"FACEBOOK", "LINKEDIN"} -> job.text
      [] job.channel = "INSTAGRAM" -> job.media # "none"
      [] job.channel = "TIKTOK" -> ConsentSuffices
      [] job.channel = "YOUTUBE" -> job.consent = "full" /\ job.text /\ job.media = "video"

FirstStep ==
    CASE job.channel \in {"FACEBOOK", "LINKEDIN"} -> "post"
      [] job.channel = "INSTAGRAM" -> "container"
      [] job.channel = "TIKTOK" -> "creator"
      [] job.channel = "YOUTUBE" -> "load"

StartCall ==
    /\ MayCall
    /\ \/ job.caller = "task" /\ ~PayloadBuilds /\ Fails("VALIDATION_REJECTED")
       \/ /\ job.caller = "task" => PayloadBuilds
          /\ \/ ~Publishable /\ Fails("CONFIGURATION_REQUIRED")
             \/ Publishable /\ ~Accepts /\ Fails("VALIDATION_REJECTED")
             \/ Publishable /\ Accepts /\ Advances(FirstStep) /\ UNCHANGED receipts
    /\ UNCHANGED <<still, site>>

(* The token store does not resolve the credential *)
TokenUnavailable ==
    /\ call.step \in {"post", "container", "creator", "load"}
    /\ Fails("CONFIGURATION_REQUIRED")
    /\ UNCHANGED <<still, site>>

(* A request that creates nothing fails                                    *)
LookupFails ==
    /\ call.step \in {"creator", "load", "session"}
    /\ \E answer \in IF call.step = "load" THEN {"timeout", "broken"} ELSE Refusals \cup Doubtful :
          Fails(Outcome(answer))
    /\ UNCHANGED <<still, site>>

(* Requests that create something: the platform acts, or it does not.      *)
AddPost(public) == [site EXCEPT !.posts = @ \cup {[of |-> Now, public |-> public]}]

PublicPost ==
    IF job.channel \in {"TIKTOK", "YOUTUBE"} THEN job.visibility = "public" ELSE TRUE
TikTokVisibility_mut == job.visibility
TikTokVisibility == IF app.audited THEN job.visibility ELSE "private"

Effect ==
    CASE call.step = "container" -> [site EXCEPT !.container = TRUE]
      [] call.step = "init" -> [site EXCEPT !.underway = @ \cup {[of |-> Now, public |-> TikTokVisibility = "public"]}]
      [] OTHER -> AddPost(PublicPost)

Creating == {"post", "container", "publish", "init", "upload"}

CreationFails ==
    /\ call.step \in Creating
    /\ \/ \E answer \in Refusals \cup Doubtful : Fails(Outcome(answer)) /\ UNCHANGED site
       \/ \E answer \in Doubtful : Fails(Outcome(answer)) /\ site' = Effect
    /\ UNCHANGED still

(* The task engine cannot record a post without an id; the connectors for    *)
(* Facebook, Instagram and LinkedIn report one as a success.                 *)
Succeeds(status, withId) ==
    IF job.caller = "task" /\ ~withId THEN Fails("PUBLISH_FINALIZE_ERROR") ELSE Reports(status, "")

PostCreated_mut == call.step \in {"post", "container", "publish"}
PostCreated == call.step \in {"post", "publish"}
Posts ==
    /\ PostCreated
    /\ \E withId \in BOOLEAN : Succeeds("SUCCEEDED", withId)
    /\ site' = Effect
    /\ UNCHANGED still

(* LinkedIn is sent an idempotency key, and may answer with the first post *)
AnswersAgain ==
    /\ call.step = "post" /\ job.channel = "LINKEDIN" /\ site.posts # {}
    /\ Reports("SUCCEEDED", "")
    /\ UNCHANGED <<still, site>>

---------------------------------------------------------------------------
(* Instagram: a container, polled until it is ready, is then published.    *)

ContainerCreated ==
    /\ call.step = "container"
    /\ site' = Effect /\ Advances("poll")
    /\ UNCHANGED <<still, receipts>>

ContainerReady ==
    /\ job.channel = "INSTAGRAM" /\ call.step = "poll"
    /\ Advances("publish")
    /\ UNCHANGED <<still, site, receipts>>

LastPoll == call.polls + 1 = MaxPolls

ContainerPending ==
    /\ job.channel = "INSTAGRAM" /\ call.step = "poll"
    /\ IF LastPoll THEN Fails("PROVIDER_UNAVAILABLE")
       ELSE call' = [call EXCEPT !.polls = @ + 1] /\ UNCHANGED receipts
    /\ UNCHANGED <<still, site>>

ContainerFails ==
    /\ job.channel = "INSTAGRAM" /\ call.step = "poll"
    /\ \E code \in {"VALIDATION_REJECTED", "PROVIDER_UNAVAILABLE", "OUTCOME_UNKNOWN", "EXCEPTION"} :
          Fails(code)
    /\ UNCHANGED <<still, site>>

---------------------------------------------------------------------------
(* TikTok: the creator's options, the upload, the status until it is done. *)

(* A key that the consent lacks raises when it is read: the visibility       *)
(* before the options are looked at, the interactions after the video is.    *)
KeyMissing == job.consent # "full" /\ (app.audited \/ job.media = "video")

PlatformAllows == TikTokVisibility \in options /\ job.media = "video"

CreatorAnswers ==
    /\ call.step = "creator"
    /\ \/ KeyMissing /\ Fails("EXCEPTION")
       \/ /\ ~KeyMissing
          /\ IF PlatformAllows
             THEN Advances("init") /\ UNCHANGED receipts
             ELSE Fails("VALIDATION_REJECTED")
    /\ UNCHANGED <<still, site>>

UploadAccepted ==
    /\ call.step = "init"
    /\ \/ Advances("status") /\ UNCHANGED receipts
       \/ Fails("VALIDATION_REJECTED")           \* no publish_id
    /\ site' = Effect
    /\ UNCHANGED still

StatusComplete ==
    /\ call.step = "status" /\ \E p \in site.posts : p.of = Now
    /\ Reports(IF app.audited THEN "SUCCEEDED" ELSE "SUCCEEDED_PRIVATE", "")
    /\ UNCHANGED <<still, site>>

StatusFailed ==
    /\ call.step = "status" /\ \A p \in site.posts \cup site.underway : p.of # Now
    /\ Fails("VALIDATION_REJECTED")
    /\ UNCHANGED <<still, site>>

StatusUnclear ==
    /\ call.step = "status"
    /\ \/ \E answer \in Refusals \cup Doubtful : Fails(Outcome(answer))
       \/ IF LastPoll THEN Fails("PROVIDER_UNAVAILABLE")
          ELSE call' = [call EXCEPT !.polls = @ + 1] /\ UNCHANGED receipts
    /\ UNCHANGED <<still, site>>

(* The platform ends the processing of a video when it likes.              *)
VideoProcessed ==
    \E p \in site.underway :
       /\ site' = [site EXCEPT !.underway = @ \ {p}, !.posts = @ \cup {p}]
       /\ UNCHANGED <<still, call, receipts>>
VideoDropped ==
    \E p \in site.underway :
       /\ site' = [site EXCEPT !.underway = @ \ {p}]
       /\ UNCHANGED <<still, call, receipts>>

(* The creator's privacy_level_options change.                             *)
OptionsChange ==
    /\ job.channel = "TIKTOK" /\ auth.result = "ok"
    /\ auth.mode # "changed" /\ call = Resting
    /\ options' = IF "public" \in options THEN {"private"} ELSE {"private", "public"}
    /\ auth' = [auth EXCEPT !.mode = "changed"]
    /\ UNCHANGED <<app, job, call, site, receipts>>

---------------------------------------------------------------------------
(* YouTube: the media is loaded, an upload session opened, the file sent.  *)

MediaLoaded ==
    /\ call.step = "load"
    /\ \/ Advances("session") /\ UNCHANGED receipts
       \/ Fails("VALIDATION_REJECTED")
    /\ UNCHANGED <<still, site>>

SessionOpened ==
    /\ call.step = "session"
    /\ \/ Advances("upload") /\ UNCHANGED receipts
       \/ Fails("PROVIDER_UNAVAILABLE")          \* no usable upload address
    /\ UNCHANGED <<still, site>>

Uploaded ==
    /\ call.step = "upload"
    /\ \/ Reports(IF job.visibility = "private" THEN "SUCCEEDED_PRIVATE" ELSE "SUCCEEDED", "")
       \/ Fails("PROVIDER_UNAVAILABLE")          \* no video id
    /\ site' = Effect
    /\ UNCHANGED still

---------------------------------------------------------------------------
ConnectorsNext ==
    \/ BeginAuthorization \/ AuthorizationFails \/ ExchangeIncomplete \/ Exchanged
    \/ NothingManaged \/ LooksUpOrganization \/ OffersAccounts
    \/ StartCall \/ TokenUnavailable \/ LookupFails \/ CreationFails \/ Posts \/ AnswersAgain
    \/ ContainerCreated \/ ContainerReady \/ ContainerPending \/ ContainerFails
    \/ CreatorAnswers \/ UploadAccepted \/ StatusComplete \/ StatusFailed \/ StatusUnclear
    \/ VideoProcessed \/ VideoDropped \/ OptionsChange
    \/ MediaLoaded \/ SessionOpened \/ Uploaded

ConnectorsSpec == ConnectorsInit /\ [][ConnectorsNext]_connectorVars

---------------------------------------------------------------------------
(* Properties *)

Made(n) == {p \in site.posts \cup site.underway : p.of = n}

(* The types; and a call at rest has nothing left to poll.                 *)
ConnectorsTypeOK ==
    /\ app \in Config /\ job \in Request
    /\ site.posts \subseteq Post /\ site.underway \subseteq Post
    /\ receipts \in Seq(Receipt) /\ Len(receipts) <= MaxCalls
    /\ call.polls \in 0..(MaxPolls - 1)
    /\ call # Resting => Len(receipts) < MaxCalls

(* What the connectors answer is true of the platform.  A success is never   *)
(* reported without the post, nor a public post as a private one, though     *)
(* LinkedIn may have answered with the post of an earlier call.  A definite  *)
(* refusal left nothing behind that is or may become a post.  That clause    *)
(* leaves TikTok out altogether: a status request refused after the upload   *)
(* was accepted is answered with the code of an upload that was refused, so  *)
(* no definite code tells the two apart.                                     *)
Definite == {"REAUTHORIZATION_REQUIRED", "RATE_LIMITED", "VALIDATION_REJECTED",
             "CONFIGURATION_REQUIRED"}
AnswersAreTrue ==
    \A n \in DOMAIN receipts :
       /\ receipts[n].status # "FAILED" =>
             \E p \in site.posts :
                /\ p.of = n \/ (job.channel = "LINKEDIN" /\ p.of < n)
                /\ receipts[n].status = "SUCCEEDED_PRIVATE" => ~p.public
       /\ receipts[n].code \in Definite /\ job.channel # "TIKTOK" => Made(n) = {}

(* Whatever the checks and the retries, a public post was made by an         *)
(* audited application, and on TikTok and YouTube under a complete consent   *)
(* to a public one.                                                          *)
PublicOnlyWhenAsked ==
    \A p \in site.posts \cup site.underway :
       /\ p.public => app.audited
       /\ job.channel \in {"TIKTOK", "YOUTUBE"} =>
             job.consent = "full" /\ (p.public => job.visibility = "public")

(* What base.py says of a timeout, and what the code does not do: that the   *)
(* result is verified before the publication is tried again.                 *)
UnknownOutcomeIsVerified ==
    \A p, q \in site.posts :
       p.of < q.of => receipts[p.of].code # "OUTCOME_UNKNOWN"

=============================================================================
