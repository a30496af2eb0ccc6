----------------------------- MODULE ChannelsProofs -----------------------------
(*****************************************************************************)
(* Safety of the platform connectors and of the social accounts, for every   *)
(* set of channels, accounts and requests and every bound.  ConnectorInv and *)
(* AccountInv are inductive: the one says what a call's step has shown, the  *)
(* other who may hold which row of the token store at every commit.          *)
(*****************************************************************************)
EXTENDS SocialChannels, SequenceTheorems, TLAPS

-----------------------------------------------------------------------------
(* Connectors.  What a connector answers is true because of what it checked  *)
(* on the way: the step a call has reached says which channel it is for and  *)
(* what was accepted before, and a call that is not finished has put nothing *)
(* at the platform, an accepted TikTok upload apart.                         *)

CallSteps == {"rest", "post", "container", "poll", "publish", "creator", "init", "status",
              "load", "session", "upload"}

CallFits ==
  /\ call \in [step: CallSteps, polls: 0..(MaxPolls - 1)]
  /\ call # Resting => Len(receipts) < MaxCalls
  /\ call.step # "rest" => Accepts /\ (app.audited \/ job.channel = "TIKTOK")
  /\ call.step = "post" => job.channel \in {"FACEBOOK", "LINKEDIN"}
  /\ call.step \in {"container", "poll", "publish"} => job.channel = "INSTAGRAM"
  /\ call.step \in {"creator", "init", "status"} => job.channel = "TIKTOK"
  /\ call.step \in {"load", "session", "upload"} => job.channel = "YOUTUBE"
  /\ call.step \in {"init", "status"} => job.consent = "full"

\* A post the platform may be given for the request there is.
Allowed(p) ==
  /\ p \in Post
  /\ p.public => app.audited
  /\ job.channel \in {"TIKTOK", "YOUTUBE"} =>
       job.consent = "full" /\ (p.public => job.visibility = "public")

AllPosts == site.posts \cup site.underway

SiteFits ==
  /\ site \in [posts: SUBSET Post, underway: SUBSET Post, container: BOOLEAN]
  /\ \A p \in AllPosts : Allowed(p)
  /\ \A p \in AllPosts : p.of <= Len(receipts) \/ (p.of = Now /\ call.step = "status")
  /\ job.channel # "TIKTOK" => site.underway = {}

ReceiptsFit == receipts \in Seq(Receipt) /\ Len(receipts) <= MaxCalls

\* What AnswersAreTrue says of one receipt.
Truthful(n, receipt, posts, made) ==
  /\ receipt.status # "FAILED" =>
       \E p \in posts :
          /\ p.of = n \/ (job.channel = "LINKEDIN" /\ p.of < n)
          /\ receipt.status = "SUCCEEDED_PRIVATE" => ~p.public
  /\ receipt.code \in Definite /\ job.channel # "TIKTOK" => \A p \in made : p.of # n

ConnectorInv ==
  /\ app \in Config /\ job \in Request
  /\ ReceiptsFit /\ CallFits /\ SiteFits
  /\ \A n \in DOMAIN receipts : Truthful(n, receipts[n], site.posts, AllPosts)

LEMMA ConnectorsBegin == ConnectorsInit => ConnectorInv
<1> SUFFICES ASSUME ConnectorsInit PROVE ConnectorInv
  OBVIOUS
<1>1. /\ call = [step |-> "rest", polls |-> 0] /\ receipts = <<>>
      /\ site = [posts |-> {}, underway |-> {}, container |-> FALSE]
      /\ app \in Config /\ job \in Request
  BY DEF ConnectorsInit, Resting
<1>2. CallFits
  BY <1>1, ConnectorsAssumption DEF CallFits, CallSteps, Resting
<1>3. SiteFits
  BY <1>1 DEF SiteFits, AllPosts
<1>4. ReceiptsFit /\ DOMAIN receipts = {}
  BY <1>1, ConnectorsAssumption DEF ReceiptsFit
<1> QED
  BY <1>1, <1>2, <1>3, <1>4 DEF ConnectorInv

\* The receipts there are stay truthful while the platform only adds posts of the
\* call being made, or drops what was underway.
SiteGrows ==
  /\ site.posts \subseteq site'.posts
  /\ \A p \in AllPosts' : p \in AllPosts \/ p.of = Now

LEMMA OldReceiptsStayTrue ==
  ASSUME ConnectorInv, UNCHANGED job, SiteGrows, NEW n \in 1..Len(receipts)
  PROVE  Truthful(n, receipts[n], site'.posts, AllPosts')
<1>1. Truthful(n, receipts[n], site.posts, AllPosts) /\ n # Now /\ n \in DOMAIN receipts
  BY DEF ConnectorInv, Now, ReceiptsFit
<1> QED
  BY <1>1 DEF Truthful, SiteGrows

\* The call ends with a receipt.
LEMMA Reporting ==
  ASSUME ConnectorInv, UNCHANGED <<app, job>>, Len(receipts) < MaxCalls, SiteGrows,
         NEW status, NEW code, [status |-> status, code |-> code] \in Receipt, Reports(status, code),
         site' \in [posts: SUBSET Post, underway: SUBSET Post, container: BOOLEAN],
         \A p \in AllPosts' : Allowed(p),
         job.channel # "TIKTOK" => site'.underway = {},
         Truthful(Now, [status |-> status, code |-> code], site'.posts, AllPosts')
  PROVE  ConnectorInv'
<1> DEFINE r == [status |-> status, code |-> code]
<1>1. /\ receipts' = Append(receipts, r) /\ receipts \in Seq(Receipt) /\ r \in Receipt
      /\ call' = Resting
  BY DEF Reports, ConnectorInv, ReceiptsFit
<1> HIDE DEF r
<1>2. /\ receipts' \in Seq(Receipt) /\ Len(receipts') = Now
      /\ \A n \in 1..Len(receipts) : receipts'[n] = receipts[n]
      /\ receipts'[Now] = r /\ DOMAIN receipts' = 1..Now /\ Len(receipts) \in Nat
  BY <1>1 DEF Now
<1>3. ReceiptsFit'
  BY <1>2, ConnectorsAssumption DEF ReceiptsFit, Now
<1>4. CallFits'
  BY <1>1, ConnectorsAssumption DEF CallFits, Resting, CallSteps
<1>5. \A p \in AllPosts' : p.of <= Len(receipts')
  BY <1>2, ConnectorsAssumption DEF SiteGrows, ConnectorInv, SiteFits, Now, Allowed, Post
<1>6. SiteFits'
  BY <1>5 DEF SiteFits, Allowed
<1>7. ASSUME NEW n \in 1..Now
      PROVE  Truthful(n, receipts'[n], site'.posts, AllPosts')
  <2>1. CASE n = Now
    BY <1>2, <2>1 DEF r
  <2>2. CASE n # Now
    BY <1>2, <2>2, OldReceiptsStayTrue DEF Now
  <2> QED
    BY <2>1, <2>2
<1>8. (\A n \in DOMAIN receipts : Truthful(n, receipts[n], site.posts, AllPosts))'
  BY <1>2, <1>7 DEF Truthful
<1> QED
  BY <1>3, <1>4, <1>6, <1>8 DEF ConnectorInv

\* The call goes on, or something happens at the platform.
LEMMA GoingOn ==
  ASSUME ConnectorInv, UNCHANGED <<app, job, receipts>>, CallFits', SiteFits', SiteGrows
  PROVE  ConnectorInv'
<1>1. ReceiptsFit'
  BY DEF ConnectorInv, ReceiptsFit
<1>2. DOMAIN receipts = 1..Len(receipts)
  BY DEF ConnectorInv, ReceiptsFit
<1>3. (\A n \in DOMAIN receipts : Truthful(n, receipts[n], site.posts, AllPosts))'
  BY <1>2, OldReceiptsStayTrue DEF Truthful
<1> QED
  BY <1>1, <1>3 DEF ConnectorInv

\* Neither the site nor the receipts move.
LEMMA Proceeding ==
  ASSUME ConnectorInv, UNCHANGED <<app, job, receipts, site>>, CallFits',
         call.step # "status" \/ call'.step = "status"
  PROVE  ConnectorInv'
<1>1. SiteFits'
  BY DEF ConnectorInv, SiteFits, AllPosts, Allowed, Now
<1>2. SiteGrows
  BY DEF SiteGrows, AllPosts
<1> QED
  BY <1>1, <1>2, GoingOn

\* A failure that leaves the site alone: whatever its code, nothing was posted.
LEMMA Failing ==
  ASSUME ConnectorInv, UNCHANGED <<app, job, site>>, Len(receipts) < MaxCalls,
         NEW code \in Codes, Fails(code)
  PROVE  ConnectorInv'
<1>1. Recorded(code) \in Codes
  BY DEF Recorded, Codes
<1>2. Reports("FAILED", Recorded(code)) /\ [status |-> "FAILED", code |-> Recorded(code)] \in Receipt
  BY <1>1 DEF Fails, Receipt
<1>3. AllPosts' = AllPosts /\ SiteGrows
  BY DEF AllPosts, SiteGrows
<1>4. job.channel # "TIKTOK" => \A p \in AllPosts : p.of # Now
  BY ConnectorsAssumption DEF ConnectorInv, SiteFits, CallFits, Now, Allowed, Post, ReceiptsFit
<1>5. Truthful(Now, [status |-> "FAILED", code |-> Recorded(code)], site'.posts, AllPosts')
  BY <1>3, <1>4 DEF Truthful
<1>6. /\ site' \in [posts: SUBSET Post, underway: SUBSET Post, container: BOOLEAN]
      /\ \A p \in AllPosts' : Allowed(p)
      /\ job.channel # "TIKTOK" => site'.underway = {}
  BY <1>3 DEF ConnectorInv, SiteFits
<1> QED
  BY <1>2, <1>3, <1>5, <1>6, Reporting

\* Outcomes a platform that acted may be answered with.
Undecided == {"PROVIDER_UNAVAILABLE", "OUTCOME_UNKNOWN", "EXCEPTION", "PUBLISH_FINALIZE_ERROR",
              "PROVIDER_ERROR"}

LEMMA RecordedStays ==
  /\ \A code \in Codes : Recorded(code) \in Codes
  /\ \A code \in Undecided : code \in Codes /\ Recorded(code) \in Undecided
  /\ Undecided \cap Definite = {}
BY DEF Recorded, Codes, Undecided, Definite

LEMMA Outcomes ==
  /\ \A answer \in Refusals \cup Doubtful : Outcome(answer) \in Codes
  /\ \A answer \in Doubtful : Outcome(answer) \in Undecided
BY DEF Refusals, Doubtful, Outcome, Failure, Codes, Undecided

\* The site gains what this call made: a container, a video under way or a post.
Makes ==
  /\ site' \in [posts: SUBSET Post, underway: SUBSET Post, container: BOOLEAN]
  /\ SiteGrows
  /\ \A p \in AllPosts' : Allowed(p)
  /\ job.channel # "TIKTOK" => site'.underway = {}

LEMMA ToldUnclearly ==
  ASSUME ConnectorInv, UNCHANGED <<app, job>>, Len(receipts) < MaxCalls, Makes,
         NEW code \in Undecided, Fails(code)
  PROVE  ConnectorInv'
<1>1. Recorded(code) \in Undecided /\ Recorded(code) \in Codes /\ Recorded(code) \notin Definite
  BY RecordedStays
<1>2. Reports("FAILED", Recorded(code)) /\ [status |-> "FAILED", code |-> Recorded(code)] \in Receipt
  BY <1>1 DEF Fails, Receipt
<1>3. Truthful(Now, [status |-> "FAILED", code |-> Recorded(code)], site'.posts, AllPosts')
  BY <1>1 DEF Truthful
<1> QED
  BY <1>2, <1>3, Reporting DEF Makes

LEMMA ToldTruly ==
  ASSUME ConnectorInv, UNCHANGED <<app, job>>, Len(receipts) < MaxCalls, Makes,
         NEW status \in {"SUCCEEDED", "SUCCEEDED_PRIVATE"}, Reports(status, ""),
         NEW p \in site'.posts, p.of = Now \/ (job.channel = "LINKEDIN" /\ p.of < Now),
         status = "SUCCEEDED_PRIVATE" => ~p.public
  PROVE  ConnectorInv'
<1>1. [status |-> status, code |-> ""] \in Receipt
  BY DEF Receipt
<1>2. Truthful(Now, [status |-> status, code |-> ""], site'.posts, AllPosts')
  BY DEF Truthful, Definite
<1> QED
  BY <1>1, <1>2, Reporting DEF Makes

LEMMA SiteMakes ==
  ASSUME ConnectorInv, Len(receipts) < MaxCalls,
         NEW p \in Post, p.of = Now, Allowed(p),
         \/ site' = [site EXCEPT !.posts = site.posts \cup {p}]
         \/ job.channel = "TIKTOK" /\ site' = [site EXCEPT !.underway = site.underway \cup {p}]
  PROVE  Makes /\ AllPosts' = AllPosts \cup {p}
BY DEF ConnectorInv, SiteFits, Makes, SiteGrows, AllPosts

LEMMA NowIsACall ==
  ASSUME ConnectorInv, Len(receipts) < MaxCalls
  PROVE  Now \in 1..MaxCalls
BY ConnectorsAssumption DEF ConnectorInv, ReceiptsFit, Now

\* What a request for something new leaves at the platform when it acts.
LEMMA Effects ==
  ASSUME ConnectorInv, UNCHANGED <<app, job>>, call.step \in Creating, site' = Effect
  PROVE  /\ Makes /\ Len(receipts) < MaxCalls
         /\ call.step \in {"post", "publish", "upload"} =>
              \E p \in site'.posts : p.of = Now /\ (p.public <=> PublicPost)
         /\ \A p \in AllPosts' : p \in AllPosts \/ p.of = Now
<1>1. Len(receipts) < MaxCalls /\ Accepts /\ (app.audited \/ job.channel = "TIKTOK")
  BY DEF ConnectorInv, CallFits, Creating, Resting
<1>2. CASE call.step = "container"
  BY <1>1, <1>2 DEF ConnectorInv, SiteFits, Effect, Makes, SiteGrows, AllPosts
<1>3. CASE call.step = "init"
  <2> DEFINE p == [of |-> Now, public |-> TikTokVisibility = "public"]
  <2>1. job.channel = "TIKTOK" /\ job.consent = "full"
    BY <1>3 DEF ConnectorInv, CallFits
  <2>2. p \in Post /\ p.of = Now
    BY <1>1, NowIsACall DEF Post
  <2>3. p.public => app.audited /\ job.visibility = "public"
    BY DEF TikTokVisibility
  <2>4. Allowed(p)
    BY <2>1, <2>2, <2>3 DEF Allowed
  <2>5. site' = [site EXCEPT !.underway = site.underway \cup {p}]
    BY <1>3 DEF Effect
  <2> HIDE DEF p
  <2> QED
    BY <1>1, <1>3, <2>1, <2>2, <2>4, <2>5, SiteMakes
<1>4. CASE call.step \in {"post", "publish", "upload"}
  <2> DEFINE p == [of |-> Now, public |-> PublicPost]
  <2>1. job.channel \in {"FACEBOOK", "LINKEDIN", "INSTAGRAM", "YOUTUBE"}
    BY <1>4 DEF ConnectorInv, CallFits
  <2>2. job.channel = "YOUTUBE" => job.consent = "full"
    BY <1>1 DEF Accepts
  <2>3. p \in Post /\ p.of = Now /\ (p.public <=> PublicPost)
    BY <1>1, NowIsACall DEF Post, PublicPost
  <2>4. job.channel \in {"TIKTOK", "YOUTUBE"} => (p.public => job.visibility = "public")
    BY DEF PublicPost
  <2>5. Allowed(p)
    BY <1>1, <2>1, <2>2, <2>3, <2>4 DEF Allowed
  <2>6. site' = [site EXCEPT !.posts = site.posts \cup {p}]
    BY <1>4 DEF Effect, AddPost
  <2> HIDE DEF p
  <2>7. p \in site'.posts
    BY <2>6 DEF ConnectorInv, SiteFits
  <2> QED
    BY <1>1, <2>3, <2>5, <2>6, <2>7, SiteMakes DEF Makes, SiteGrows
<1> QED
  BY <1>2, <1>3, <1>4 DEF Creating

-----------------------------------------------------------------------------
(* Every step of the connectors preserves ConnectorInv. *)

LEMMA AuthorizationSteps ==
  ASSUME ConnectorInv,
         \/ BeginAuthorization \/ AuthorizationFails \/ ExchangeIncomplete \/ Exchanged
         \/ NothingManaged \/ LooksUpOrganization \/ OffersAccounts \/ OptionsChange
         \/ UNCHANGED connectorVars
  PROVE  ConnectorInv'
<1>1. UNCHANGED <<app, job, call, site, receipts>>
  BY DEF BeginAuthorization, AuthorizationFails, ExchangeIncomplete, Exchanged, NothingManaged,
         LooksUpOrganization, OffersAccounts, OptionsChange, publishing, connectorVars
<1>2. CallFits'
  BY <1>1 DEF ConnectorInv, CallFits, Accepts, ConsentSuffices
<1> QED
  BY <1>1, <1>2, Proceeding

\* The call moves to a step the request was checked for.
LEMMA AdvancesTo ==
  ASSUME ConnectorInv, UNCHANGED <<app, job, receipts, site>>, Len(receipts) < MaxCalls,
         NEW step \in CallSteps, Advances(step),
         call.step # "status",
         step # "rest" => Accepts /\ (app.audited \/ job.channel = "TIKTOK"),
         step = "post" => job.channel \in {"FACEBOOK", "LINKEDIN"},
         step \in {"container", "poll", "publish"} => job.channel = "INSTAGRAM",
         step \in {"creator", "init", "status"} => job.channel = "TIKTOK",
         step \in {"load", "session", "upload"} => job.channel = "YOUTUBE",
         step \in {"init", "status"} => job.consent = "full"
  PROVE  ConnectorInv'
<1>1. call'.step = step /\ call' \in [step: CallSteps, polls: 0..(MaxPolls - 1)]
  <2>1. call \in [step: CallSteps, polls: 0..(MaxPolls - 1)] /\ 0 \in 0..(MaxPolls - 1)
    BY ConnectorsAssumption DEF ConnectorInv, CallFits
  <2>2. call' = [[call EXCEPT !.step = step] EXCEPT !.polls = 0]
    BY DEF Advances
  <2> QED
    BY <2>1, <2>2
<1>2. CallFits'
  BY <1>1 DEF CallFits, Accepts, ConsentSuffices
<1> QED
  BY <1>2, Proceeding

\* What is known of a call that is being made.
LEMMA BeingMade ==
  ASSUME ConnectorInv, call.step # "rest"
  PROVE  /\ Len(receipts) < MaxCalls /\ Accepts /\ (app.audited \/ job.channel = "TIKTOK")
         /\ call \in [step: CallSteps, polls: 0..(MaxPolls - 1)]
         /\ job \in Request /\ job.channel \in Channels /\ app \in Config
BY DEF ConnectorInv, CallFits, Resting, Request

LEMMA PollsAgain ==
  ASSUME ConnectorInv, UNCHANGED <<app, job, receipts, site>>, ~LastPoll, call.step # "rest",
         call' = [call EXCEPT !.polls = call.polls + 1]
  PROVE  ConnectorInv'
<1>1. call.polls + 1 \in 0..(MaxPolls - 1)
  BY BeingMade, ConnectorsAssumption DEF LastPoll
<1>2. call' \in [step: CallSteps, polls: 0..(MaxPolls - 1)] /\ call'.step = call.step
  BY <1>1, BeingMade
<1>3. CallFits'
  BY <1>2, BeingMade DEF ConnectorInv, CallFits, Accepts, ConsentSuffices
<1> QED
  BY <1>2, <1>3, Proceeding

LEMMA StartSteps ==
  ASSUME ConnectorInv, StartCall
  PROVE  ConnectorInv'
<1>1. Len(receipts) < MaxCalls /\ call.step = "rest" /\ UNCHANGED <<app, job, site>>
  BY DEF StartCall, MayCall, Resting, still
<1>2. CASE Fails("VALIDATION_REJECTED") \/ Fails("CONFIGURATION_REQUIRED")
  BY <1>1, <1>2, Failing DEF Codes
<1>3. CASE Publishable /\ Accepts /\ Advances(FirstStep) /\ UNCHANGED receipts
  <2>1. job.channel \in {"FACEBOOK", "INSTAGRAM", "LINKEDIN", "TIKTOK", "YOUTUBE"}
    BY ConnectorsAssumption DEF ConnectorInv, Request
  <2>2. app.audited \/ job.channel = "TIKTOK"
    BY <1>3 DEF Publishable
  <2>3. /\ FirstStep \in CallSteps
        /\ FirstStep = "post" => job.channel \in {"FACEBOOK", "LINKEDIN"}
        /\ FirstStep \in {"container", "poll", "publish"} => job.channel = "INSTAGRAM"
        /\ FirstStep \in {"creator", "init", "status"} => job.channel = "TIKTOK"
        /\ FirstStep \in {"load", "session", "upload"} => job.channel = "YOUTUBE"
        /\ FirstStep \notin {"init", "status"}
    BY <2>1 DEF FirstStep, CallSteps
  <2> QED
    BY <1>1, <1>3, <2>2, <2>3, AdvancesTo
<1> QED
  BY <1>2, <1>3 DEF StartCall

LEMMA FailingSteps ==
  ASSUME ConnectorInv, TokenUnavailable \/ LookupFails \/ ContainerFails \/ StatusFailed
  PROVE  ConnectorInv'
<1>1. call.step # "rest" /\ UNCHANGED <<app, job, site>>
  BY DEF TokenUnavailable, LookupFails, ContainerFails, StatusFailed, still
<1>2. \E code \in Codes : Fails(code)
  BY Outcomes DEF TokenUnavailable, LookupFails, ContainerFails, StatusFailed, Codes, Doubtful
<1> QED
  BY <1>1, <1>2, BeingMade, Failing

LEMMA CreationSteps ==
  ASSUME ConnectorInv, CreationFails
  PROVE  ConnectorInv'
<1>1. call.step \in Creating /\ call.step # "rest" /\ UNCHANGED <<app, job>>
  BY DEF CreationFails, Creating, still
<1>2. ASSUME NEW answer \in Refusals \cup Doubtful, Fails(Outcome(answer)), UNCHANGED site
      PROVE  ConnectorInv'
  BY <1>1, <1>2, BeingMade, Outcomes, Failing
<1>3. ASSUME NEW answer \in Doubtful, Fails(Outcome(answer)), site' = Effect
      PROVE  ConnectorInv'
  BY <1>1, <1>3, Effects, Outcomes, ToldUnclearly
<1> QED
  BY <1>2, <1>3 DEF CreationFails

LEMMA PostSteps ==
  ASSUME ConnectorInv, Posts \/ Uploaded
  PROVE  ConnectorInv'
<1>1. /\ call.step \in {"post", "publish", "upload"} /\ call.step \in Creating
      /\ UNCHANGED <<app, job>> /\ site' = Effect
  BY DEF Posts, PostCreated, Uploaded, Creating, still
<1>2. Makes /\ Len(receipts) < MaxCalls
  BY <1>1, Effects
<1>3. PICK p \in site'.posts : p.of = Now /\ (p.public <=> PublicPost)
  BY <1>1, Effects
<1>4. CASE Fails("PUBLISH_FINALIZE_ERROR") \/ Fails("PROVIDER_UNAVAILABLE")
  BY <1>1, <1>2, <1>4, ToldUnclearly DEF Undecided
<1>5. CASE Reports("SUCCEEDED", "")
  BY <1>1, <1>2, <1>3, <1>5, ToldTruly
<1>6. CASE Reports("SUCCEEDED_PRIVATE", "") /\ call.step = "upload" /\ job.visibility = "private"
  <2>1. job.channel = "YOUTUBE"
    BY <1>6 DEF ConnectorInv, CallFits
  <2>2. ~p.public
    BY <1>3, <1>6, <2>1 DEF PublicPost
  <2> QED
    BY <1>1, <1>2, <1>3, <1>6, <2>2, ToldTruly
<1> QED
  BY <1>4, <1>5, <1>6 DEF Posts, Uploaded, Succeeds

LEMMA AnswerSteps ==
  ASSUME ConnectorInv, AnswersAgain
  PROVE  ConnectorInv'
<1>1. /\ call.step = "post" /\ job.channel = "LINKEDIN" /\ site.posts # {}
      /\ Reports("SUCCEEDED", "") /\ UNCHANGED <<app, job, site>>
  BY DEF AnswersAgain, still
<1>2. Makes
  BY <1>1 DEF Makes, SiteGrows, AllPosts, ConnectorInv, SiteFits
<1>3. PICK p \in site'.posts : p \in AllPosts
  BY <1>1 DEF AllPosts
<1>4. p.of < Now
  <2>1. p \in Post /\ p.of <= Len(receipts)
    BY <1>1, <1>3 DEF ConnectorInv, SiteFits, Allowed
  <2>2. p.of \in Int /\ Len(receipts) \in Nat
    BY <2>1, ConnectorsAssumption DEF Post, ConnectorInv, ReceiptsFit
  <2> QED
    BY <2>1, <2>2 DEF Now
<1> QED
  BY <1>1, <1>2, <1>3, <1>4, BeingMade, ToldTruly

LEMMA ContainerSteps ==
  ASSUME ConnectorInv, ContainerCreated \/ ContainerReady \/ ContainerPending
  PROVE  ConnectorInv'
<1>1. call.step # "rest" /\ call.step # "status" /\ UNCHANGED <<app, job>>
  BY DEF ContainerCreated, ContainerReady, ContainerPending, still
<1>2. CASE ContainerCreated
  <2>1. /\ call.step = "container" /\ site' = [site EXCEPT !.container = TRUE]
        /\ Advances("poll") /\ UNCHANGED receipts
    BY <1>2 DEF ContainerCreated, Effect
  <2>2. /\ site.posts' = site.posts /\ site.underway' = site.underway
        /\ site' \in [posts: SUBSET Post, underway: SUBSET Post, container: BOOLEAN]
    BY <2>1 DEF ConnectorInv, SiteFits
  <2>3. call'.step = "poll" /\ call' \in [step: CallSteps, polls: 0..(MaxPolls - 1)]
    <3>1. call \in [step: CallSteps, polls: 0..(MaxPolls - 1)] /\ 0 \in 0..(MaxPolls - 1)
      BY <1>1, BeingMade, ConnectorsAssumption
    <3>2. call' = [[call EXCEPT !.step = "poll"] EXCEPT !.polls = 0]
      BY <2>1 DEF Advances
    <3> QED
      BY <3>1, <3>2 DEF CallSteps
  <2>4. CallFits'
    BY <1>1, <2>1, <2>3, BeingMade DEF ConnectorInv, CallFits, Accepts, ConsentSuffices
  <2>5. SiteFits' /\ SiteGrows
    BY <1>1, <2>1, <2>2 DEF ConnectorInv, SiteFits, SiteGrows, AllPosts, Allowed, Now
  <2> QED
    BY <1>1, <2>1, <2>4, <2>5, GoingOn
<1>3. CASE ContainerReady
  BY <1>1, <1>3, BeingMade, AdvancesTo DEF ContainerReady, CallSteps, still
<1>4. CASE ContainerPending
  <2>1. CASE LastPoll
    BY <1>1, <1>4, <2>1, BeingMade, Failing DEF ContainerPending, Codes, still
  <2>2. CASE ~LastPoll
    BY <1>1, <1>4, <2>2, PollsAgain DEF ContainerPending, still
  <2> QED
    BY <2>1, <2>2
<1> QED
  BY <1>2, <1>3, <1>4

LEMMA CreatorSteps ==
  ASSUME ConnectorInv, CreatorAnswers
  PROVE  ConnectorInv'
<1>1. call.step = "creator" /\ job.channel = "TIKTOK" /\ UNCHANGED <<app, job, site>>
  BY DEF CreatorAnswers, ConnectorInv, CallFits, still
<1>2. CASE Fails("EXCEPTION") \/ Fails("VALIDATION_REJECTED")
  BY <1>1, <1>2, BeingMade, Failing DEF Codes
<1>3. CASE ~KeyMissing /\ PlatformAllows /\ Advances("init") /\ UNCHANGED receipts
  <2>1. job.consent = "full"
    BY <1>3 DEF KeyMissing, PlatformAllows
  <2> QED
    BY <1>1, <1>3, <2>1, BeingMade, AdvancesTo DEF CallSteps
<1> QED
  BY <1>2, <1>3 DEF CreatorAnswers

LEMMA AcceptSteps ==
  ASSUME ConnectorInv, UploadAccepted
  PROVE  ConnectorInv'
<1>1. /\ call.step = "init" /\ call.step \in Creating /\ call.step # "rest"
      /\ UNCHANGED <<app, job>> /\ site' = Effect
      /\ job.channel = "TIKTOK" /\ job.consent = "full"
  BY DEF UploadAccepted, ConnectorInv, CallFits, Creating, still
<1>2. Makes /\ \A p \in AllPosts' : p \in AllPosts \/ p.of = Now
  BY <1>1, Effects
<1>3. CASE Fails("VALIDATION_REJECTED")
  <2>1. Recorded("VALIDATION_REJECTED") \in Codes
    BY RecordedStays DEF Codes
  <2>2. /\ Reports("FAILED", Recorded("VALIDATION_REJECTED"))
        /\ [status |-> "FAILED", code |-> Recorded("VALIDATION_REJECTED")] \in Receipt
    BY <1>3, <2>1 DEF Fails, Receipt
  <2>3. Truthful(Now, [status |-> "FAILED", code |-> Recorded("VALIDATION_REJECTED")],
                 site'.posts, AllPosts')
    BY <1>1 DEF Truthful
  <2> QED
    BY <1>1, <1>2, <2>2, <2>3, BeingMade, Reporting DEF Makes
<1>4. CASE Advances("status") /\ UNCHANGED receipts
  <2>1. call'.step = "status" /\ call' \in [step: CallSteps, polls: 0..(MaxPolls - 1)]
    <3>1. call \in [step: CallSteps, polls: 0..(MaxPolls - 1)] /\ 0 \in 0..(MaxPolls - 1)
      BY <1>1, BeingMade, ConnectorsAssumption
    <3>2. call' = [[call EXCEPT !.step = "status"] EXCEPT !.polls = 0]
      BY <1>4 DEF Advances
    <3> QED
      BY <3>1, <3>2 DEF CallSteps
  <2>2. CallFits'
    BY <1>1, <1>4, <2>1, BeingMade DEF CallFits, Accepts, ConsentSuffices
  <2>3. \A p \in AllPosts' : p.of <= Len(receipts) \/ p.of = Now
    BY <1>1, <1>2 DEF ConnectorInv, SiteFits
  <2>4. SiteFits'
    BY <1>1, <1>2, <1>4, <2>1, <2>3 DEF Makes, SiteFits, Allowed, Now
  <2> QED
    BY <1>1, <1>2, <1>4, <2>2, <2>4, GoingOn DEF Makes
<1> QED
  BY <1>3, <1>4 DEF UploadAccepted

LEMMA StatusSteps ==
  ASSUME ConnectorInv, StatusComplete \/ StatusUnclear
  PROVE  ConnectorInv'
<1>1. call.step = "status" /\ call.step # "rest" /\ UNCHANGED <<app, job, site>>
  BY DEF StatusComplete, StatusUnclear, still
<1>2. CASE StatusComplete
  <2>1. PICK p \in site.posts : p.of = Now
    BY <1>2 DEF StatusComplete
  <2>2. Makes
    BY <1>1 DEF Makes, SiteGrows, AllPosts, ConnectorInv, SiteFits
  <2>3. p.public => app.audited
    BY DEF ConnectorInv, SiteFits, AllPosts, Allowed
  <2>4. CASE app.audited /\ Reports("SUCCEEDED", "")
    BY <1>1, <2>1, <2>2, <2>4, BeingMade, ToldTruly
  <2>5. CASE ~app.audited /\ Reports("SUCCEEDED_PRIVATE", "")
    BY <1>1, <2>1, <2>2, <2>3, <2>5, BeingMade, ToldTruly
  <2> QED
    BY <1>2, <2>4, <2>5 DEF StatusComplete
<1>3. CASE StatusUnclear
  <2>1. CASE \E code \in Codes : Fails(code)
    BY <1>1, <2>1, BeingMade, Failing
  <2>2. CASE ~LastPoll /\ call' = [call EXCEPT !.polls = call.polls + 1] /\ UNCHANGED receipts
    BY <1>1, <2>2, PollsAgain
  <2> QED
    BY <1>3, <2>1, <2>2, Outcomes DEF StatusUnclear, Codes
<1> QED
  BY <1>2, <1>3

LEMMA VideoSteps ==
  ASSUME ConnectorInv, VideoProcessed \/ VideoDropped
  PROVE  ConnectorInv'
<1>1. UNCHANGED <<app, job, call, receipts>>
  BY DEF VideoProcessed, VideoDropped, still
<1>2. /\ site' \in [posts: SUBSET Post, underway: SUBSET Post, container: BOOLEAN]
      /\ site.posts \subseteq site'.posts /\ AllPosts' \subseteq AllPosts
      /\ site'.underway \subseteq site.underway
  <2>1. site \in [posts: SUBSET Post, underway: SUBSET Post, container: BOOLEAN]
    BY DEF ConnectorInv, SiteFits
  <2>2. PICK p \in site.underway :
          \/ site' = [[site EXCEPT !.underway = site.underway \ {p}] EXCEPT !.posts = site.posts \cup {p}]
          \/ site' = [site EXCEPT !.underway = site.underway \ {p}]
    BY DEF VideoProcessed, VideoDropped
  <2> QED
    BY ZenonT(60), <2>1, <2>2 DEF AllPosts
<1>3. CallFits'
  BY <1>1 DEF ConnectorInv, CallFits, Accepts, ConsentSuffices
<1>4. SiteFits' /\ SiteGrows
  BY <1>1, <1>2 DEF ConnectorInv, SiteFits, SiteGrows, Allowed, Now
<1> QED
  BY <1>1, <1>3, <1>4, GoingOn

LEMMA YouTubeSteps ==
  ASSUME ConnectorInv, MediaLoaded \/ SessionOpened
  PROVE  ConnectorInv'
<1>1. /\ call.step \in {"load", "session"} /\ call.step # "rest" /\ call.step # "status"
      /\ UNCHANGED <<app, job, site>> /\ job.channel = "YOUTUBE"
  BY DEF MediaLoaded, SessionOpened, ConnectorInv, CallFits, still
<1>2. CASE Fails("VALIDATION_REJECTED") \/ Fails("PROVIDER_UNAVAILABLE")
  BY <1>1, <1>2, BeingMade, Failing DEF Codes
<1>3. CASE (Advances("session") \/ Advances("upload")) /\ UNCHANGED receipts
  BY <1>1, <1>3, BeingMade, AdvancesTo DEF CallSteps
<1> QED
  BY <1>2, <1>3 DEF MediaLoaded, SessionOpened

LEMMA ConnectorSteps == ConnectorInv /\ [ConnectorsNext]_connectorVars => ConnectorInv'
BY AuthorizationSteps, StartSteps, FailingSteps, CreationSteps, PostSteps, AnswerSteps,
   ContainerSteps, CreatorSteps, AcceptSteps, StatusSteps, VideoSteps, YouTubeSteps
   DEF ConnectorsNext

(* The inductive invariant of the connectors. *)
THEOREM ConnectorsSafe == ConnectorsSpec => []ConnectorInv
<1> QED
  BY ConnectorsBegin, ConnectorSteps, PTL DEF ConnectorsSpec

(* The types of the connectors. *)
THEOREM ConnectorTypes == ConnectorsSpec => []ConnectorsTypeOK
<1>1. ConnectorInv => ConnectorsTypeOK
  BY DEF ConnectorInv, ReceiptsFit, CallFits, SiteFits, ConnectorsTypeOK
<1> QED
  BY <1>1, ConnectorsSafe, PTL

(* Whatever the platform answers, and however often its caller tries again, a *)
(* connector reports no success without a post, no public post as a private   *)
(* one, and, but for TikTok, no definite refusal of something that was posted *)
(* (integrations/platforms, the five publish methods).                        *)
THEOREM AnswersAreAlwaysTrue == ConnectorsSpec => []AnswersAreTrue
<1>1. ConnectorInv => AnswersAreTrue
  BY DEF ConnectorInv, Truthful, AnswersAreTrue, Made, AllPosts
<1> QED
  BY <1>1, ConnectorsSafe, PTL

(* A public post was made by an audited application, and on TikTok and YouTube *)
(* under a complete consent to a public one.                                   *)
THEOREM PublicIsAlwaysAsked == ConnectorsSpec => []PublicOnlyWhenAsked
<1>1. ConnectorInv => PublicOnlyWhenAsked
  BY DEF ConnectorInv, SiteFits, AllPosts, Allowed, PublicOnlyWhenAsked
<1> QED
  BY <1>1, ConnectorsSafe, PTL

-----------------------------------------------------------------------------
(* Accounts.  A reference is followed from the callback that stored it to    *)
(* the session, from there through one confirmation request to a credential. *)
(* The bundle of a session is used up by the first request that binds it;    *)
(* what a request has bound is known to nobody else until it is confirmed.   *)

Callbacks == {Idle, [step |-> "exchanging"]} \cup [step: {"stored"}, ref: 1..MaxRefs, offers: Offers]
Confirmations ==
  {Idle} \cup [step: {"unbound", "seen", "bound"}, of: Attempts, pick: Accounts, ref: 1..MaxRefs]
Patches == {Idle} \cup [step: {"read"}, of: Accounts, row: AccountRow, seen: AccountRow]
Sweeps ==
  {Idle} \cup [step: {"next"}, left: SUBSET Accounts]
         \cup [step: {"failed"}, of: Accounts, conn: Connections \ {"CONNECTED"},
               left: SUBSET Accounts]

RowTypes ==
  /\ attempt \in [Attempts -> {"none", "open", "consumed", "expired"}]
  /\ session \in [Attempts -> SessionRow \cup {NoSession}]
  /\ callback \in [Attempts -> Callbacks] /\ confirm \in [Requests -> Confirmations]
  /\ token \in Seq(TokenRow) /\ Len(token) <= MaxRefs
  /\ cred \in Seq(CredentialRow) /\ Len(cred) <= MaxCreds
  /\ account \in [Accounts -> AccountRow]
  /\ patch \in Patches /\ sweep \in Sweeps
  /\ serverKey \in {0, 1} /\ edits \in 0..MaxEdits

\* Row r of the store is the bundle, or the token, of authorization t.
IsBundle(r, t) == r \in 1..Len(token) /\ token[r].kind = "bundle" /\ token[r].from = t
IsToken(r) == r \in 1..Len(token) /\ token[r].kind = "token"
Retiree(r) == token[r].status # "ACTIVE"

NoTokenOf(t) == \A r \in 1..Len(token) : token[r].from # t

AuthorizationFits(t) ==
  /\ attempt[t] # "consumed" => callback[t].step = "idle"
  /\ attempt[t] # "consumed" \/ callback[t].step = "exchanging" => NoTokenOf(t)
  /\ attempt[t] # "consumed" \/ callback[t].step # "idle" => session[t].ref = 0
  /\ callback[t].step = "stored" => IsBundle(callback[t].ref, t)
  /\ session[t].ref # 0 => IsBundle(session[t].ref, t)
  /\ session[t].chosen # 0 => session[t].ref # 0 /\ Retiree(session[t].ref)

RequestSound(q) ==
  confirm[q].step # "idle" =>
    LET t == confirm[q].of  r == confirm[q].ref IN
    /\ session[t].ref # 0
    /\ confirm[q].step \in {"unbound", "seen"} => r = session[t].ref
    /\ confirm[q].step = "seen" => session[t].chosen # 0
    /\ confirm[q].step = "bound" =>
         /\ IsToken(r) /\ token[r].from = t /\ ~Retiree(r)
         /\ session[t].chosen = 0 /\ Retiree(session[t].ref)
         /\ \A c \in 1..Len(cred) : cred[c].ref # r

BoundOnce ==
  \A p, q \in Requests :
    confirm[p].step = "bound" /\ confirm[q].step = "bound" /\ confirm[p].of = confirm[q].of => p = q

CredentialsFit ==
  /\ \A c \in 1..Len(cred) : cred[c].ref # 0 => IsToken(cred[c].ref)
  /\ \A c, d \in 1..Len(cred) : cred[c].ref = cred[d].ref /\ cred[c].ref # 0 => c = d

\* An account that was found working works, unless the token went with another account
\* or a PATCH changed its credential.
Own(a) == ~SeveredElsewhere(a) /\ <<a, account[a].cred>> \notin reused
Works(a) ==
  LET c == account[a].cred IN
  account[a].official /\ account[a].conn = "CONNECTED" /\ c # 0 /\ Own(a) =>
    cred[c].ref = 0 \/ ~Retiree(cred[c].ref)

AccountsFit ==
  /\ \A a \in Accounts : account[a].cred <= Len(cred) /\ Works(a)
  /\ patch.step = "read" =>
       /\ patch.row.cred <= Len(cred)
       /\ patch.row.conn = patch.seen.conn /\ patch.row.official = patch.seen.official

AccountInv ==
  /\ RowTypes
  /\ \A t \in Attempts : AuthorizationFits(t)
  /\ \A q \in Requests : RequestSound(q)
  /\ BoundOnce /\ CredentialsFit /\ AccountsFit
  /\ TokensAreAccounted

LEMMA AccountsBegin == AccountsInit => AccountInv
<1> SUFFICES ASSUME AccountsInit PROVE AccountInv
  OBVIOUS
<1>1. /\ token = <<>> /\ cred = <<>> /\ patch = [step |-> "idle"] /\ sweep = [step |-> "idle"]
      /\ \A q \in Requests : confirm[q].step = "idle"
      /\ \A t \in Attempts : /\ attempt[t] = "none" /\ callback[t].step = "idle"
                             /\ session[t].ref = 0 /\ session[t].chosen = 0
      /\ \A a \in Accounts : account[a].cred = 0 /\ account[a].official = FALSE
  BY DEF AccountsInit, Idle, NoSession, NoAccount
<1>2. Len(token) = 0 /\ Len(cred) = 0 /\ token \in Seq(TokenRow) /\ cred \in Seq(CredentialRow)
      /\ Live = {}
  BY <1>1 DEF Live
<1>3. NoAccount \in AccountRow
  BY AccountsAssumption DEF NoAccount, AccountRow, Modes, Connections
<1>4. RowTypes
  <2>1. account \in [Accounts -> AccountRow]
    BY <1>3 DEF AccountsInit
  <2>2. callback \in [Attempts -> Callbacks] /\ confirm \in [Requests -> Confirmations]
    BY DEF AccountsInit, Callbacks, Confirmations
  <2>3. patch \in Patches /\ sweep \in Sweeps
    BY DEF AccountsInit, Patches, Sweeps
  <2>4. session \in [Attempts -> SessionRow \cup {NoSession}]
    BY DEF AccountsInit
  <2> QED
    BY <1>2, <2>1, <2>2, <2>3, <2>4, AccountsAssumption DEF AccountsInit, RowTypes
<1>5. \A t \in Attempts : AuthorizationFits(t)
  BY <1>1, <1>2 DEF AuthorizationFits, NoTokenOf
<1>6. (\A q \in Requests : RequestSound(q)) /\ BoundOnce
  BY <1>1 DEF RequestSound, BoundOnce
<1>7. CredentialsFit /\ AccountsFit
  BY <1>1, <1>2 DEF CredentialsFit, AccountsFit, Works
<1>8. TokensAreAccounted
  BY <1>2 DEF TokensAreAccounted
<1> QED
  BY <1>4, <1>5, <1>6, <1>7, <1>8 DEF AccountInv

-----------------------------------------------------------------------------
(* The rows of the store: retiring one, and appending another *)

LEMMA StoreSize ==
  ASSUME RowTypes
  PROVE  /\ Len(token) \in Nat /\ DOMAIN token = 1..Len(token)
         /\ Len(cred) \in Nat /\ DOMAIN cred = 1..Len(cred)
         /\ \A r \in 1..Len(token) : token[r] \in TokenRow
         /\ \A c \in 1..Len(cred) : cred[c] \in CredentialRow
         /\ MaxRefs \in Nat /\ MaxCreds \in Nat /\ Len(token) <= MaxRefs /\ Len(cred) <= MaxCreds
BY AccountsAssumption DEF RowTypes

LEMMA Retirement ==
  ASSUME NEW rows \in Seq(TokenRow), NEW r \in 1..Len(rows),
         NEW s \in {"ROTATED", "DISCONNECTED"}
  PROVE  /\ Retired(rows, r, s) \in Seq(TokenRow) /\ Len(Retired(rows, r, s)) = Len(rows)
         /\ \A i \in 1..Len(rows) :
              /\ Retired(rows, r, s)[i].kind = rows[i].kind
              /\ Retired(rows, r, s)[i].from = rows[i].from
              /\ Retired(rows, r, s)[i].life = rows[i].life
              /\ Retired(rows, r, s)[i].status = IF i = r THEN s ELSE rows[i].status
<1>1. [rows[r] EXCEPT !.status = s] \in TokenRow
  <2>1. rows[r] \in TokenRow
    OBVIOUS
  <2> QED
    BY <2>1 DEF TokenRow
<1>2. Retired(rows, r, s) = [rows EXCEPT ![r] = [rows[r] EXCEPT !.status = s]]
  BY DEF Retired
<1>3. \A i \in 1..Len(rows) : rows[i] \in TokenRow
  OBVIOUS
<1>4. /\ Retired(rows, r, s) \in Seq(TokenRow) /\ Len(Retired(rows, r, s)) = Len(rows)
      /\ \A i \in 1..Len(rows) :
           Retired(rows, r, s)[i] = IF i = r THEN [rows[r] EXCEPT !.status = s] ELSE rows[i]
  BY <1>1, <1>2, ExceptSeq
<1> QED
  BY <1>3, <1>4 DEF TokenRow

LEMMA Appending ==
  ASSUME NEW R, NEW rows \in Seq(R), NEW x \in R
  PROVE  /\ Append(rows, x) \in Seq(R) /\ Len(Append(rows, x)) = Len(rows) + 1
         /\ \A i \in 1..Len(rows) : Append(rows, x)[i] = rows[i]
         /\ Append(rows, x)[Len(rows) + 1] = x
BY AppendProperties

LEMMA NewRow ==
  ASSUME RowTypes, NEW kind \in {"bundle", "token"}, NEW t \in Attempts, NEW life \in Lives
  PROVE  /\ NewToken(kind, t, life) \in TokenRow
         /\ NewToken(kind, t, life).kind = kind /\ NewToken(kind, t, life).from = t
         /\ NewToken(kind, t, life).status = "ACTIVE"
BY DEF RowTypes, NewToken, TokenRow

-----------------------------------------------------------------------------
(* What a step must leave alone for each part of the invariant to stay *)

\* Rows of the store are only appended and retired.
Kept ==
  /\ token' \in Seq(TokenRow) /\ Len(token') >= Len(token)
  /\ \A i \in 1..Len(token) :
       /\ token'[i].kind = token[i].kind /\ token'[i].from = token[i].from
       /\ Retiree(i) => Retiree(i)'

LEMMA AuthorizationKept ==
  ASSUME AccountInv, NEW t \in Attempts, Kept, attempt'[t] = attempt[t],
         callback'[t] = callback[t], session'[t].ref = session[t].ref,
         session'[t].chosen = session[t].chosen,
         \A i \in 1..Len(token') : i > Len(token) => token'[i].from # t \/ ~NoTokenOf(t)
  PROVE  AuthorizationFits(t)'
<1>1. AuthorizationFits(t) /\ RowTypes
  BY DEF AccountInv
<1>2. Len(token) \in Nat /\ Len(token') \in Nat
  BY <1>1, StoreSize DEF Kept
<1>3. NoTokenOf(t) => NoTokenOf(t)'
  BY <1>2 DEF Kept, NoTokenOf
<1>4. \A r : IsBundle(r, t) => IsBundle(r, t)'
  BY <1>2 DEF Kept, IsBundle
<1>5. session[t].ref # 0 => (Retiree(session[t].ref) => Retiree(session[t].ref)')
  BY <1>1 DEF Kept, AuthorizationFits, IsBundle
<1> QED
  BY <1>1, <1>3, <1>4, <1>5 DEF AuthorizationFits, Retiree

LEMMA RequestKept ==
  ASSUME AccountInv, NEW q \in Requests, Kept, confirm'[q] = confirm[q],
         LET t == confirm[q].of  r == confirm[q].ref IN
         confirm[q].step # "idle" =>
           /\ session'[t].ref = session[t].ref
           /\ session[t].chosen # 0 => session'[t].chosen # 0
           /\ confirm[q].step = "bound" =>
                /\ session'[t].chosen = 0 /\ token'[r].status = "ACTIVE"
                /\ \A c \in 1..Len(cred') : cred'[c].ref # r
  PROVE  RequestSound(q)'
<1>1. RequestSound(q) /\ RowTypes /\ confirm[q] \in Confirmations
  BY DEF AccountInv, RowTypes
<1>2. Len(token) \in Nat /\ Len(token') \in Nat
  BY <1>1, StoreSize DEF Kept
<1>3. ASSUME confirm[q].step = "bound"
      PROVE  LET t == confirm[q].of  r == confirm[q].ref IN
             IsToken(r)' /\ token'[r].from = t /\ Retiree(session[t].ref)'
  <2>1. confirm[q].of \in Attempts
    BY <1>1, <1>3 DEF Confirmations, Idle
  <2>2. IsBundle(session[confirm[q].of].ref, confirm[q].of)
    BY <1>1, <1>3, <2>1 DEF AccountInv, AuthorizationFits, RequestSound
  <2> QED
    BY <1>1, <1>2, <1>3, <2>2 DEF Kept, RequestSound, IsToken, IsBundle, Retiree
<1> QED
  BY <1>1, <1>3 DEF RequestSound, Retiree

LEMMA BoundKept ==
  ASSUME AccountInv,
         \A q \in Requests : confirm'[q].step = "bound" =>
           confirm[q].step = "bound" /\ confirm'[q].of = confirm[q].of
  PROVE  BoundOnce'
BY DEF AccountInv, BoundOnce

LEMMA CredentialsKept ==
  ASSUME AccountInv, Kept, Len(cred') \in Nat,
         \A c \in 1..Len(cred') :
           cred'[c].ref = 0 \/ (c \in 1..Len(cred) /\ cred'[c].ref = cred[c].ref)
  PROVE  CredentialsFit'
<1>1. Len(token) \in Nat /\ Len(token') \in Nat
  BY StoreSize DEF Kept, AccountInv
<1>2. \A r : IsToken(r) => IsToken(r)'
  BY <1>1 DEF Kept, IsToken
<1> QED
  BY <1>2 DEF AccountInv, CredentialsFit

StaysUsable(r, next) == token[r].status = "ACTIVE" => next[r].status = "ACTIVE"

\* An account whose row, credential and token a step leaves alone.
LEMMA WorksKept ==
  ASSUME AccountInv, NEW a \in Accounts, Kept, reused \subseteq reused', severed \subseteq severed',
         account'[a].official => account[a].official,
         account'[a].conn = "CONNECTED" => account[a].conn = "CONNECTED",
         account'[a].cred = account[a].cred,
         LET c == account[a].cred IN
         c # 0 /\ Own(a)' /\ account[a].conn = "CONNECTED" /\ account'[a].conn = "CONNECTED" =>
           cred'[c].ref = 0 \/ (cred'[c].ref = cred[c].ref /\ StaysUsable(cred[c].ref, token'))
  PROVE  Works(a)'
BY DEF AccountInv, AccountsFit, Works, Own, SeveredElsewhere, Retiree, StaysUsable

\* No row of an account is touched.
LEMMA AccountsKept ==
  ASSUME AccountInv, Kept, Len(cred') \in Nat, Len(cred') >= Len(cred), UNCHANGED patch,
         reused \subseteq reused', severed \subseteq severed',
         \A a \in Accounts :
           /\ account'[a].official => account[a].official
           /\ account'[a].conn = "CONNECTED" => account[a].conn = "CONNECTED"
           /\ account'[a].cred = account[a].cred,
         \A c \in 1..Len(cred) : cred'[c].ref \in {0, cred[c].ref},
         \A a \in Accounts :
           LET c == account[a].cred IN
           c # 0 /\ Own(a)' /\ account[a].conn = "CONNECTED" /\ account'[a].conn = "CONNECTED"
             => cred[c].ref = 0 \/ StaysUsable(cred[c].ref, token')
  PROVE  AccountsFit'
<1>0. Len(cred) \in Nat /\ account \in [Accounts -> AccountRow]
  BY StoreSize DEF AccountInv, RowTypes
<1>1. ASSUME NEW a \in Accounts
      PROVE  account'[a].cred <= Len(cred') /\ Works(a)'
  <2>1. account[a].cred <= Len(cred) /\ account[a].cred \in Nat
    BY <1>0, AccountsAssumption DEF AccountInv, AccountsFit, AccountRow
  <2>2. account[a].cred # 0 => account[a].cred \in 1..Len(cred)
    BY <1>0, <2>1
  <2>3. Works(a)'
    BY <2>2, WorksKept
  <2> QED
    BY <1>0, <2>1, <2>3
<1>2. patch.step = "read" => patch.row.cred <= Len(cred')
  <2>1. patch.step = "read" => patch.row.cred \in Nat /\ patch.row.cred <= Len(cred)
    BY AccountsAssumption DEF AccountInv, AccountsFit, RowTypes, Patches, Idle, AccountRow
  <2> QED
    BY <1>0, <2>1
<1> QED
  BY <1>1, <1>2 DEF AccountInv, AccountsFit

OneLive == \A r, s \in Live : token[r].from = token[s].from => r = s
AllHeld == \A r \in Live : Held(r) \/ r \in lost

LEMMA Accounted == TokensAreAccounted <=> OneLive /\ AllHeld
BY DEF TokensAreAccounted, OneLive, AllHeld

LEMMA OneLiveKept ==
  ASSUME AccountInv, Kept,
         \A i \in 1..Len(token') : i > Len(token) =>
           /\ i = Len(token) + 1
           /\ \A k \in 1..Len(token) : token[k].from = token'[i].from => Retiree(k)'
  PROVE  OneLive'
<1>1. Len(token) \in Nat /\ Len(token') \in Nat /\ DOMAIN token = 1..Len(token)
      /\ DOMAIN token' = 1..Len(token')
  BY StoreSize DEF Kept, AccountInv
<1>2. \A r, s \in Live : token[r].from = token[s].from => r = s
  BY Accounted DEF AccountInv, OneLive
<1>3. \A r \in Live' : r \in 1..Len(token) => r \in Live /\ token'[r].from = token[r].from
  BY <1>1 DEF Kept, Live, Retiree
<1>4. ASSUME NEW r \in Live', NEW s \in Live', token'[r].from = token'[s].from
      PROVE  r = s
  <2>1. r \in 1..Len(token') /\ s \in 1..Len(token') /\ ~Retiree(r)' /\ ~Retiree(s)'
    BY <1>1 DEF Live, Retiree
  <2>2. CASE r \in 1..Len(token) /\ s \in 1..Len(token)
    BY <1>2, <1>3, <1>4, <2>2
  <2>3. CASE r \notin 1..Len(token) /\ s \in 1..Len(token)
    <3>1. r > Len(token)
      BY <1>1, <2>1, <2>3
    <3>2. token[s].from = token'[r].from
      BY <1>3, <1>4, <2>3
    <3> QED
      BY <2>1, <2>3, <3>1, <3>2
  <2>4. CASE r \in 1..Len(token) /\ s \notin 1..Len(token)
    <3>1. s > Len(token)
      BY <1>1, <2>1, <2>4
    <3>2. token[r].from = token'[s].from
      BY <1>3, <1>4, <2>4
    <3> QED
      BY <2>1, <2>4, <3>1, <3>2
  <2>5. CASE r \notin 1..Len(token) /\ s \notin 1..Len(token)
    <3>1. r > Len(token) /\ s > Len(token)
      BY <1>1, <2>1, <2>5
    <3> QED
      BY <2>1, <3>1
  <2> QED
    BY <2>2, <2>3, <2>4, <2>5
<1> QED
  BY <1>4 DEF OneLive

LEMMA AllHeldKept ==
  ASSUME AccountInv, Kept, lost \subseteq lost',
         \A r \in 1..Len(token') : r > Len(token) => Held(r)',
         \A r \in 1..Len(token) : ~Retiree(r)' /\ Held(r) => Held(r)' \/ r \in lost'
  PROVE  AllHeld'
<1>1. Len(token) \in Nat /\ Len(token') \in Nat /\ DOMAIN token = 1..Len(token)
      /\ DOMAIN token' = 1..Len(token')
  BY StoreSize DEF Kept, AccountInv
<1>2. ASSUME NEW r \in Live' PROVE Held(r)' \/ r \in lost'
  <2>1. r \in 1..Len(token') /\ ~Retiree(r)'
    BY <1>1 DEF Live, Retiree
  <2>2. CASE r > Len(token)
    BY <2>1, <2>2
  <2>3. CASE r \in 1..Len(token)
    <3>1. r \in Live
      BY <1>1, <2>1, <2>3 DEF Kept, Live, Retiree
    <3>2. Held(r) \/ r \in lost
      BY <3>1, Accounted DEF AccountInv, AllHeld
    <3> QED
      BY <2>1, <2>3, <3>2
  <2> QED
    BY <1>1, <2>1, <2>2, <2>3
<1> QED
  BY <1>2 DEF AllHeld

\* What the parts of the invariant about the store, the sessions and the requests say.
StoreFits ==
  /\ \A t \in Attempts : AuthorizationFits(t)
  /\ \A q \in Requests : RequestSound(q)
  /\ BoundOnce /\ CredentialsFit /\ OneLive /\ AllHeld

LEMMA AccountParts == AccountInv <=> RowTypes /\ StoreFits /\ AccountsFit
BY Accounted DEF AccountInv, StoreFits

LEMMA PartsAgain ==
  ASSUME RowTypes', StoreFits', AccountsFit'
  PROVE  AccountInv'
BY DEF AccountInv, StoreFits, TokensAreAccounted, OneLive, AllHeld

\* Steps that move no reference: none is stored, bound, retired or dropped.
LEMMA StoreRests ==
  ASSUME AccountInv, RowTypes', Kept, Len(token') = Len(token),
         \A i \in 1..Len(token) : Retiree(i)' => Retiree(i),
         UNCHANGED <<attempt, callback, confirm, lost>>,
         \A t \in Attempts : session'[t].ref = session[t].ref /\ session'[t].chosen = session[t].chosen,
         Len(cred') = Len(cred), \A c \in 1..Len(cred) : cred'[c].ref = cred[c].ref
  PROVE  StoreFits'
<1>0. RowTypes /\ Len(token) \in Nat /\ Len(cred) \in Nat /\ DOMAIN cred = 1..Len(cred)
  BY StoreSize DEF AccountInv
<1>1. ASSUME NEW t \in Attempts PROVE AuthorizationFits(t)'
  BY <1>0, AuthorizationKept
<1>2. ASSUME NEW q \in Requests PROVE RequestSound(q)'
  <2>1. RequestSound(q) /\ (confirm[q].step # "idle" => confirm[q].of \in Attempts)
    BY <1>0 DEF AccountInv, RowTypes, Confirmations, Idle
  <2>2. confirm[q].step = "bound" =>
          /\ confirm[q].ref \in 1..Len(token) /\ token'[confirm[q].ref].status = "ACTIVE"
          /\ session[confirm[q].of].chosen = 0
          /\ \A c \in 1..Len(cred) : cred[c].ref # confirm[q].ref
    BY <2>1 DEF RequestSound, IsToken, Retiree
  <2> QED
    BY <2>1, <2>2, RequestKept
<1>3. BoundOnce'
  BY BoundKept
<1>4. CredentialsFit'
  BY <1>0, CredentialsKept
<1>5. OneLive'
  BY <1>0, OneLiveKept
<1>6. AllHeld'
  <2>1. ASSUME NEW r, Held(r) PROVE Held(r)'
    <3>1. CASE \E c \in DOMAIN cred : cred[c].ref = r
      <4>1. PICK c \in 1..Len(cred) : cred'[c].ref = r
        BY <1>0, <3>1
      <4>2. DOMAIN cred' = DOMAIN cred
        BY <1>0 DEF RowTypes
      <4> QED
        BY <1>0, <4>1, <4>2 DEF Held
    <3>2. CASE ~\E c \in DOMAIN cred : cred[c].ref = r
      BY <2>1, <3>2 DEF Held
    <3> QED
      BY <3>1, <3>2
  <2> QED
    BY <1>0, <2>1, AllHeldKept
<1> QED
  BY <1>1, <1>2, <1>3, <1>4, <1>5, <1>6 DEF StoreFits

-----------------------------------------------------------------------------
(* Steps that move no reference *)

LEMMA SameTokens ==
  ASSUME AccountInv, UNCHANGED token
  PROVE  Kept /\ Len(token') = Len(token) /\ \A i \in 1..Len(token) : Retiree(i)' <=> Retiree(i)
BY StoreSize DEF AccountInv, RowTypes, Kept, Retiree

LEMMA RestingSteps ==
  ASSUME AccountInv, RowTypes', AccountsFit',
         UNCHANGED <<attempt, callback, session, token, cred, confirm, lost>>
  PROVE  AccountInv'
BY SameTokens, StoreRests, PartsAgain

LEMMA ReadPatch ==
  ASSUME AccountInv, NEW a \in Accounts, PatchReads(a)
  PROVE  AccountInv'
<1>1. PICK row \in Patched(account[a]) :
        patch' = [step |-> "read", of |-> a, row |-> row, seen |-> account[a]]
  BY DEF PatchReads
<1>2. /\ account[a] \in AccountRow /\ Len(cred) \in Nat /\ Len(cred) <= MaxCreds
      /\ account[a].cred <= Len(cred)
  BY StoreSize DEF AccountInv, RowTypes, AccountsFit
<1>3. /\ row \in AccountRow /\ row.conn = account[a].conn /\ row.official = account[a].official
      /\ row.cred <= Len(cred)
  BY <1>1, <1>2, AccountsAssumption DEF Patched, AccountRow, Modes
<1>4. UNCHANGED <<attempt, callback, session, token, cred, account, confirm, sweep, rotation,
                  serverKey, lost, reused, severed>> /\ edits' = edits + 1 /\ edits < MaxEdits
  BY DEF PatchReads, byHand
<1>5. RowTypes'
  <2>1. patch' \in Patches
    BY <1>1, <1>2, <1>3 DEF Patches
  <2> QED
    BY <1>4, <2>1, AccountsAssumption DEF AccountInv, RowTypes
<1>6. AccountsFit'
  BY <1>1, <1>3, <1>4 DEF AccountInv, AccountsFit, Works, Own, SeveredElsewhere, Retiree
<1> QED
  BY <1>4, <1>5, <1>6, RestingSteps

LEMMA SavePatch ==
  ASSUME AccountInv, PatchSaves
  PROVE  AccountInv'
<1> DEFINE a == patch.of
<1>1. /\ patch \in Patches /\ patch # Idle
      /\ account' = [account EXCEPT ![a] = patch.row] /\ patch' = Idle
      /\ reused' = IF account[a] # patch.seen \/ patch.row.cred # patch.seen.cred
                   THEN reused \cup {<<a, patch.row.cred>>} ELSE reused
      /\ UNCHANGED <<attempt, callback, session, token, cred, confirm, sweep, rotation, serverKey,
                     lost, edits, severed>>
  BY DEF PatchSaves, byHand, AccountInv, RowTypes
<1>2. /\ a \in Accounts /\ patch.row \in AccountRow /\ patch.step = "read"
      /\ patch.row.cred <= Len(cred) /\ patch.row.conn = patch.seen.conn
      /\ patch.row.official = patch.seen.official /\ account \in [Accounts -> AccountRow]
  BY <1>1 DEF Patches, AccountInv, AccountsFit, RowTypes
<1>3. \A b \in Accounts : account'[b] = IF b = a THEN patch.row ELSE account[b]
  BY <1>1, <1>2
<1> HIDE DEF a
<1>4. RowTypes'
  BY <1>1, <1>2 DEF AccountInv, RowTypes, Patches
<1>5. AccountsFit'
  <2>1. patch'.step # "read"
    BY <1>1 DEF Idle
  <2>2. CASE <<a, patch.row.cred>> \in reused'
    <3>1. reused \subseteq reused'
      BY <1>1
    <3> QED
      BY <1>1, <1>2, <1>3, <2>1, <2>2, <3>1
         DEF AccountInv, AccountsFit, Works, Own, SeveredElsewhere, Retiree
  <2>3. CASE account[a] = patch.seen /\ patch.row.cred = patch.seen.cred /\ UNCHANGED reused
    <3>1. \A b \in Accounts : /\ account'[b].cred = account[b].cred
                              /\ account'[b].conn = account[b].conn
                              /\ account'[b].official = account[b].official
      BY <1>2, <1>3, <2>3
    <3> QED
      BY <1>1, <2>1, <2>3, <3>1 DEF AccountInv, AccountsFit, Works, Own, SeveredElsewhere, Retiree
  <2> QED
    BY <1>1, <2>2, <2>3 DEF a
<1> QED
  BY <1>1, <1>4, <1>5, RestingSteps

LEMMA SweepSteps ==
  ASSUME AccountInv,
         \/ SweepLists \/ SweepEnds \/ ListKeys \/ Redeploy \/ UNCHANGED accountVars
         \/ \E a \in Accounts : SweepSkips(a) \/ SweepFails(a)
  PROVE  AccountInv'
<1>1. UNCHANGED <<attempt, callback, session, token, cred, account, confirm, patch, lost, reused, severed,
                  edits>>
  BY DEF SweepLists, SweepEnds, ListKeys, Redeploy, SweepSkips, SweepFails, quiet, held, steady, accountVars
<1>2. serverKey' \in {0, 1}
  BY DEF SweepLists, SweepEnds, ListKeys, Redeploy, SweepSkips, SweepFails, quiet, held, accountVars,
         AccountInv, RowTypes
<1>3. sweep' \in Sweeps
  <2>1. sweep \in Sweeps
    BY DEF AccountInv, RowTypes
  <2>2. CASE UNCHANGED sweep \/ sweep' = Idle
    BY <2>1, <2>2 DEF Sweeps
  <2>3. CASE SweepLists
    BY <2>3 DEF SweepLists, Sweeps
  <2>4. ASSUME NEW a \in Accounts, SweepSkips(a)
        PROVE  sweep' \in Sweeps
    <3>1. sweep.left \in SUBSET Accounts
      BY <2>1, <2>4 DEF SweepSkips, SweepTakes, Sweeps, Idle
    <3> QED
      BY <2>4, <3>1 DEF SweepSkips, Continue, Sweeps
  <2>5. ASSUME NEW a \in Accounts, SweepFails(a)
        PROVE  sweep' \in Sweeps
    <3>1. sweep.left \in SUBSET Accounts
      BY <2>1, <2>5 DEF SweepFails, SweepTakes, Sweeps, Idle
    <3> QED
      BY <2>5, <3>1 DEF SweepFails, Sweeps, Connections
  <2> QED
    BY <2>2, <2>3, <2>4, <2>5 DEF SweepEnds, ListKeys, Redeploy, steady, accountVars
<1>4. RowTypes'
  BY <1>1, <1>2, <1>3 DEF AccountInv, RowTypes
<1>5. AccountsFit'
  BY <1>1 DEF AccountInv, AccountsFit, Works, Own, SeveredElsewhere, Retiree
<1> QED
  BY <1>1, <1>4, <1>5, RestingSteps

\* A probe, a disconnected or condemned account and one sent to the platform again.
LEMMA ConnSteps ==
  ASSUME AccountInv,
         \/ \E a \in Accounts : Probe(a) \/ StartReauthorization(a)
         \/ SweepCondemns
  PROVE  AccountInv'
<1>1. UNCHANGED <<attempt, callback, session, token, cred, confirm, patch, rotation, serverKey,
                  lost, reused, severed, edits>>
  BY DEF Probe, StartReauthorization, SweepCondemns, quiet, held
<1>2. PICK a \in Accounts, conn \in Connections :
        /\ account' = [account EXCEPT ![a].conn = conn]
        /\ conn = "CONNECTED" => account[a].cred # 0 /\ Resolves(Reference(a))
  <2>1. CASE SweepCondemns
    <3>1. sweep.of \in Accounts /\ sweep.conn \in Connections \ {"CONNECTED"}
      BY <2>1 DEF SweepCondemns, AccountInv, RowTypes, Sweeps, Idle
    <3> QED
      BY <2>1, <3>1 DEF SweepCondemns
  <2>2. CASE \E a \in Accounts : Probe(a) \/ StartReauthorization(a)
    BY <2>2 DEF Probe, StartReauthorization, Connections
  <2> QED
    BY <2>1, <2>2
<1>3. account \in [Accounts -> AccountRow]
  BY DEF AccountInv, RowTypes
<1>4. \A b \in Accounts : /\ account'[b].cred = account[b].cred
                          /\ account'[b].official = account[b].official
                          /\ account'[b].conn = IF b = a THEN conn ELSE account[b].conn
  BY <1>2, <1>3 DEF AccountRow
<1>5. account' \in [Accounts -> AccountRow]
  <2>1. [account[a] EXCEPT !.conn = conn] \in AccountRow
    <3>1. account[a] \in AccountRow
      BY <1>3
    <3> QED
      BY <3>1 DEF AccountRow
  <2>2. account' = [account EXCEPT ![a] = [account[a] EXCEPT !.conn = conn]]
    BY <1>2
  <2> QED
    BY <1>3, <2>1, <2>2
<1>6. sweep' \in Sweeps
  <2>1. sweep \in Sweeps
    BY DEF AccountInv, RowTypes
  <2>2. CASE SweepCondemns
    <3>1. sweep.left \in SUBSET Accounts
      BY <2>1, <2>2 DEF SweepCondemns, Sweeps, Idle
    <3> QED
      BY <2>2, <3>1 DEF SweepCondemns, Continue, Sweeps
  <2>3. CASE UNCHANGED sweep
    BY <2>1, <2>3
  <2> QED
    BY <2>2, <2>3 DEF Probe, StartReauthorization
<1>7. RowTypes'
  BY <1>1, <1>5, <1>6 DEF AccountInv, RowTypes
<1>8. Works(a)'
  <2>1. CASE conn = "CONNECTED"
    BY <1>1, <1>2, <1>4, <2>1 DEF Works, Resolves, Reference, Retiree
  <2>2. CASE conn # "CONNECTED"
    BY <1>4, <2>2 DEF Works
  <2> QED
    BY <2>1, <2>2
<1>9. AccountsFit'
  BY <1>1, <1>4, <1>8 DEF AccountInv, AccountsFit, Works, Own, SeveredElsewhere, Retiree
<1> QED
  BY <1>1, <1>7, <1>9, RestingSteps

\* A token ages, or is encrypted with the new key.
LEMMA TokenSteps ==
  ASSUME AccountInv, NEW r \in DOMAIN token, TokenAges(r) \/ RotateKey(r)
  PROVE  AccountInv'
<1>1. /\ token \in Seq(TokenRow) /\ token[r] \in TokenRow /\ r \in 1..Len(token)
      /\ cred \in Seq(CredentialRow) /\ Len(cred) \in Nat /\ DOMAIN cred = 1..Len(cred)
      /\ \A c \in 1..Len(cred) : cred[c] \in CredentialRow
  BY StoreSize DEF AccountInv, RowTypes
<1>2. UNCHANGED <<attempt, callback, session, account, confirm, patch, sweep, lost, reused, severed, edits,
                  serverKey>>
  BY DEF TokenAges, RotateKey, quiet, held, steady
<1>3. PICK row \in TokenRow :
        /\ row.status = token[r].status /\ row.kind = token[r].kind /\ row.from = token[r].from
        /\ token' = [token EXCEPT ![r] = row]
  <2>1. CASE TokenAges(r)
    <3>1. PICK older \in {"due", "expired"} : token' = [token EXCEPT ![r].life = older]
      BY <2>1 DEF TokenAges
    <3>2. [token[r] EXCEPT !.life = older] \in TokenRow
      BY <1>1 DEF TokenRow, Lives
    <3> QED
      BY <1>1, <3>1, <3>2 DEF TokenRow
  <2>2. CASE RotateKey(r)
    <3>1. [token[r] EXCEPT !.key = 1] \in TokenRow
      BY <1>1 DEF TokenRow
    <3>2. token' = [token EXCEPT ![r] = [token[r] EXCEPT !.key = 1]] \/ token' = token
      BY <2>2 DEF RotateKey
    <3>3. token = [token EXCEPT ![r] = token[r]]
      BY <1>1
    <3> QED
      BY <1>1, <3>1, <3>2, <3>3 DEF TokenRow
  <2> QED
    BY <2>1, <2>2
<1>4. /\ token' \in Seq(TokenRow) /\ Len(token') = Len(token)
      /\ \A i \in 1..Len(token) : token'[i] = IF i = r THEN row ELSE token[i]
  BY <1>1, <1>3, ExceptSeq
<1>5. Kept /\ \A i \in 1..Len(token) : Retiree(i)' <=> Retiree(i)
  BY <1>1, <1>3, <1>4, StoreSize DEF AccountInv, Kept, Retiree
<1>6. /\ cred' \in Seq(CredentialRow) /\ Len(cred') = Len(cred)
      /\ \A c \in 1..Len(cred) : cred'[c].ref = cred[c].ref
  <2>1. CASE UNCHANGED cred
    BY <1>1, <2>1
  <2>2. CASE TokenAges(r)
    <3>1. PICK older \in {"due", "expired"} :
            cred' = [c \in DOMAIN cred |->
                       IF cred[c] = [ref |-> r, life |-> token[r].life]
                       THEN [cred[c] EXCEPT !.life = older] ELSE cred[c]]
      BY <2>2 DEF TokenAges
    <3>2. \A c \in 1..Len(cred) : [cred[c] EXCEPT !.life = older] \in CredentialRow
      BY <1>1 DEF CredentialRow, Lives
    <3>3. \A c \in 1..Len(cred) : cred'[c] \in CredentialRow /\ cred'[c].ref = cred[c].ref
      BY <1>1, <3>1, <3>2 DEF CredentialRow
    <3>4. DOMAIN cred' = 1..Len(cred) /\ cred' \in [1..Len(cred) -> CredentialRow]
      BY <1>1, <3>1, <3>3
    <3> QED
      BY <1>1, <3>3, <3>4
  <2> QED
    BY <2>1, <2>2 DEF RotateKey, steady
<1>7. RowTypes'
  BY <1>2, <1>4, <1>6 DEF AccountInv, RowTypes
<1>8. AccountsFit'
  <2>1. \A a \in Accounts : account[a].cred # 0 => account[a].cred \in 1..Len(cred)
    BY <1>1, AccountsAssumption DEF AccountInv, RowTypes, AccountsFit, AccountRow
  <2>2. \A a \in Accounts : LET c == account[a].cred IN
          c # 0 /\ cred[c].ref # 0 => cred[c].ref \in 1..Len(token)
    BY <2>1 DEF AccountInv, CredentialsFit, IsToken
  <2>3. Kept /\ Len(cred') \in Nat /\ Len(cred') >= Len(cred)
        /\ \A c \in 1..Len(cred) : cred'[c].ref \in {0, cred[c].ref}
    BY <1>1, <1>5, <1>6
  <2>4. \A a \in Accounts :
          LET c == account[a].cred IN
          c # 0 /\ Own(a)' /\ account[a].conn = "CONNECTED" /\ account'[a].conn = "CONNECTED"
            => cred[c].ref = 0 \/ StaysUsable(cred[c].ref, token')
    BY <1>5, <2>2 DEF Retiree, StaysUsable
  <2> QED
    BY <1>2, <2>3, <2>4, AccountsKept
<1> QED
  BY <1>2, <1>4, <1>5, <1>6, <1>7, <1>8, StoreRests, PartsAgain

-----------------------------------------------------------------------------
(* Authorization, and requests that read a session *)

\* A step of authorization t that leaves the store alone.
LEMMA AuthorizationMoves ==
  ASSUME AccountInv, RowTypes', NEW t \in Attempts,
         UNCHANGED <<token, cred, account, confirm, patch, reused, severed>>, lost \subseteq lost',
         \A u \in Attempts \ {t} :
           attempt'[u] = attempt[u] /\ callback'[u] = callback[u] /\ session'[u] = session[u],
         session[t].ref # 0 => session'[t].ref = session[t].ref /\ session'[t].chosen = session[t].chosen,
         AuthorizationFits(t)',
         callback[t].step = "stored" =>
           \/ callback'[t] = callback[t]
           \/ session'[t].ref = callback[t].ref
           \/ callback[t].ref \in lost'
  PROVE  AccountInv'
<1>1. Kept /\ Len(token') = Len(token) /\ \A i \in 1..Len(token) : Retiree(i)' <=> Retiree(i)
  BY SameTokens
<1>2. Len(token) \in Nat /\ Len(cred) \in Nat
  BY StoreSize DEF AccountInv
<1>3. ASSUME NEW u \in Attempts PROVE AuthorizationFits(u)'
  BY <1>1, <1>2, AuthorizationKept
<1>4. ASSUME NEW q \in Requests PROVE RequestSound(q)'
  <2>1. RequestSound(q) /\ (confirm[q].step # "idle" => confirm[q].of \in Attempts)
    BY DEF AccountInv, RowTypes, Confirmations, Idle
  <2>2. confirm[q].step # "idle" =>
          /\ session'[confirm[q].of].ref = session[confirm[q].of].ref
          /\ session'[confirm[q].of].chosen = session[confirm[q].of].chosen
    BY <2>1 DEF RequestSound
  <2>3. confirm[q].step = "bound" =>
          /\ token[confirm[q].ref].status = "ACTIVE"
          /\ session[confirm[q].of].chosen = 0
          /\ \A c \in 1..Len(cred) : cred[c].ref # confirm[q].ref
    BY <2>1 DEF RequestSound, Retiree
  <2> QED
    BY <1>1, <2>1, <2>2, <2>3, RequestKept
<1>5. BoundOnce' /\ CredentialsFit' /\ OneLive'
  BY <1>1, <1>2, BoundKept, CredentialsKept, OneLiveKept
<1>6. AllHeld'
  <2>1. ASSUME NEW r \in 1..Len(token), Held(r) PROVE Held(r)' \/ r \in lost'
    <3>1. CASE \E u \in Attempts : session[u].ref = r
      BY <3>1 DEF Held
    <3>2. CASE \E u \in Attempts : callback[u].step = "stored" /\ callback[u].ref = r
      BY <3>2 DEF Held
    <3>3. CASE \E q \in Requests : confirm[q].step = "bound" /\ confirm[q].ref = r
      BY <3>3 DEF Held
    <3>4. CASE \E c \in DOMAIN cred : cred[c].ref = r
      BY <3>4 DEF Held
    <3> QED
      BY <2>1, <3>1, <3>2, <3>3, <3>4 DEF Held
  <2> QED
    BY <1>1, <1>2, <2>1, AllHeldKept
<1>7. AccountsFit'
  BY DEF AccountInv, AccountsFit, Works, Own, SeveredElsewhere, Retiree
<1> QED
  BY <1>3, <1>4, <1>5, <1>6, <1>7, PartsAgain DEF StoreFits

LEMMA AuthorizationSmallSteps ==
  ASSUME AccountInv, NEW t \in Attempts,
         \/ Authorize(t) \/ AttemptExpires(t) \/ ConsumeAttempt(t) \/ ExchangeFails(t)
         \/ CreateSession(t) \/ CallbackDies(t) \/ SessionExpires(t)
  PROVE  AccountInv'
<1>0. /\ attempt \in [Attempts -> {"none", "open", "consumed", "expired"}]
      /\ callback \in [Attempts -> Callbacks] /\ session \in [Attempts -> SessionRow \cup {NoSession}]
      /\ AuthorizationFits(t)
  BY DEF AccountInv, RowTypes
<1>1. UNCHANGED <<token, cred, account, confirm, patch, sweep, serverKey, reused, severed, edits>>
  BY DEF Authorize, AttemptExpires, ConsumeAttempt, ExchangeFails, CreateSession, CallbackDies,
         SessionExpires, others
<1>2. ASSUME NEW a \in {"none", "open", "consumed", "expired"}, NEW c \in Callbacks,
             NEW s \in SessionRow \cup {NoSession},
             attempt' = [attempt EXCEPT ![t] = a] \/ (UNCHANGED attempt /\ a = attempt[t]),
             callback' = [callback EXCEPT ![t] = c] \/ (UNCHANGED callback /\ c = callback[t]),
             session' = [session EXCEPT ![t] = s] \/ (UNCHANGED session /\ s = session[t]),
             lost \subseteq lost',
             session[t].ref # 0 => s.ref = session[t].ref /\ s.chosen = session[t].chosen,
             a # "consumed" => attempt[t] # "consumed" /\ c.step = "idle",
             c.step = "exchanging" => attempt[t] # "consumed" \/ callback[t].step = "exchanging",
             c.step = "stored" => c = callback[t],
             a # "consumed" \/ c.step # "idle" => s.ref = 0,
             s.ref # 0 => s = session[t] \/ IsBundle(s.ref, t),
             s.chosen # 0 => s.ref = session[t].ref /\ s.chosen = session[t].chosen,
             callback[t].step = "stored" =>
               c = callback[t] \/ s.ref = callback[t].ref \/ callback[t].ref \in lost'
      PROVE  AccountInv'
  <2>1. /\ attempt'[t] = a /\ callback'[t] = c /\ session'[t] = s
        /\ attempt' \in [Attempts -> {"none", "open", "consumed", "expired"}]
        /\ callback' \in [Attempts -> Callbacks] /\ session' \in [Attempts -> SessionRow \cup {NoSession}]
        /\ \A u \in Attempts \ {t} :
             attempt'[u] = attempt[u] /\ callback'[u] = callback[u] /\ session'[u] = session[u]
    BY <1>0, <1>2
  <2>2. RowTypes'
    BY <1>1, <2>1 DEF AccountInv, RowTypes
  <2>3. AuthorizationFits(t)'
    BY <1>0, <1>1, <1>2, <2>1 DEF AuthorizationFits, NoTokenOf, IsBundle, Retiree
  <2> QED
    BY <1>1, <1>2, <2>1, <2>2, <2>3, AuthorizationMoves
<1>3. /\ Idle \in Callbacks /\ Idle.step = "idle"
      /\ [step |-> "exchanging"] \in Callbacks /\ [step |-> "exchanging"].step = "exchanging"
  BY DEF Callbacks, Idle
<1>4. attempt[t] \in {"none", "open", "consumed", "expired"} /\ callback[t] \in Callbacks
      /\ session[t] \in SessionRow \cup {NoSession}
  BY <1>0
<1>5. CASE Authorize(t) \/ AttemptExpires(t)
  BY <1>0, <1>2, <1>4, <1>5 DEF Authorize, AttemptExpires, AuthorizationFits, others
<1>6. CASE ConsumeAttempt(t)
  BY ZenonT(60), <1>0, <1>2, <1>3, <1>4, <1>6 DEF ConsumeAttempt, AuthorizationFits, others
<1>7. CASE ExchangeFails(t)
  BY <1>0, <1>2, <1>3, <1>4, <1>7 DEF ExchangeFails, AuthorizationFits, others
<1>8. CASE CallbackDies(t)
  BY <1>0, <1>2, <1>3, <1>4, <1>8 DEF CallbackDies, AuthorizationFits, others
<1>9. CASE CreateSession(t)
  <2> DEFINE s == [ref |-> callback[t].ref, expired |-> FALSE, offers |-> callback[t].offers,
                   chosen |-> 0]
  <2>1. callback[t].step = "stored" /\ callback[t].ref \in 1..MaxRefs /\ callback[t].offers \in Offers
    BY <1>4, <1>9 DEF CreateSession, Callbacks, Idle
  <2>2. s \in SessionRow
    BY <2>1 DEF SessionRow, Offers
  <2>3. session' = [session EXCEPT ![t] = s] /\ callback' = [callback EXCEPT ![t] = Idle]
        /\ UNCHANGED <<attempt, lost>>
    BY <1>9 DEF CreateSession, others
  <2>4. s.ref = callback[t].ref /\ s.chosen = 0 /\ IsBundle(s.ref, t) /\ session[t].ref = 0
        /\ attempt[t] = "consumed"
    BY <1>0, <2>1 DEF AuthorizationFits
  <2> HIDE DEF s
  <2> QED
    BY <1>2, <1>3, <1>4, <2>2, <2>3, <2>4
<1>10. CASE SessionExpires(t)
  <2> DEFINE s == [session[t] EXCEPT !.expired = TRUE]
  <2>1. session[t] \in SessionRow
    BY <1>4, <1>10 DEF SessionExpires
  <2>2. s \in SessionRow /\ s.ref = session[t].ref /\ s.chosen = session[t].chosen /\ s.ref # 0
    <3>1. s \in SessionRow
      BY <2>1 DEF SessionRow
    <3>2. s.ref = session[t].ref /\ s.chosen = session[t].chosen
      BY <2>1 DEF SessionRow
    <3>3. s.ref # 0
      BY <3>1, AccountsAssumption DEF SessionRow
    <3> QED
      BY <3>1, <3>2, <3>3
  <2>3. session' = [session EXCEPT ![t] = s] /\ UNCHANGED <<attempt, callback, lost>>
    BY <1>10 DEF SessionExpires, others
  <2>4. IsBundle(s.ref, t)
    BY <1>0, <2>2 DEF AuthorizationFits
  <2> HIDE DEF s
  <2> QED
    BY <1>0, <1>2, <1>4, <2>2, <2>3, <2>4 DEF AuthorizationFits
<1> QED
  BY <1>5, <1>6, <1>7, <1>8, <1>9, <1>10

LEMMA RequestMoves ==
  ASSUME AccountInv, NEW q \in Requests, NEW row \in Confirmations,
         confirm' = [confirm EXCEPT ![q] = row],
         UNCHANGED <<attempt, callback, session, token, cred, account, patch, sweep, serverKey,
                     edits, reused, severed>>,
         lost \subseteq lost', row.step # "bound",
         row.step # "idle" =>
           /\ session[row.of].ref # 0 /\ row.ref = session[row.of].ref
           /\ row.step = "seen" => session[row.of].chosen # 0,
         confirm[q].step = "bound" => confirm[q].ref \in lost'
  PROVE  AccountInv'
<1>0. /\ confirm \in [Requests -> Confirmations] /\ Len(token) \in Nat /\ Len(cred) \in Nat
      /\ confirm'[q] = row /\ \A p \in Requests \ {q} : confirm'[p] = confirm[p]
  BY StoreSize DEF AccountInv, RowTypes
<1>1. Kept /\ Len(token') = Len(token) /\ \A i \in 1..Len(token) : Retiree(i)' <=> Retiree(i)
  BY SameTokens
<1>2. RowTypes'
  BY <1>0 DEF AccountInv, RowTypes
<1>3. ASSUME NEW t \in Attempts PROVE AuthorizationFits(t)'
  BY <1>0, <1>1, AuthorizationKept
<1>4. ASSUME NEW p \in Requests PROVE RequestSound(p)'
  <2>1. CASE p = q
    BY <1>0, <2>1 DEF RequestSound, Confirmations, Idle
  <2>2. CASE p # q
    <3>1. RequestSound(p) /\ confirm'[p] = confirm[p]
      BY <1>0, <2>2 DEF AccountInv
    <3>2. confirm[p].step = "bound" =>
            /\ token[confirm[p].ref].status = "ACTIVE" /\ session[confirm[p].of].chosen = 0
            /\ \A c \in 1..Len(cred) : cred[c].ref # confirm[p].ref
      BY <3>1 DEF RequestSound, Retiree
    <3> QED
      BY <1>1, <3>1, <3>2, RequestKept
  <2> QED
    BY <2>1, <2>2
<1>5. \A p \in Requests : confirm'[p].step = "bound" =>
        confirm[p].step = "bound" /\ confirm'[p].of = confirm[p].of
  BY <1>0
<1>6. BoundOnce' /\ CredentialsFit' /\ OneLive'
  BY <1>0, <1>1, <1>5, BoundKept, CredentialsKept, OneLiveKept
<1>7. AllHeld'
  <2>1. ASSUME NEW r \in 1..Len(token), Held(r) PROVE Held(r)' \/ r \in lost'
    <3>1. CASE \E p \in Requests : confirm[p].step = "bound" /\ confirm[p].ref = r
      BY <1>0, <3>1 DEF Held
    <3>2. CASE ~\E p \in Requests : confirm[p].step = "bound" /\ confirm[p].ref = r
      BY <2>1, <3>2 DEF Held
    <3> QED
      BY <3>1, <3>2
  <2> QED
    BY <1>0, <1>1, <2>1, AllHeldKept
<1>8. AccountsFit'
  BY DEF AccountInv, AccountsFit, Works, Own, SeveredElsewhere, Retiree
<1> QED
  BY <1>2, <1>3, <1>4, <1>6, <1>7, <1>8, PartsAgain DEF StoreFits

LEMMA RequestSmallSteps ==
  ASSUME AccountInv, NEW q \in Requests,
         \/ \E t \in Attempts, a \in Accounts : ReadSession(q, t, a)
         \/ BindRefused(q) \/ ConfirmDies(q)
         \/ ConfirmSession(q) /\ session[confirm[q].of].chosen # 0
         \/ ConfirmRejected(q) /\ confirm[q].step = "seen"
  PROVE  AccountInv'
<1>1. Idle \in Confirmations /\ Idle.step = "idle"
  BY DEF Confirmations, Idle
<1>2. RequestSound(q)
  BY DEF AccountInv
<1>3. CASE \E t \in Attempts, a \in Accounts : ReadSession(q, t, a)
  <2>1. PICK t \in Attempts, a \in Accounts : ReadSession(q, t, a)
    BY <1>3
  <2>2. session[t] \in SessionRow
    BY <2>1 DEF ReadSession, AccountInv, RowTypes
  <2>3. session[t].ref \in 1..MaxRefs /\ session[t].ref # 0
    BY <2>2, AccountsAssumption DEF SessionRow
  <2>4. PICK step \in {"unbound", "seen"} :
          /\ confirm' = [confirm EXCEPT ![q] = [step |-> step, of |-> t, pick |-> a,
                                                ref |-> session[t].ref]]
          /\ step = "seen" => session[t].chosen # 0
    BY <2>1 DEF ReadSession
  <2>5. [step |-> step, of |-> t, pick |-> a, ref |-> session[t].ref] \in Confirmations
    BY <2>3 DEF Confirmations
  <2>6. confirm[q].step # "bound"
    BY <2>1 DEF ReadSession, Idle
  <2> QED
    BY <2>1, <2>3, <2>4, <2>5, <2>6, RequestMoves DEF ReadSession, others
<1>4. CASE BindRefused(q) \/ ConfirmDies(q)
  BY <1>1, <1>4, RequestMoves DEF BindRefused, ConfirmDies, others
<1>5. CASE ConfirmSession(q) /\ session[confirm[q].of].chosen # 0
  <2>1. confirm[q].step # "bound"
    BY <1>2, <1>5 DEF RequestSound
  <2> QED
    BY <1>1, <1>5, <2>1, RequestMoves DEF ConfirmSession, others
<1>6. CASE ConfirmRejected(q) /\ confirm[q].step = "seen"
  BY <1>1, <1>6, RequestMoves DEF ConfirmRejected, others
<1> QED
  BY <1>3, <1>4, <1>5, <1>6

-----------------------------------------------------------------------------
(* Steps that store or retire a row *)

LEMMA KeptByRetiring ==
  ASSUME AccountInv, NEW r \in 1..Len(token), NEW s \in {"ROTATED", "DISCONNECTED"},
         token' = Retired(token, r, s)
  PROVE  /\ Kept /\ Len(token') = Len(token)
         /\ \A i \in 1..Len(token) : Retiree(i)' <=> Retiree(i) \/ i = r
<1>1. token \in Seq(TokenRow)
  BY DEF AccountInv, RowTypes
<1>2. /\ token' \in Seq(TokenRow) /\ Len(token') = Len(token)
      /\ \A i \in 1..Len(token) :
           /\ token'[i].kind = token[i].kind /\ token'[i].from = token[i].from
           /\ token'[i].status = IF i = r THEN s ELSE token[i].status
  BY <1>1, Retirement
<1> QED
  BY <1>1, <1>2 DEF Kept, Retiree

LEMMA KeptByStoring ==
  ASSUME AccountInv, NEW x \in TokenRow, token' = Append(token, x)
  PROVE  /\ Kept /\ Len(token') = Len(token) + 1 /\ token'[Len(token) + 1] = x
         /\ \A i \in 1..Len(token) : Retiree(i)' <=> Retiree(i)
<1>1. token \in Seq(TokenRow)
  BY DEF AccountInv, RowTypes
<1>2. /\ token' \in Seq(TokenRow) /\ Len(token') = Len(token) + 1
      /\ \A i \in 1..Len(token) : token'[i] = token[i]
      /\ token'[Len(token) + 1] = x
  BY <1>1, Appending
<1> QED
  BY <1>1, <1>2 DEF Kept, Retiree

LEMMA KeptByReplacing ==
  ASSUME AccountInv, NEW r \in 1..Len(token), NEW x \in TokenRow,
         token' = Append(Retired(token, r, "ROTATED"), x)
  PROVE  /\ Kept /\ Len(token') = Len(token) + 1 /\ token'[Len(token) + 1] = x
         /\ \A i \in 1..Len(token) : Retiree(i)' <=> Retiree(i) \/ i = r
<1> DEFINE rows == Retired(token, r, "ROTATED")
<1>1. token \in Seq(TokenRow)
  BY DEF AccountInv, RowTypes
<1>2. /\ rows \in Seq(TokenRow) /\ Len(rows) = Len(token)
      /\ \A i \in 1..Len(token) :
           /\ rows[i].kind = token[i].kind /\ rows[i].from = token[i].from
           /\ rows[i].status = IF i = r THEN "ROTATED" ELSE token[i].status
  BY <1>1, Retirement
<1>3. token' = Append(rows, x)
  OBVIOUS
<1> HIDE DEF rows
<1>4. rows \in Seq(TokenRow)
  BY <1>2
<1>5. /\ Append(rows, x) \in Seq(TokenRow) /\ Len(Append(rows, x)) = Len(rows) + 1
      /\ \A i \in 1..Len(rows) : Append(rows, x)[i] = rows[i]
      /\ Append(rows, x)[Len(rows) + 1] = x
  BY <1>4, Appending
<1>6. /\ token' \in Seq(TokenRow) /\ Len(token') = Len(token) + 1 /\ token'[Len(token) + 1] = x
      /\ Len(token) \in Nat
      /\ \A i \in 1..Len(token) :
           /\ token'[i].kind = token[i].kind /\ token'[i].from = token[i].from
           /\ token'[i].status = IF i = r THEN "ROTATED" ELSE token[i].status
  <2>0. Len(rows) = Len(token) /\ Len(token) \in Nat
    BY <1>1, <1>2
  <2>1. /\ token' \in Seq(TokenRow) /\ Len(token') = Len(token) + 1 /\ token'[Len(token) + 1] = x
        /\ Len(token) \in Nat
    <3>1. token' \in Seq(TokenRow)
      BY <1>3, <1>5
    <3>2. Len(token') = Len(token) + 1
      BY <1>3, <1>5, <2>0
    <3>3. token'[Len(token) + 1] = x
      BY <1>3, <1>5, <2>0
    <3> QED
      BY <2>0, <3>1, <3>2, <3>3
  <2>2. \A i \in 1..Len(token) : token'[i] = rows[i]
    BY <1>2, <1>3, <1>5
  <2> QED
    BY <1>2, <2>1, <2>2
<1> QED
  BY <1>6 DEF Kept, Retiree

\* What the invariant says of bundles, tokens and who holds them.
LEMMA Holders ==
  ASSUME AccountInv
  PROVE  /\ \A t \in Attempts : session[t].ref # 0 => IsBundle(session[t].ref, t)
         /\ \A t \in Attempts : callback[t].step = "stored" => IsBundle(callback[t].ref, t)
         /\ \A q \in Requests : confirm[q].step # "idle" => confirm[q].of \in Attempts
         /\ \A q \in Requests : confirm[q].step = "bound" =>
              /\ IsToken(confirm[q].ref) /\ token[confirm[q].ref].from = confirm[q].of
              /\ session[confirm[q].of].chosen = 0
              /\ token[confirm[q].ref].status = "ACTIVE"
              /\ \A c \in 1..Len(cred) : cred[c].ref # confirm[q].ref
         /\ \A a \in Accounts : /\ account[a].cred \in 0..Len(cred)
                                /\ account[a].cred # 0 => account[a].cred \in 1..Len(cred)
         /\ \A c \in 1..Len(cred) : cred[c].ref # 0 => IsToken(cred[c].ref)
<1>1. \A q \in Requests : confirm[q].step # "idle" => confirm[q].of \in Attempts
  BY DEF AccountInv, RowTypes, Confirmations, Idle
<1>2. \A a \in Accounts : account[a].cred \in Nat /\ account[a].cred <= Len(cred)
  BY AccountsAssumption DEF AccountInv, RowTypes, AccountsFit, AccountRow
<1>3. Len(cred) \in Nat
  BY StoreSize DEF AccountInv
<1>4. \A q \in Requests : RequestSound(q)
  BY DEF AccountInv
<1>5. \A q \in Requests : confirm[q].step = "bound" =>
              /\ IsToken(confirm[q].ref) /\ token[confirm[q].ref].from = confirm[q].of
              /\ session[confirm[q].of].chosen = 0
              /\ token[confirm[q].ref].status = "ACTIVE"
              /\ \A c \in 1..Len(cred) : cred[c].ref # confirm[q].ref
  BY <1>4 DEF RequestSound, Retiree
<1> QED
  BY <1>1, <1>2, <1>3, <1>5 DEF AccountInv, AuthorizationFits, CredentialsFit

\* A bundle is retired; the accounts and the requests depend on tokens only.
LEMMA BundlesAside ==
  ASSUME AccountInv, Kept, NEW t \in Attempts, NEW r, IsBundle(r, t),
         \A i \in 1..Len(token) : Retiree(i)' <=> Retiree(i) \/ i = r
  PROVE  /\ \A q \in Requests : confirm[q].step = "bound" => token'[confirm[q].ref].status = "ACTIVE"
         /\ \A c \in 1..Len(cred) : cred[c].ref # 0 => StaysUsable(cred[c].ref, token')
<1>1. \A i : IsToken(i) => i # r /\ i \in 1..Len(token)
  BY DEF IsToken, IsBundle
<1> QED
  BY <1>1, Holders DEF StaysUsable, Retiree

LEMMA BundleStored ==
  ASSUME AccountInv, NEW t \in Attempts, StoreBundle(t)
  PROVE  AccountInv'
<1> DEFINE x == NewToken("bundle", t, "fresh")
           n == Len(token) + 1
<1>0. /\ Len(token) \in Nat /\ Len(cred) \in Nat /\ DOMAIN cred = 1..Len(cred) /\ RowTypes
      /\ n <= MaxRefs /\ MaxRefs \in Nat
      /\ callback \in [Attempts -> Callbacks] /\ AuthorizationFits(t)
  BY StoreSize DEF AccountInv, RowTypes, StoreBundle
<1>1. /\ x \in TokenRow /\ x.kind = "bundle" /\ x.from = t /\ x.status = "ACTIVE"
      /\ token' = Append(token, x)
  BY <1>0, NewRow DEF StoreBundle, Lives
<1> HIDE DEF x
<1>2. /\ Kept /\ Len(token') = n /\ token'[n] = x
      /\ \A i \in 1..Len(token) : Retiree(i)' <=> Retiree(i)
  BY <1>1, KeptByStoring
<1>3. UNCHANGED <<attempt, session, cred, account, confirm, lost, patch, sweep, serverKey, reused, severed, edits>>
  BY DEF StoreBundle, others
<1>4. PICK offers \in Offers :
        callback' = [callback EXCEPT ![t] = [step |-> "stored", ref |-> Len(token'), offers |-> offers]]
  BY DEF StoreBundle
<1>5. /\ callback'[t].step = "stored" /\ callback'[t].ref = n
      /\ \A u \in Attempts \ {t} : callback'[u] = callback[u]
      /\ callback' \in [Attempts -> Callbacks]
  <2>1. [step |-> "stored", ref |-> Len(token'), offers |-> offers] \in Callbacks
    BY <1>0, <1>2 DEF Callbacks
  <2> QED
    BY <1>0, <1>2, <1>4, <2>1
<1>6. attempt[t] = "consumed" /\ session[t].ref = 0 /\ session[t].chosen = 0 /\ NoTokenOf(t)
  BY <1>0 DEF StoreBundle, AuthorizationFits
<1>7. RowTypes'
  BY <1>0, <1>2, <1>3, <1>5 DEF RowTypes, Kept
<1>8. ASSUME NEW u \in Attempts PROVE AuthorizationFits(u)'
  <2>1. CASE u = t
    BY <1>0, <1>1, <1>2, <1>3, <1>5, <1>6, <2>1 DEF AuthorizationFits, IsBundle
  <2>2. CASE u # t
    <3>1. \A i \in 1..Len(token') : i > Len(token) => token'[i].from # u
      BY <1>0, <1>1, <1>2, <2>2
    <3> QED
      BY <1>2, <1>3, <1>5, <2>2, <3>1, AuthorizationKept
  <2> QED
    BY <2>1, <2>2
<1>9. ASSUME NEW q \in Requests PROVE RequestSound(q)'
  <2>1. confirm[q].step = "bound" => token'[confirm[q].ref].status = "ACTIVE"
    BY <1>2, Holders DEF IsToken, Retiree
  <2> QED
    BY <1>2, <1>3, <2>1, Holders, RequestKept
<1>10. BoundOnce' /\ CredentialsFit'
  BY <1>0, <1>2, <1>3, BoundKept, CredentialsKept
<1>11. OneLive'
  <2>1. \A i \in 1..Len(token') : i > Len(token) =>
           /\ i = Len(token) + 1
           /\ \A k \in 1..Len(token) : token[k].from # token'[i].from
    BY <1>0, <1>1, <1>2, <1>6 DEF NoTokenOf
  <2> QED
    BY <1>2, <2>1, OneLiveKept
<1>12. AllHeld'
  <2>1. \A r \in 1..Len(token') : r > Len(token) => Held(r)'
    BY <1>0, <1>2, <1>5 DEF Held
  <2>2. ASSUME NEW r \in 1..Len(token), Held(r) PROVE Held(r)'
    <3>1. callback[t].step # "stored"
      BY DEF StoreBundle
    <3> QED
      BY <1>3, <1>5, <2>2, <3>1 DEF Held
  <2> QED
    BY <1>2, <1>3, <2>1, <2>2, AllHeldKept
<1>13. AccountsFit'
  <2>1. \A a \in Accounts :
          LET c == account[a].cred IN
          c # 0 => cred[c].ref = 0 \/ StaysUsable(cred[c].ref, token')
    BY <1>2, Holders DEF StaysUsable, Retiree, IsToken
  <2> QED
    BY <1>0, <1>2, <1>3, <2>1, AccountsKept
<1> QED
  BY <1>7, <1>8, <1>9, <1>10, <1>11, <1>12, <1>13, PartsAgain DEF StoreFits

LEMMA SessionRejected ==
  ASSUME AccountInv, NEW t \in Attempts, RejectSession(t)
  PROVE  AccountInv'
<1> DEFINE r == callback[t].ref
<1>0. /\ Len(token) \in Nat /\ Len(cred) \in Nat /\ DOMAIN cred = 1..Len(cred) /\ RowTypes
      /\ callback \in [Attempts -> Callbacks] /\ AuthorizationFits(t)
      /\ callback[t].step = "stored"
  BY StoreSize DEF AccountInv, RowTypes, RejectSession
<1>1. IsBundle(r, t) /\ r \in 1..Len(token) /\ attempt[t] = "consumed" /\ session[t].ref = 0
      /\ session[t].chosen = 0
  BY <1>0 DEF AuthorizationFits, IsBundle
<1>2. /\ Kept /\ Len(token') = Len(token)
      /\ \A i \in 1..Len(token) : Retiree(i)' <=> Retiree(i) \/ i = r
  BY <1>1, KeptByRetiring DEF RejectSession
<1>3. /\ UNCHANGED <<attempt, session, cred, account, confirm, lost, patch, sweep, serverKey, reused, severed,
                     edits>>
      /\ callback' = [callback EXCEPT ![t] = Idle]
  BY DEF RejectSession, others
<1>4. /\ callback'[t].step = "idle" /\ callback' \in [Attempts -> Callbacks]
      /\ \A u \in Attempts \ {t} : callback'[u] = callback[u]
  BY <1>0, <1>3 DEF Callbacks, Idle
<1>5. /\ \A q \in Requests : confirm[q].step = "bound" => token'[confirm[q].ref].status = "ACTIVE"
      /\ \A c \in 1..Len(cred) : cred[c].ref # 0 => StaysUsable(cred[c].ref, token')
  BY <1>1, <1>2, BundlesAside
<1>6. RowTypes'
  BY <1>0, <1>2, <1>3, <1>4 DEF RowTypes, Kept
<1>7. ASSUME NEW u \in Attempts PROVE AuthorizationFits(u)'
  <2>1. CASE u = t
    BY <1>1, <1>3, <1>4, <2>1 DEF AuthorizationFits
  <2>2. CASE u # t
    BY <1>0, <1>2, <1>3, <1>4, <2>2, AuthorizationKept
  <2> QED
    BY <2>1, <2>2
<1>8. ASSUME NEW q \in Requests PROVE RequestSound(q)'
  BY <1>2, <1>3, <1>5, Holders, RequestKept
<1>9. BoundOnce' /\ CredentialsFit' /\ OneLive'
  BY <1>0, <1>2, <1>3, BoundKept, CredentialsKept, OneLiveKept
<1>10. AllHeld'
  <2>1. ASSUME NEW k \in 1..Len(token), k # r, Held(k) PROVE Held(k)'
    BY <1>3, <1>4, <2>1 DEF Held
  <2> QED
    BY <1>0, <1>2, <1>3, <2>1, AllHeldKept
<1>11. AccountsFit'
  BY <1>0, <1>2, <1>3, <1>5, Holders, AccountsKept
<1> QED
  BY <1>6, <1>7, <1>8, <1>9, <1>10, <1>11, PartsAgain DEF StoreFits

LEMMA TokenBound ==
  ASSUME AccountInv, NEW q \in Requests, Bind(q)
  PROVE  AccountInv'
<1>a. PICK t, r, n : t = confirm[q].of /\ r = confirm[q].ref /\ n = Len(token) + 1
  OBVIOUS
<1> DEFINE x == NewToken("token", t, token[r].life)
<1>0. /\ Len(token) \in Nat /\ Len(cred) \in Nat /\ DOMAIN cred = 1..Len(cred) /\ RowTypes
      /\ n <= MaxRefs /\ MaxRefs \in Nat
      /\ confirm \in [Requests -> Confirmations] /\ RequestSound(q)
      /\ confirm[q].step = "unbound" /\ Bindable(r)
  BY <1>a, StoreSize DEF AccountInv, RowTypes, Bind
<1>1. /\ t \in Attempts /\ session[t].ref = r /\ r # 0
      /\ IsBundle(r, t) /\ r \in 1..Len(token) /\ token[r].status = "ACTIVE"
      /\ token[r] \in TokenRow /\ AuthorizationFits(t)
  <2>1. t \in Attempts /\ session[t].ref = r /\ r # 0
    BY <1>a, <1>0, Holders DEF RequestSound
  <2> QED
    BY <1>0, <2>1, Holders DEF Bindable, Resolves, RowTypes, AccountInv
<1>2. session[t].chosen = 0
  BY <1>1 DEF AuthorizationFits, Retiree
<1>3. /\ x \in TokenRow /\ x.kind = "token" /\ x.from = t /\ x.status = "ACTIVE"
  <2>1. token[r].life \in Lives
    BY <1>1 DEF TokenRow
  <2> QED
    BY <1>0, <1>1, <2>1, NewRow
<1>4. token' = Append(Retired(token, r, "ROTATED"), x)
  BY <1>a DEF Bind
<1> HIDE DEF x
<1>5. /\ Kept /\ Len(token') = n /\ token'[n] = x
      /\ \A i \in 1..Len(token) : Retiree(i)' <=> Retiree(i) \/ i = r
  BY <1>a, <1>1, <1>3, <1>4, KeptByReplacing
<1>6. UNCHANGED <<attempt, callback, session, cred, account, lost, patch, sweep, serverKey, reused, severed,
                  edits>>
  BY DEF Bind, others
<1>7. /\ confirm'[q].step = "bound" /\ confirm'[q].of = t /\ confirm'[q].ref = n
      /\ \A p \in Requests \ {q} : confirm'[p] = confirm[p]
      /\ confirm' \in [Requests -> Confirmations]
  <2>1. confirm[q] \in [step: {"unbound", "seen", "bound"}, of: Attempts, pick: Accounts, ref: 1..MaxRefs]
    BY <1>0 DEF Confirmations, Idle
  <2> DEFINE row == [[confirm[q] EXCEPT !.step = "bound"] EXCEPT !.ref = n]
  <2>2. row \in Confirmations /\ row.step = "bound" /\ row.of = t /\ row.ref = n
    <3>1. n \in 1..MaxRefs
      BY <1>a, <1>0
    <3>2. row \in [step: {"unbound", "seen", "bound"}, of: Attempts, pick: Accounts, ref: 1..MaxRefs]
          /\ row.step = "bound" /\ row.of = confirm[q].of /\ row.ref = n
      BY <2>1, <3>1
    <3> HIDE DEF row
    <3> QED
      BY <1>a, <3>2 DEF Confirmations
  <2>3. confirm' = [confirm EXCEPT ![q] = row]
    BY <1>a, <1>5 DEF Bind
  <2> HIDE DEF row
  <2> QED
    BY <1>0, <2>2, <2>3
<1>8. /\ \A p \in Requests : confirm[p].step = "bound" => token'[confirm[p].ref].status = "ACTIVE"
      /\ \A c \in 1..Len(cred) : cred[c].ref # 0 => StaysUsable(cred[c].ref, token')
  BY <1>1, <1>5, BundlesAside
<1>9. n = Len(token) + 1
  BY <1>a
<1>10. RowTypes'
  BY <1>0, <1>5, <1>6, <1>7 DEF RowTypes, Kept
<1>11. ASSUME NEW u \in Attempts PROVE AuthorizationFits(u)'
  <2>1. \A i \in 1..Len(token') : i > Len(token) => token'[i].from # u \/ ~NoTokenOf(u)
    BY <1>0, <1>1, <1>3, <1>5, <1>9 DEF NoTokenOf, IsBundle
  <2> QED
    BY <1>5, <1>6, <2>1, AuthorizationKept
<1>12. ASSUME NEW p \in Requests PROVE RequestSound(p)'
  <2>1. CASE p = q
    <3>1. \A c \in 1..Len(cred) : cred[c].ref # n
      BY <1>0, <1>9, Holders DEF IsToken
    <3>2. IsToken(n)' /\ token'[n].from = t /\ ~Retiree(n)' /\ Retiree(r)'
      <4>1. n \in 1..Len(token') /\ token'[n].kind = "token" /\ token'[n].from = t
            /\ token'[n].status = "ACTIVE"
        BY <1>0, <1>3, <1>5, <1>9
      <4>2. token'[r].status # "ACTIVE"
        BY <1>1, <1>5 DEF Retiree
      <4> QED
        BY <4>1, <4>2 DEF IsToken, Retiree
    <3>3. confirm'[p].of = t /\ confirm'[p].ref = n /\ confirm'[p].step = "bound"
      BY <1>7, <2>1
    <3>4. session' = session /\ cred' = cred
      BY <1>6
    <3> QED
      BY <1>1, <1>2, <3>1, <3>2, <3>3, <3>4 DEF RequestSound
  <2>2. CASE p # q
    BY <1>5, <1>6, <1>7, <1>8, <2>2, Holders, RequestKept
  <2> QED
    BY <2>1, <2>2
<1>13. \A p \in Requests : confirm[p].step = "bound" => confirm[p].of # t
  <2>1. ASSUME NEW p \in Requests, confirm[p].step = "bound", confirm[p].of = t
        PROVE  FALSE
    <3>1. RequestSound(p)
      BY DEF AccountInv
    <3>2. Retiree(session[t].ref)
      BY <2>1, <3>1 DEF RequestSound
    <3> QED
      BY <1>1, <3>2 DEF Retiree
  <2> QED
    BY <2>1
<1>14. BoundOnce'
  <2>1. BoundOnce
    BY DEF AccountInv
  <2>2. ASSUME NEW p1 \in Requests, NEW p2 \in Requests, confirm'[p1].step = "bound",
               confirm'[p2].step = "bound", confirm'[p1].of = confirm'[p2].of
        PROVE  p1 = p2
    <3>1. CASE p1 = q
      BY <1>7, <1>13, <2>2, <3>1
    <3>2. CASE p1 # q /\ p2 # q
      BY <1>7, <2>1, <2>2, <3>2 DEF BoundOnce
    <3>3. CASE p1 # q /\ p2 = q
      BY <1>7, <1>13, <2>2, <3>3
    <3> QED
      BY <3>1, <3>2, <3>3
  <2> QED
    BY <2>2 DEF BoundOnce
<1>15. CredentialsFit'
  BY <1>0, <1>5, <1>6, CredentialsKept
<1>16. OneLive'
  <2>1. \A k \in 1..Len(token) : token[k].from = t => Retiree(k)'
    <3>1. ASSUME NEW k \in 1..Len(token), token[k].from = t, ~Retiree(k)'
          PROVE  FALSE
      <4>1. k \in Live /\ r \in Live /\ k # r
        BY <1>0, <1>1, <1>5, <3>1, StoreSize DEF Live, Retiree
      <4> QED
        BY <1>1, <3>1, <4>1, Accounted DEF AccountInv, OneLive, IsBundle
    <3> QED
      BY <3>1
  <2>2. \A i \in 1..Len(token') : i > Len(token) => i = n /\ token'[i].from = t
    BY <1>0, <1>3, <1>5, <1>9
  <2> QED
    BY <1>5, <1>9, <2>1, <2>2, OneLiveKept
<1>17. AllHeld'
  <2>1. \A i \in 1..Len(token') : i > Len(token) => Held(i)'
    BY <1>0, <1>5, <1>7, <1>9 DEF Held
  <2>2. ASSUME NEW k \in 1..Len(token), k # r, Held(k) PROVE Held(k)'
    <3>1. CASE \E p \in Requests : confirm[p].step = "bound" /\ confirm[p].ref = k
      BY <1>0, <1>7, <3>1 DEF Held
    <3>2. CASE ~\E p \in Requests : confirm[p].step = "bound" /\ confirm[p].ref = k
      BY <1>6, <2>2, <3>2 DEF Held
    <3> QED
      BY <3>1, <3>2
  <2> QED
    BY <1>5, <1>6, <2>1, <2>2, AllHeldKept
<1>18. AccountsFit'
  BY <1>0, <1>5, <1>6, <1>8, Holders, AccountsKept
<1> QED
  BY <1>10, <1>11, <1>12, <1>14, <1>15, <1>16, <1>17, <1>18, PartsAgain DEF StoreFits

LEMMA BoundRejected ==
  ASSUME AccountInv, NEW q \in Requests, ConfirmRejected(q), confirm[q].step = "bound"
  PROVE  AccountInv'
<1> DEFINE r == confirm[q].ref
<1>0. /\ Len(token) \in Nat /\ Len(cred) \in Nat /\ DOMAIN cred = 1..Len(cred) /\ RowTypes
      /\ confirm \in [Requests -> Confirmations]
  BY StoreSize DEF AccountInv, RowTypes
<1>1. /\ IsToken(r) /\ r \in 1..Len(token) /\ token[r].from = confirm[q].of
      /\ \A c \in 1..Len(cred) : cred[c].ref # r
  BY Holders DEF IsToken
<1>2. /\ Kept /\ Len(token') = Len(token)
      /\ \A i \in 1..Len(token) : Retiree(i)' <=> Retiree(i) \/ i = r
  BY <1>1, KeptByRetiring DEF ConfirmRejected
<1>3. /\ UNCHANGED <<attempt, callback, session, cred, account, lost, patch, sweep, serverKey, reused, severed,
                     edits>>
      /\ confirm' = [confirm EXCEPT ![q] = Idle]
  BY DEF ConfirmRejected, others
<1>4. /\ confirm'[q].step = "idle" /\ confirm' \in [Requests -> Confirmations]
      /\ \A p \in Requests \ {q} : confirm'[p] = confirm[p]
  BY <1>0, <1>3 DEF Confirmations, Idle
<1>5. RowTypes'
  BY <1>0, <1>2, <1>3, <1>4 DEF RowTypes, Kept
<1>6. ASSUME NEW u \in Attempts PROVE AuthorizationFits(u)'
  BY <1>0, <1>2, <1>3, AuthorizationKept
<1>7. \A c \in 1..Len(cred) : cred[c].ref # 0 => StaysUsable(cred[c].ref, token')
  BY <1>1, <1>2, Holders DEF StaysUsable, Retiree, IsToken
<1>8. ASSUME NEW p \in Requests PROVE RequestSound(p)'
  <2>1. CASE p = q
    BY <1>4, <2>1 DEF RequestSound
  <2>2. CASE p # q
    <3>1. confirm[p].step = "bound" => token'[confirm[p].ref].status = "ACTIVE"
      BY <1>1, <1>2, <2>2, Holders DEF AccountInv, BoundOnce, IsToken, Retiree
    <3> QED
      BY <1>2, <1>3, <1>4, <2>2, <3>1, Holders, RequestKept
  <2> QED
    BY <2>1, <2>2
<1>9. BoundOnce'
  BY <1>4, BoundKept
<1>10. CredentialsFit' /\ OneLive'
  BY <1>0, <1>2, <1>3, CredentialsKept, OneLiveKept
<1>11. AllHeld'
  <2>1. ASSUME NEW k \in 1..Len(token), k # r, Held(k) PROVE Held(k)'
    <3>1. CASE \E p \in Requests : confirm[p].step = "bound" /\ confirm[p].ref = k
      BY <1>4, <2>1, <3>1 DEF Held
    <3>2. CASE ~\E p \in Requests : confirm[p].step = "bound" /\ confirm[p].ref = k
      BY <1>3, <2>1, <3>2 DEF Held
    <3> QED
      BY <3>1, <3>2
  <2> QED
    BY <1>0, <1>2, <1>3, <2>1, AllHeldKept
<1>12. AccountsFit'
  BY <1>0, <1>2, <1>3, <1>7, Holders, AccountsKept
<1> QED
  BY <1>5, <1>6, <1>8, <1>9, <1>10, <1>11, <1>12, PartsAgain DEF StoreFits

LEMMA SessionConfirmed ==
  ASSUME AccountInv, NEW q \in Requests, ConfirmSession(q), session[confirm[q].of].chosen = 0
  PROVE  AccountInv'
<1>a. PICK t, r, n, a : /\ t = confirm[q].of /\ r = confirm[q].ref /\ n = Len(cred) + 1
                        /\ a = confirm[q].pick
  OBVIOUS
<1>0. /\ Len(token) \in Nat /\ Len(cred) \in Nat /\ DOMAIN cred = 1..Len(cred) /\ RowTypes
      /\ DOMAIN token = 1..Len(token)
      /\ cred \in Seq(CredentialRow) /\ n \in 1..MaxCreds /\ MaxCreds \in Nat
      /\ confirm \in [Requests -> Confirmations] /\ RequestSound(q) /\ Len(cred) < MaxCreds
      /\ session \in [Attempts -> SessionRow \cup {NoSession}] /\ account \in [Accounts -> AccountRow]
  BY <1>a, StoreSize DEF AccountInv, RowTypes, ConfirmSession
<1>1. confirm[q].step = "bound"
  BY <1>0 DEF ConfirmSession, RequestSound
<1>2. /\ t \in Attempts /\ a \in Accounts /\ a # 0
      /\ IsToken(r) /\ r \in 1..Len(token) /\ token[r] \in TokenRow /\ token[r].from = t
      /\ token[r].status = "ACTIVE" /\ r # 0
      /\ \A c \in 1..Len(cred) : cred[c].ref # r
      /\ session[t].ref # 0 /\ session[t].chosen = 0 /\ Retiree(session[t].ref)
  <2>1. confirm[q] \in [step: {"unbound", "seen", "bound"}, of: Attempts, pick: Accounts, ref: 1..MaxRefs]
    BY <1>0, <1>1 DEF Confirmations, Idle
  <2>2. t \in Attempts /\ a \in Accounts /\ a # 0
    BY <1>a, <2>1, AccountsAssumption
  <2>3. /\ IsToken(r) /\ token[r].from = t /\ ~Retiree(r) /\ \A c \in 1..Len(cred) : cred[c].ref # r
        /\ session[t].ref # 0 /\ session[t].chosen = 0 /\ Retiree(session[t].ref)
    BY <1>a, <1>0, <1>1 DEF RequestSound
  <2>4. r \in 1..Len(token) /\ r # 0
    BY <1>0, <2>3 DEF IsToken
  <2>5. token[r] \in TokenRow
    BY <1>0, <2>4, StoreSize
  <2> QED
    BY <2>2, <2>3, <2>4, <2>5 DEF Retiree
<1>3. /\ UNCHANGED <<attempt, callback, token, lost, patch, sweep, serverKey, reused, severed, edits>>
      /\ cred' = Append(cred, [ref |-> r, life |-> token[r].life])
      /\ account' = [account EXCEPT ![a] = ConnectedRow(Len(cred'))]
      /\ session' = [session EXCEPT ![t].chosen = a]
      /\ confirm' = [confirm EXCEPT ![q] = Idle]
  BY <1>a DEF ConfirmSession, others
<1>4. /\ Kept /\ Len(token') = Len(token)
      /\ \A i \in 1..Len(token) : Retiree(i)' <=> Retiree(i)
  BY <1>3, SameTokens
<1>5. /\ cred' \in Seq(CredentialRow) /\ Len(cred') = n /\ cred'[n].ref = r
      /\ \A c \in 1..Len(cred) : cred'[c] = cred[c]
      /\ DOMAIN cred' = 1..n
  <2> DEFINE x == [ref |-> r, life |-> token[r].life]
  <2>1. r \in 0..MaxRefs /\ token[r].life \in Lives
    BY <1>0, <1>2, StoreSize DEF TokenRow
  <2>2. x \in CredentialRow /\ x.ref = r
    BY <2>1 DEF CredentialRow
  <2> HIDE DEF x
  <2>3. cred' = Append(cred, x)
    BY <1>3 DEF x
  <2>4. /\ cred' \in Seq(CredentialRow) /\ Len(cred') = Len(cred) + 1
        /\ \A c \in 1..Len(cred) : cred'[c] = cred[c]
        /\ cred'[Len(cred) + 1] = x
    BY <1>0, <2>2, <2>3, Appending
  <2>5. DOMAIN cred' = 1..Len(cred')
    BY <2>4
  <2> QED
    BY <1>a, <2>2, <2>4, <2>5
<1>6. /\ confirm'[q].step = "idle" /\ confirm' \in [Requests -> Confirmations]
      /\ \A p \in Requests \ {q} : confirm'[p] = confirm[p]
  BY <1>0, <1>3 DEF Confirmations, Idle
<1>7. /\ session'[t].ref = session[t].ref /\ session'[t].chosen = a
      /\ \A u \in Attempts \ {t} : session'[u] = session[u]
      /\ session' \in [Attempts -> SessionRow \cup {NoSession}]
  <2>1. session[t] \in SessionRow
    BY <1>0, <1>2 DEF NoSession
  <2> DEFINE s == [session[t] EXCEPT !.chosen = a]
  <2>2. s \in SessionRow /\ s.ref = session[t].ref /\ s.chosen = a
    BY <1>2, <2>1 DEF SessionRow
  <2>3. session' = [session EXCEPT ![t] = s]
    BY <1>3
  <2> HIDE DEF s
  <2> QED
    BY <1>0, <1>2, <2>2, <2>3
<1>8. /\ account'[a].cred = n /\ account' \in [Accounts -> AccountRow]
      /\ \A b \in Accounts \ {a} : account'[b] = account[b]
  <2>1. ConnectedRow(n) \in AccountRow /\ ConnectedRow(n).cred = n
    BY <1>0 DEF ConnectedRow, AccountRow, Modes, Connections
  <2> QED
    BY <1>0, <1>2, <1>3, <1>5, <2>1
<1>9. RowTypes'
  BY <1>0, <1>3, <1>5, <1>6, <1>7, <1>8 DEF RowTypes
<1>10. ASSUME NEW u \in Attempts PROVE AuthorizationFits(u)'
  <2>1. CASE u = t
    <3>1. AuthorizationFits(t)
      BY <1>2 DEF AccountInv
    <3>2. Retiree(session[t].ref)'
      BY <1>2, <1>3, <1>7 DEF Retiree
    <3> QED
      BY <1>2, <1>3, <1>7, <2>1, <3>1, <3>2 DEF AuthorizationFits, NoTokenOf, IsBundle
  <2>2. CASE u # t
    BY <1>0, <1>3, <1>4, <1>7, <2>2, AuthorizationKept
  <2> QED
    BY <2>1, <2>2
<1>11. ASSUME NEW p \in Requests PROVE RequestSound(p)'
  <2>1. CASE p = q
    BY <1>6, <2>1 DEF RequestSound
  <2>2. CASE p # q
    <3>1. confirm[p].step = "bound" => confirm[p].of # t /\ confirm[p].ref # r
      BY <1>a, <1>1, <1>2, <2>2, Holders DEF AccountInv, BoundOnce
    <3>2. confirm[p].step = "bound" => \A c \in 1..Len(cred') : cred'[c].ref # confirm[p].ref
      BY SMTT(30), <1>a, <1>0, <1>5, <3>1, Holders
    <3>3. confirm[p].step # "idle" =>
            /\ session'[confirm[p].of].ref = session[confirm[p].of].ref
            /\ session[confirm[p].of].chosen # 0 => session'[confirm[p].of].chosen # 0
            /\ confirm[p].step = "bound" => session'[confirm[p].of].chosen = 0
      BY <1>2, <1>7, <3>1, Holders
    <3>4. confirm[p].step = "bound" => token'[confirm[p].ref].status = "ACTIVE"
      BY <1>3, Holders
    <3> QED
      BY <1>4, <1>6, <2>2, <3>2, <3>3, <3>4, RequestKept
  <2> QED
    BY <2>1, <2>2
<1>12. BoundOnce'
  BY <1>6, BoundKept
<1>13. CredentialsFit'
  <2>1. CredentialsFit
    BY DEF AccountInv
  <2>2. \A i : IsToken(i) => IsToken(i)'
    BY <1>3 DEF IsToken
  <2>3. \A c \in 1..n : c # n => c \in 1..Len(cred)
    BY <1>a, <1>0
  <2> QED
    BY SMTT(30), <1>2, <1>5, <2>1, <2>2, <2>3 DEF CredentialsFit
<1>14. OneLive'
  BY <1>0, <1>4, OneLiveKept
<1>15. AllHeld'
  <2>1. Held(r)'
    BY <1>0, <1>5 DEF Held
  <2>2. ASSUME NEW k \in 1..Len(token), k # r, Held(k) PROVE Held(k)'
    <3>1. CASE \E p \in Requests : confirm[p].step = "bound" /\ confirm[p].ref = k
      BY <1>a, <1>6, <2>2, <3>1 DEF Held
    <3>2. CASE \E c \in DOMAIN cred : cred[c].ref = k
      <4>1. PICK c \in 1..Len(cred) : cred[c].ref = k
        BY <1>0, <3>2
      <4>2. c \in DOMAIN cred' /\ cred'[c].ref = k
        BY <1>a, <1>0, <1>5, <4>1
      <4> QED
        BY <4>2 DEF Held
    <3>3. CASE \E u \in Attempts : session[u].ref = k
      BY <1>7, <3>3 DEF Held
    <3>4. CASE \E u \in Attempts : callback[u].step = "stored" /\ callback[u].ref = k
      BY <1>3, <3>4 DEF Held
    <3> QED
      BY <2>2, <3>1, <3>2, <3>3, <3>4 DEF Held
  <2> QED
    BY <1>0, <1>3, <1>4, <2>1, <2>2, AllHeldKept
<1>16. AccountsFit'
  <2>1. ASSUME NEW b \in Accounts PROVE account'[b].cred <= Len(cred') /\ Works(b)'
    <3>1. CASE b = a
      <4>1. cred'[n].ref = r /\ token'[r].status = "ACTIVE" /\ account'[b].cred = n
        BY <1>2, <1>3, <1>5, <1>8, <3>1
      <4> QED
        BY <1>0, <1>5, <4>1 DEF Works, Retiree
    <3>2. CASE b # a
      <4>1. account[b].cred \in 0..Len(cred) /\ (account[b].cred # 0 => account[b].cred \in 1..Len(cred))
        BY Holders
      <4>2. account'[b] = account[b]
        BY <1>8, <3>2
      <4>3. Works(b)'
        BY <1>3, <1>4, <1>5, <4>1, <4>2, WorksKept DEF StaysUsable
      <4> QED
        BY <1>a, <1>0, <1>5, <4>1, <4>2, <4>3
    <3> QED
      BY <3>1, <3>2
  <2>2. patch'.step = "read" =>
          /\ patch'.row.cred <= Len(cred')
          /\ patch'.row.conn = patch'.seen.conn /\ patch'.row.official = patch'.seen.official
    <3>1. patch.step = "read" => patch.row.cred \in Nat
      BY AccountsAssumption DEF AccountInv, RowTypes, Patches, Idle, AccountRow
    <3> QED
      BY <1>a, <1>0, <1>3, <1>5, <3>1 DEF AccountInv, AccountsFit
  <2> QED
    BY <2>1, <2>2 DEF AccountsFit
<1> QED
  BY <1>9, <1>10, <1>11, <1>12, <1>13, <1>14, <1>15, <1>16, PartsAgain DEF StoreFits

-----------------------------------------------------------------------------
(* Changes made by hand, disconnecting and refreshing *)

LEMMA TypedIn ==
  ASSUME NEW rows \in Seq(CredentialRow)
  PROVE  LET next == Append(rows, [ref |-> 0, life |-> "fresh"]) IN
         /\ next \in Seq(CredentialRow) /\ Len(next) = Len(rows) + 1 /\ DOMAIN next = 1..Len(next)
         /\ \A c \in 1..Len(rows) : next[c] = rows[c]
         /\ \A c \in 1..Len(next) : c \notin 1..Len(rows) => next[c].ref = 0
         /\ Len(next) \in Nat /\ Len(next) >= Len(rows)
         /\ Len(rows) < MaxCreds => Len(next) <= MaxCreds
<1> DEFINE x == [ref |-> 0, life |-> "fresh"]
           next == Append(rows, x)
<1>1. x \in CredentialRow /\ x.ref = 0
  BY AccountsAssumption DEF CredentialRow, Lives
<1> HIDE DEF x
<1>2. /\ next \in Seq(CredentialRow) /\ Len(next) = Len(rows) + 1
      /\ \A c \in 1..Len(rows) : next[c] = rows[c]
      /\ next[Len(rows) + 1] = x
  BY <1>1, Appending
<1> HIDE DEF next
<1>3. Len(rows) \in Nat /\ DOMAIN next = 1..Len(next)
  BY <1>2
<1>4. \A c \in 1..Len(next) : c \notin 1..Len(rows) => c = Len(rows) + 1
  BY <1>2, <1>3
<1>5. /\ Len(next) \in Nat /\ Len(next) >= Len(rows)
      /\ Len(rows) < MaxCreds => Len(next) <= MaxCreds
  BY <1>2, <1>3, AccountsAssumption
<1> QED
  BY <1>1, <1>2, <1>3, <1>4, <1>5 DEF next, x

\* A row of an account that no session confirmed, or a credential that names no token.
LEMMA MadeByHand ==
  ASSUME AccountInv,
         UNCHANGED <<attempt, callback, session, token, confirm, patch, sweep, serverKey, lost,
                     reused, severed>>,
         edits' \in 0..MaxEdits,
         \/ UNCHANGED cred
         \/ Len(cred) < MaxCreds /\ cred' = Append(cred, [ref |-> 0, life |-> "fresh"]),
         account' \in [Accounts -> AccountRow],
         \A b \in Accounts :
           \/ account'[b] = account[b]
           \/ account'[b].official = FALSE /\ account'[b].cred <= Len(cred')
  PROVE  AccountInv'
<1>0. /\ Len(token) \in Nat /\ Len(cred) \in Nat /\ DOMAIN cred = 1..Len(cred) /\ RowTypes
      /\ cred \in Seq(CredentialRow) /\ MaxCreds \in Nat /\ Len(cred) <= MaxCreds
      /\ account \in [Accounts -> AccountRow]
  BY StoreSize DEF AccountInv, RowTypes
<1>1. /\ UNCHANGED <<attempt, callback, session, token, confirm, patch, sweep, serverKey, lost,
                     reused, severed>>
      /\ edits' \in 0..MaxEdits
  OBVIOUS
<1>3. /\ cred' \in Seq(CredentialRow) /\ Len(cred') <= MaxCreds /\ Len(cred') \in Nat
      /\ Len(cred') >= Len(cred) /\ DOMAIN cred' = 1..Len(cred')
      /\ \A c \in 1..Len(cred) : cred'[c] = cred[c]
      /\ \A c \in 1..Len(cred') : c \notin 1..Len(cred) => cred'[c].ref = 0
  <2>1. CASE Len(cred) < MaxCreds /\ cred' = Append(cred, [ref |-> 0, life |-> "fresh"])
    BY <1>0, <2>1, TypedIn
  <2>2. CASE UNCHANGED cred
    BY <1>0, <2>2
  <2> QED
    BY <2>1, <2>2
<1>b. PICK m \in Nat : m = Len(cred') /\ 1..Len(cred) \subseteq 1..m /\ m >= Len(cred)
  <2>1. PICK m \in Nat : m = Len(cred') /\ m >= Len(cred)
    BY <1>3
  <2>2. 1..Len(cred) \subseteq 1..m
    BY <1>0, <2>1
  <2> QED
    BY <2>1, <2>2
<1>6. RowTypes'
  BY <1>0, <1>1, <1>3 DEF RowTypes
<1>7. /\ Kept /\ Len(token') = Len(token)
      /\ \A i \in 1..Len(token) : Retiree(i)' <=> Retiree(i)
  BY <1>1, SameTokens
<1>8. ASSUME NEW u \in Attempts PROVE AuthorizationFits(u)'
  BY <1>0, <1>1, <1>7, AuthorizationKept
<1>9. ASSUME NEW p \in Requests PROVE RequestSound(p)'
  <2>1. confirm[p].step = "bound" => \A c \in 1..Len(cred') : cred'[c].ref # confirm[p].ref
    <3>1. confirm[p].step = "bound" =>
            confirm[p].ref # 0 /\ \A c \in 1..Len(cred) : cred[c].ref # confirm[p].ref
      BY <1>0, Holders DEF IsToken
    <3>2. \A c \in 1..Len(cred') : cred'[c].ref = 0 \/ (c \in 1..Len(cred) /\ cred'[c].ref = cred[c].ref)
      BY <1>3
    <3> QED
      BY <3>1, <3>2
  <2>2. confirm[p].step = "bound" =>
          session'[confirm[p].of].chosen = 0 /\ token'[confirm[p].ref].status = "ACTIVE"
    BY <1>1, Holders
  <2> QED
    BY <1>1, <1>7, <2>1, <2>2, RequestKept
<1>10. BoundOnce'
  BY <1>1, BoundKept
<1>11. CredentialsFit'
  BY <1>3, <1>7, CredentialsKept
<1>12. OneLive'
  BY <1>0, <1>7, OneLiveKept
<1>13. AllHeld'
  <2>1. ASSUME NEW k, Held(k) PROVE Held(k)'
    <3>1. CASE \E c \in DOMAIN cred : cred[c].ref = k
      <4>1. PICK c \in 1..Len(cred) : cred[c].ref = k
        BY <1>0, <3>1
      <4>2. c \in DOMAIN cred' /\ cred'[c].ref = k
        BY <1>b, <1>3, <4>1
      <4> QED
        BY <4>2 DEF Held
    <3>2. CASE ~\E c \in DOMAIN cred : cred[c].ref = k
      BY <1>1, <2>1, <3>2 DEF Held
    <3> QED
      BY <3>1, <3>2
  <2> QED
    BY <1>0, <1>1, <1>7, <2>1, AllHeldKept
<1>14. AccountsFit'
  <2>1. ASSUME NEW b \in Accounts PROVE account'[b].cred <= Len(cred') /\ Works(b)'
    <3>1. CASE account'[b].official = FALSE /\ account'[b].cred <= Len(cred')
      BY <3>1 DEF Works
    <3>2. CASE account'[b] = account[b]
      <4>1. account[b].cred \in 0..Len(cred) /\ (account[b].cred # 0 => account[b].cred \in 1..Len(cred))
        BY Holders
      <4>2. Works(b)'
        BY <1>1, <1>3, <1>7, <3>2, <4>1, WorksKept DEF StaysUsable
      <4> QED
        BY <1>0, <1>b, <3>2, <4>1, <4>2
    <3> QED
      BY <3>1, <3>2
  <2>2. patch'.step = "read" =>
          /\ patch'.row.cred <= Len(cred')
          /\ patch'.row.conn = patch'.seen.conn /\ patch'.row.official = patch'.seen.official
    <3>1. patch.step = "read" => patch.row.cred \in Nat
      BY AccountsAssumption DEF AccountInv, RowTypes, Patches, Idle, AccountRow
    <3> QED
      BY <1>0, <1>1, <1>b, <3>1 DEF AccountInv, AccountsFit
  <2> QED
    BY <2>1, <2>2 DEF AccountsFit
<1> QED
  BY <1>6, <1>8, <1>9, <1>10, <1>11, <1>12, <1>13, <1>14, PartsAgain DEF StoreFits

LEMMA ByHandRow ==
  ASSUME AccountInv, NEW a \in Accounts, NEW c \in 0..MaxCreds, NEW mode \in Modes,
         NEW active \in BOOLEAN, account' = [account EXCEPT ![a] = ByHand(c, mode, active)]
  PROVE  /\ account' \in [Accounts -> AccountRow]
         /\ account'[a].official = FALSE /\ account'[a].cred = c
         /\ \A b \in Accounts \ {a} : account'[b] = account[b]
<1> DEFINE row == ByHand(c, mode, active)
<1>1. row \in AccountRow /\ row.official = FALSE /\ row.cred = c
  BY DEF ByHand, AccountRow, Connections
<1>2. account \in [Accounts -> AccountRow] /\ account' = [account EXCEPT ![a] = row]
  BY DEF AccountInv, RowTypes
<1> HIDE DEF row
<1> QED
  BY <1>1, <1>2

LEMMA CreatedByHand ==
  ASSUME AccountInv, PostCredential \/ \E a \in Accounts : CreateAccount(a) \/ PostAccount(a)
  PROVE  AccountInv'
<1>1. /\ UNCHANGED <<attempt, callback, session, token, confirm, patch, sweep, serverKey, lost,
                     reused, severed>>
      /\ edits' \in 0..MaxEdits
  <2>1. edits \in 0..MaxEdits
    BY DEF AccountInv, RowTypes
  <2> QED
    BY <2>1, AccountsAssumption DEF PostCredential, CreateAccount, PostAccount, byHand
<1>2. /\ Len(cred) \in Nat /\ MaxCreds \in Nat /\ Len(cred) <= MaxCreds
      /\ cred \in Seq(CredentialRow) /\ account \in [Accounts -> AccountRow]
  BY StoreSize DEF AccountInv, RowTypes
<1>3. CASE PostCredential
  BY <1>1, <1>2, <1>3, MadeByHand DEF PostCredential
<1>4. ASSUME NEW a \in Accounts, PostAccount(a) PROVE AccountInv'
  <2>1. PICK c \in 0..Len(cred), mode \in Modes, active \in BOOLEAN :
          account' = [account EXCEPT ![a] = ByHand(c, mode, active)]
    BY <1>4 DEF PostAccount
  <2>2. UNCHANGED cred /\ c \in 0..MaxCreds /\ c <= Len(cred')
    BY <1>2, <1>4, <2>1 DEF PostAccount
  <2> QED
    BY <1>1, <2>1, <2>2, ByHandRow, MadeByHand
<1>5. ASSUME NEW a \in Accounts, CreateAccount(a) PROVE AccountInv'
  <2>1. PICK mode \in {"API_AUTO", "MANUAL"}, active \in BOOLEAN :
          /\ mode = "API_AUTO" => Len(cred) < MaxCreds
          /\ cred' = IF mode = "API_AUTO"
                     THEN Append(cred, [ref |-> 0, life |-> "fresh"]) ELSE cred
          /\ account' = [account EXCEPT
                ![a] = ByHand(IF mode = "API_AUTO" THEN Len(cred') ELSE 0, mode, active)]
    BY <1>5 DEF CreateAccount
  <2>2. mode = "API_AUTO" => Len(cred') = Len(cred) + 1
    BY <1>2, <2>1, TypedIn
  <2>3. PICK c \in 0..MaxCreds : /\ c = IF mode = "API_AUTO" THEN Len(cred') ELSE 0
                                 /\ c <= Len(cred')
    <3>1. CASE mode = "API_AUTO"
      BY <1>2, <2>1, <2>2, <3>1
    <3>2. CASE mode # "API_AUTO"
      BY <1>2, <2>1, <3>2
    <3> QED
      BY <3>1, <3>2
  <2>4. PICK m \in Modes : account' = [account EXCEPT ![a] = ByHand(c, m, active)]
    BY <2>1, <2>3 DEF Modes
  <2>5. UNCHANGED cred \/ (Len(cred) < MaxCreds /\ cred' = Append(cred, [ref |-> 0, life |-> "fresh"]))
    BY <2>1
  <2>6. /\ account' \in [Accounts -> AccountRow]
        /\ \A b \in Accounts :
             \/ account'[b] = account[b]
             \/ account'[b].official = FALSE /\ account'[b].cred <= Len(cred')
    <3>1. /\ account' \in [Accounts -> AccountRow]
          /\ account'[a].official = FALSE /\ account'[a].cred = c
          /\ \A b \in Accounts \ {a} : account'[b] = account[b]
      BY <2>4, ByHandRow
    <3> QED
      BY <2>3, <3>1
  <2> QED
    BY <1>1, <2>5, <2>6, MadeByHand
<1> QED
  BY <1>3, <1>4, <1>5

LEMMA CredentialPatched ==
  ASSUME AccountInv, NEW d \in DOMAIN cred, PatchCredential(d)
  PROVE  AccountInv'
<1>0. /\ Len(token) \in Nat /\ Len(cred) \in Nat /\ DOMAIN cred = 1..Len(cred) /\ RowTypes
      /\ cred \in Seq(CredentialRow) /\ cred[d] \in CredentialRow /\ d \in 1..Len(cred)
      /\ MaxCreds \in Nat /\ Len(cred) <= MaxCreds
  BY StoreSize DEF AccountInv, RowTypes
<1>1. /\ UNCHANGED <<attempt, callback, session, token, account, confirm, patch, sweep, serverKey, reused, severed>>
      /\ edits' \in 0..MaxEdits
  <2>1. edits \in 0..MaxEdits
    BY <1>0 DEF RowTypes
  <2> QED
    BY <2>1, AccountsAssumption DEF PatchCredential, byHand
<1>2. PICK next \in CredentialRow :
        /\ next.ref \in {0, cred[d].ref} /\ cred' = [cred EXCEPT ![d] = next]
        /\ lost' = lost \cup ({cred[d].ref} \ {next.ref})
  <2>1. PICK next \in {[cred[d] EXCEPT !.ref = 0], [cred[d] EXCEPT !.life = "fresh"]} :
          /\ cred' = [cred EXCEPT ![d] = next]
          /\ lost' = lost \cup ({cred[d].ref} \ {next.ref})
    BY DEF PatchCredential
  <2>2. next \in CredentialRow /\ next.ref \in {0, cred[d].ref}
    BY <1>0, <2>1, AccountsAssumption DEF CredentialRow, Lives
  <2> QED
    BY <2>1, <2>2
<1>3. /\ cred' \in Seq(CredentialRow) /\ Len(cred') = Len(cred) /\ DOMAIN cred' = 1..Len(cred)
      /\ \A c \in 1..Len(cred) : cred'[c] = IF c = d THEN next ELSE cred[c]
  <2>1. /\ cred' \in Seq(CredentialRow) /\ Len(cred') = Len(cred)
        /\ \A c \in 1..Len(cred) : cred'[c] = IF c = d THEN next ELSE cred[c]
    BY <1>0, <1>2, ExceptSeq
  <2> QED
    BY <2>1
<1>4. /\ Kept /\ Len(token') = Len(token)
      /\ \A i \in 1..Len(token) : Retiree(i)' <=> Retiree(i)
  BY <1>1, SameTokens
<1>5. RowTypes'
  BY <1>0, <1>1, <1>3 DEF RowTypes
<1>6. ASSUME NEW u \in Attempts PROVE AuthorizationFits(u)'
  BY <1>0, <1>1, <1>4, AuthorizationKept
<1>7. ASSUME NEW p \in Requests PROVE RequestSound(p)'
  <2>1. confirm[p].step = "bound" => \A c \in 1..Len(cred') : cred'[c].ref # confirm[p].ref
    BY <1>0, <1>2, <1>3, Holders DEF IsToken
  <2>2. confirm[p].step = "bound" =>
          session'[confirm[p].of].chosen = 0 /\ token'[confirm[p].ref].status = "ACTIVE"
    BY <1>1, Holders
  <2> QED
    BY <1>1, <1>4, <2>1, <2>2, RequestKept
<1>8. BoundOnce'
  BY <1>1, BoundKept
<1>9. CredentialsFit'
  BY <1>0, <1>2, <1>3, <1>4, CredentialsKept
<1>10. OneLive'
  BY <1>0, <1>4, OneLiveKept
<1>11. AllHeld'
  <2>1. ASSUME NEW k, Held(k) PROVE Held(k)' \/ k \in lost'
    <3>1. CASE \E c \in DOMAIN cred : cred[c].ref = k
      <4>1. PICK c \in 1..Len(cred) : cred[c].ref = k
        BY <1>0, <3>1
      <4>2. CASE c = d /\ next.ref # k
        BY <1>2, <4>1, <4>2
      <4>3. CASE c # d \/ next.ref = k
        <5>1. c \in DOMAIN cred' /\ cred'[c].ref = k
          BY <1>0, <1>3, <4>1, <4>3
        <5> QED
          BY <5>1 DEF Held
      <4> QED
        BY <4>2, <4>3
    <3>2. CASE ~\E c \in DOMAIN cred : cred[c].ref = k
      BY <1>1, <2>1, <3>2 DEF Held
    <3> QED
      BY <3>1, <3>2
  <2> QED
    BY <1>0, <1>2, <1>4, <2>1, AllHeldKept
<1>12. AccountsFit'
  <2>1. \A c \in 1..Len(cred) : cred'[c].ref \in {0, cred[c].ref}
    BY <1>2, <1>3
  <2>2. \A a \in Accounts : LET c == account[a].cred IN
          c # 0 => cred[c].ref = 0 \/ StaysUsable(cred[c].ref, token')
    BY <1>1 DEF StaysUsable
  <2> QED
    BY <1>0, <1>1, <1>3, <1>4, <2>1, <2>2, AccountsKept
<1> QED
  BY <1>5, <1>6, <1>7, <1>8, <1>9, <1>10, <1>11, <1>12, PartsAgain DEF StoreFits

LEMMA Disconnected ==
  ASSUME AccountInv, NEW a \in Accounts, Disconnect(a)
  PROVE  AccountInv'
<1>a. PICK r : r = Reference(a)
  OBVIOUS
<1>0. /\ Len(token) \in Nat /\ Len(cred) \in Nat /\ DOMAIN cred = 1..Len(cred) /\ RowTypes
      /\ account \in [Accounts -> AccountRow]
  BY StoreSize DEF AccountInv, RowTypes
<1>1. /\ UNCHANGED <<attempt, callback, session, confirm, patch, serverKey, lost, reused, edits, cred,
                    sweep>>
      /\ severed' = severed \cup {<<a, account[a].cred>>}
      /\ token' = IF r # 0 THEN Retired(token, r, "DISCONNECTED") ELSE token
      /\ account' = [account EXCEPT ![a].active = FALSE, ![a].conn = "DISCONNECTED"]
  BY <1>a DEF Disconnect, held
<1>2. r # 0 => /\ IsToken(r) /\ r \in 1..Len(token)
               /\ account[a].cred \in 1..Len(cred) /\ cred[account[a].cred].ref = r
  BY <1>a, Holders DEF Reference, IsToken
<1>3. /\ Kept /\ Len(token') = Len(token)
      /\ \A i \in 1..Len(token) : Retiree(i)' <=> Retiree(i) \/ (r # 0 /\ i = r)
  BY <1>1, <1>2, KeptByRetiring, SameTokens
<1>4. /\ account' \in [Accounts -> AccountRow]
      /\ \A b \in Accounts : /\ account'[b].cred = account[b].cred
                             /\ account'[b].official = account[b].official
                             /\ account'[b].conn = IF b = a THEN "DISCONNECTED" ELSE account[b].conn
  <2>1. account[a] \in AccountRow
    BY <1>0
  <2> DEFINE row == [[account[a] EXCEPT !.active = FALSE] EXCEPT !.conn = "DISCONNECTED"]
  <2>2. /\ row \in AccountRow /\ row.cred = account[a].cred /\ row.official = account[a].official
        /\ row.conn = "DISCONNECTED"
    BY <2>1 DEF AccountRow, Connections
  <2>3. account' = [account EXCEPT ![a] = row]
    BY <1>1
  <2> HIDE DEF row
  <2> QED
    BY <1>0, <2>2, <2>3
<1>5. RowTypes'
  BY <1>0, <1>1, <1>3, <1>4 DEF RowTypes, Kept
<1>6. ASSUME NEW u \in Attempts PROVE AuthorizationFits(u)'
  BY <1>0, <1>1, <1>3, AuthorizationKept
<1>7. ASSUME NEW p \in Requests PROVE RequestSound(p)'
  <2>1. confirm[p].step = "bound" => token'[confirm[p].ref].status = "ACTIVE"
    BY <1>2, <1>3, Holders DEF IsToken, Retiree
  <2> QED
    BY <1>1, <1>3, <2>1, Holders, RequestKept
<1>8. BoundOnce'
  BY <1>1, BoundKept
<1>9. CredentialsFit'
  BY <1>0, <1>1, <1>3, CredentialsKept
<1>10. OneLive'
  BY <1>0, <1>3, OneLiveKept
<1>11. AllHeld'
  <2>1. ASSUME NEW k, Held(k) PROVE Held(k)'
    BY <1>1, <2>1 DEF Held
  <2> QED
    BY <1>0, <1>1, <1>3, <2>1, AllHeldKept
<1>12. AccountsFit'
  <2>1. ASSUME NEW b \in Accounts, account[b].cred # 0, Own(b)',
               account'[b].conn = "CONNECTED"
        PROVE  cred[account[b].cred].ref = 0 \/ StaysUsable(cred[account[b].cred].ref, token')
    <3>1. b # a
      BY <1>4, <2>1
    <3>2. account[b].cred \in 1..Len(cred)
          /\ (cred[account[b].cred].ref # 0 => IsToken(cred[account[b].cred].ref))
      BY <2>1, Holders
    <3>3. account[b].cred # account[a].cred
      BY <1>1, <1>4, <2>1, <3>1 DEF Own, SeveredElsewhere
    <3>4. r # 0 => cred[account[b].cred].ref # r
      BY <1>2, <3>2, <3>3 DEF AccountInv, CredentialsFit
    <3> QED
      BY <1>3, <3>2, <3>4 DEF StaysUsable, IsToken, Retiree
  <2> QED
    BY <1>0, <1>1, <1>3, <1>4, <2>1, AccountsKept
<1> QED
  BY <1>5, <1>6, <1>7, <1>8, <1>9, <1>10, <1>11, <1>12, PartsAgain DEF StoreFits

LEMMA TokenRefreshed ==
  ASSUME AccountInv, NEW a \in Accounts, SweepRefreshes(a)
  PROVE  AccountInv'
<1>a. PICK c, r, n : c = account[a].cred /\ r = cred[c].ref /\ n = Len(token) + 1
  OBVIOUS
<1>0. /\ Len(token) \in Nat /\ Len(cred) \in Nat /\ DOMAIN cred = 1..Len(cred) /\ RowTypes
      /\ DOMAIN token = 1..Len(token) /\ cred \in Seq(CredentialRow)
      /\ n \in 1..MaxRefs /\ n \notin 1..Len(token) /\ n # 0
      /\ account \in [Accounts -> AccountRow] /\ sweep \in Sweeps
      /\ MaxCreds \in Nat /\ Len(cred) <= MaxCreds
  BY <1>a, StoreSize DEF AccountInv, RowTypes, SweepRefreshes
<1>1. /\ c \in 1..Len(cred) /\ r \in 1..Len(token) /\ r # 0 /\ IsToken(r)
      /\ token[r].status = "ACTIVE" /\ token[r] \in TokenRow
  <2>1. c # 0 /\ Resolves(r)
    BY <1>a DEF SweepRefreshes
  <2>2. r \in 1..Len(token) /\ r # 0 /\ token[r].status = "ACTIVE"
    BY <1>0, <2>1 DEF Resolves
  <2> QED
    BY <1>a, <1>0, <2>1, <2>2, Holders, StoreSize
<1>2. PICK t \in Attempts : t = token[r].from
  BY <1>1 DEF TokenRow
<1>3. PICK x \in TokenRow : /\ x = NewToken("token", t, "fresh")
                            /\ x.kind = "token" /\ x.from = t /\ x.status = "ACTIVE"
  BY <1>0, NewRow DEF Lives
<1>4. /\ token' = Append(Retired(token, r, "ROTATED"), x)
      /\ cred' = [cred EXCEPT ![c] = [ref |-> Len(token'), life |-> "fresh"]]
      /\ account' = [account EXCEPT ![a].conn = "CONNECTED"]
      /\ UNCHANGED <<attempt, callback, session, confirm, patch, serverKey, lost, reused, severed, edits>>
  BY <1>a, <1>2, <1>3 DEF SweepRefreshes, quiet, held
<1>5. /\ Kept /\ Len(token') = n /\ token'[n] = x
      /\ \A i \in 1..Len(token) : Retiree(i)' <=> Retiree(i) \/ i = r
  BY <1>a, <1>1, <1>4, KeptByReplacing
<1>6. /\ cred' \in Seq(CredentialRow) /\ Len(cred') = Len(cred) /\ DOMAIN cred' = 1..Len(cred)
      /\ cred'[c].ref = n
      /\ \A d \in 1..Len(cred) : d # c => cred'[d] = cred[d]
  <2> DEFINE y == [ref |-> n, life |-> "fresh"]
  <2>1. y \in CredentialRow /\ y.ref = n
    BY <1>0, StoreSize DEF CredentialRow, Lives
  <2>2. cred' = [cred EXCEPT ![c] = y]
    BY <1>4, <1>5
  <2> HIDE DEF y
  <2>3. /\ cred' \in Seq(CredentialRow) /\ Len(cred') = Len(cred)
        /\ \A d \in 1..Len(cred) : cred'[d] = IF d = c THEN y ELSE cred[d]
    BY <1>0, <1>1, <2>1, <2>2, ExceptSeq
  <2>4. DOMAIN cred' = 1..Len(cred')
    BY <2>3
  <2> QED
    BY <1>1, <2>1, <2>3, <2>4
<1>7. /\ account' \in [Accounts -> AccountRow]
      /\ \A b \in Accounts : /\ account'[b].cred = account[b].cred
                             /\ account'[b].official = account[b].official
                             /\ account'[b].conn = IF b = a THEN "CONNECTED" ELSE account[b].conn
  <2>1. account[a] \in AccountRow
    BY <1>0
  <2> DEFINE row == [account[a] EXCEPT !.conn = "CONNECTED"]
  <2>2. /\ row \in AccountRow /\ row.cred = account[a].cred /\ row.official = account[a].official
        /\ row.conn = "CONNECTED"
    BY <2>1 DEF AccountRow, Connections
  <2>3. account' = [account EXCEPT ![a] = row]
    BY <1>4
  <2> HIDE DEF row
  <2> QED
    BY <1>0, <2>2, <2>3
<1>8. sweep' \in Sweeps
  <2>1. sweep.left \in SUBSET Accounts
    BY <1>0 DEF SweepRefreshes, SweepTakes, Sweeps, Idle
  <2> QED
    BY <2>1 DEF SweepRefreshes, Continue, Sweeps
<1>9. RowTypes'
  BY <1>0, <1>4, <1>5, <1>6, <1>7, <1>8 DEF RowTypes, Kept
<1>10. ASSUME NEW u \in Attempts PROVE AuthorizationFits(u)'
  <2>1. \A i \in 1..Len(token') : i > Len(token) => token'[i].from # u \/ ~NoTokenOf(u)
    <3>1. \A i \in 1..Len(token') : i > Len(token) => i = n
      BY <1>a, <1>0, <1>5
    <3>2. u = t => ~NoTokenOf(u)
      BY <1>1, <1>2 DEF NoTokenOf
    <3> QED
      BY <1>3, <1>5, <3>1, <3>2
  <2> QED
    BY <1>4, <1>5, <2>1, AuthorizationKept
<1>11. ASSUME NEW p \in Requests PROVE RequestSound(p)'
  <2>1. confirm[p].step = "bound" =>
          /\ confirm[p].ref \in 1..Len(token) /\ confirm[p].ref # r
          /\ token[confirm[p].ref].status = "ACTIVE"
          /\ \A d \in 1..Len(cred) : cred[d].ref # confirm[p].ref
    BY <1>a, <1>1, Holders DEF IsToken
  <2>2. confirm[p].step = "bound" => token'[confirm[p].ref].status = "ACTIVE"
    BY <1>5, <2>1 DEF Retiree
  <2>3. confirm[p].step = "bound" => \A d \in 1..Len(cred') : cred'[d].ref # confirm[p].ref
    BY <1>0, <1>6, <2>1
  <2>4. confirm[p].step = "bound" => session'[confirm[p].of].chosen = 0
    BY <1>4, Holders
  <2> QED
    BY <1>4, <1>5, <2>2, <2>3, <2>4, RequestKept
<1>12. BoundOnce'
  BY <1>4, BoundKept
<1>13. CredentialsFit'
  <2>1. \A i : IsToken(i) => IsToken(i)' /\ i # n
    BY <1>a, <1>0, <1>5 DEF IsToken, Kept
  <2>2. IsToken(n)'
    BY <1>0, <1>3, <1>5 DEF IsToken, Kept
  <2>3. CredentialsFit
    BY DEF AccountInv
  <2> QED
    BY <1>0, <1>1, <1>6, <2>1, <2>2, <2>3 DEF CredentialsFit
<1>14. OneLive'
  <2>1. \A k \in 1..Len(token) : token[k].from = t => Retiree(k)'
    <3>1. ASSUME NEW k \in 1..Len(token), token[k].from = t, ~Retiree(k)'
          PROVE  FALSE
      <4>1. k \in Live /\ r \in Live /\ k # r
        BY <1>0, <1>1, <1>5, <3>1 DEF Live, Retiree
      <4> QED
        BY <1>2, <3>1, <4>1, Accounted DEF AccountInv, OneLive
    <3> QED
      BY <3>1
  <2>2. \A i \in 1..Len(token') : i > Len(token) => i = n /\ token'[i].from = t
    BY <1>a, <1>0, <1>3, <1>5
  <2> QED
    BY <1>a, <1>5, <2>1, <2>2, OneLiveKept
<1>15. AllHeld'
  <2>1. \A i \in 1..Len(token') : i > Len(token) => Held(i)'
    <3>1. \A i \in 1..Len(token') : i > Len(token) => i = n
      BY <1>a, <1>0, <1>5
    <3>2. Held(n)'
      BY <1>1, <1>6 DEF Held
    <3> QED
      BY <3>1, <3>2
  <2>2. ASSUME NEW k \in 1..Len(token), k # r, Held(k) PROVE Held(k)'
    <3>1. CASE \E d \in DOMAIN cred : cred[d].ref = k
      <4>1. PICK d \in 1..Len(cred) : cred[d].ref = k
        BY <1>0, <3>1
      <4>2. d \in DOMAIN cred' /\ cred'[d].ref = k
        BY <1>a, <1>6, <2>2, <4>1
      <4> QED
        BY <4>2 DEF Held
    <3>2. CASE ~\E d \in DOMAIN cred : cred[d].ref = k
      BY <1>4, <2>2, <3>2 DEF Held
    <3> QED
      BY <3>1, <3>2
  <2> QED
    BY <1>4, <1>5, <2>1, <2>2, AllHeldKept
<1>16. AccountsFit'
  <2>1. ASSUME NEW b \in Accounts PROVE account'[b].cred <= Len(cred') /\ Works(b)'
    <3>0. account[b].cred \in 0..Len(cred) /\ (account[b].cred # 0 => account[b].cred \in 1..Len(cred))
      BY Holders
    <3>1. CASE account[b].cred = c
      <4>1. token'[n].status = "ACTIVE" /\ account'[b].cred = c /\ cred'[c].ref = n
        BY <1>3, <1>5, <1>6, <1>7, <3>1
      <4> QED
        BY <1>0, <1>1, <1>6, <4>1 DEF Works, Retiree
    <3>2. CASE account[b].cred # c
      <4>1. b # a
        BY <1>a, <3>2
      <4>2. ASSUME account[b].cred # 0
            PROVE  cred'[account[b].cred].ref = 0
                   \/ (/\ cred'[account[b].cred].ref = cred[account[b].cred].ref
                       /\ StaysUsable(cred[account[b].cred].ref, token'))
        <5>1. cred'[account[b].cred] = cred[account[b].cred] /\ account[b].cred \in 1..Len(cred)
          BY <1>6, <3>0, <3>2, <4>2
        <5>2. cred[account[b].cred].ref # 0 =>
                IsToken(cred[account[b].cred].ref) /\ cred[account[b].cred].ref # r
          BY <1>a, <1>1, <3>2, <5>1, Holders DEF AccountInv, CredentialsFit
        <5> QED
          BY <1>5, <5>1, <5>2 DEF IsToken, StaysUsable, Retiree
      <4>3. Works(b)'
        BY <1>4, <1>5, <1>7, <4>1, <4>2, WorksKept
      <4> QED
        BY <1>0, <1>6, <1>7, <3>0, <4>3
    <3> QED
      BY <3>1, <3>2
  <2>2. patch'.step = "read" =>
          /\ patch'.row.cred <= Len(cred')
          /\ patch'.row.conn = patch'.seen.conn /\ patch'.row.official = patch'.seen.official
    BY <1>4, <1>6 DEF AccountInv, AccountsFit
  <2> QED
    BY <2>1, <2>2 DEF AccountsFit
<1> QED
  BY <1>9, <1>10, <1>11, <1>12, <1>13, <1>14, <1>15, <1>16, PartsAgain DEF StoreFits

LEMMA AccountSteps == AccountInv /\ [AccountsNext]_accountVars => AccountInv'
<1> SUFFICES ASSUME AccountInv, [AccountsNext]_accountVars PROVE AccountInv'
  OBVIOUS
<1>1. CASE AuthorizationStep
  BY <1>1, AuthorizationSmallSteps, BundleStored, SessionRejected DEF AuthorizationStep
<1>2. CASE ConfirmStep
  <2>1. PICK q \in Requests :
          Bind(q) \/ BindRefused(q) \/ ConfirmSession(q) \/ ConfirmRejected(q) \/ ConfirmDies(q)
          \/ \E t \in Attempts, a \in Accounts : ReadSession(q, t, a)
    BY <1>2 DEF ConfirmStep
  <2>2. ConfirmRejected(q) => confirm[q].step \in {"bound", "seen"}
    BY DEF ConfirmRejected
  <2> QED
    BY <2>1, <2>2, RequestSmallSteps, TokenBound, BoundRejected, SessionConfirmed
<1>3. CASE HandStep
  BY <1>3, CreatedByHand, ReadPatch, SavePatch, CredentialPatched DEF HandStep
<1>4. CASE LifecycleStep
  BY <1>4, ConnSteps, Disconnected, SweepSteps, TokenRefreshed, TokenSteps DEF LifecycleStep
<1>5. CASE UNCHANGED accountVars
  BY <1>5, SweepSteps
<1> QED
  BY <1>1, <1>2, <1>3, <1>4, <1>5 DEF AccountsNext

(* The inductive invariant of the accounts and the token store. *)
THEOREM AccountsSafe == AccountsSpec => []AccountInv
<1> QED
  BY AccountsBegin, AccountSteps, PTL DEF AccountsSpec

(* The types of the accounts, and that what they name exists: a session's row *)
(* of the store, an account's credential.                                     *)
THEOREM AccountTypes == AccountsSpec => []AccountsTypeOK
<1>1. AccountInv => AccountsTypeOK
  <2> SUFFICES ASSUME AccountInv PROVE AccountsTypeOK
    OBVIOUS
  <2>1. \A t \in Attempts : session[t] # NoSession => session[t].ref <= Len(token)
    <3>1. \A t \in Attempts : session[t] # NoSession => session[t].ref # 0
      BY AccountsAssumption DEF AccountInv, RowTypes, SessionRow
    <3>2. Len(token) \in Nat
      BY StoreSize DEF AccountInv
    <3> QED
      BY <3>1, <3>2, Holders DEF IsBundle
  <2> QED
    BY <2>1 DEF AccountInv, RowTypes, AccountsFit, AccountsTypeOK
<1> QED
  BY <1>1, AccountsSafe, PTL

(* Callbacks, confirmations, refreshes, key rotation and crashes in any order *)
(* leave one usable token per authorization, and somebody who knows of it     *)
(* (encrypted_token_store.py, with its callers connection_sessions.py,        *)
(* lifecycle.py and rotate_social_oauth_keys.py).                             *)
THEOREM TokensAlwaysAccounted == AccountsSpec => []TokensAreAccounted
<1>1. AccountInv => TokensAreAccounted
  BY DEF AccountInv
<1> QED
  BY <1>1, AccountsSafe, PTL

(* An account the list shows as CONNECTED has a token that resolves, the     *)
(* exceptions ShownConnectedWorks names apart (connection_status.py).        *)
THEOREM ConnectedAlwaysWorks == AccountsSpec => []ShownConnectedWorks
<1>1. AccountInv => ShownConnectedWorks
  <2> SUFFICES ASSUME AccountInv, NEW a \in Accounts,
                      Shown(a) = "CONNECTED", ~Resolves(Reference(a)), Reference(a) # 0,
                      token[Reference(a)].key = serverKey,
                      token[Reference(a)].life = cred[account[a].cred].life,
                      account[a].conn \notin {"CONFIGURATION_REQUIRED", "DISCONNECTED"},
                      Own(a)
               PROVE  FALSE
    BY DEF ShownConnectedWorks, Own
  <2>1. account[a].conn \in Connections
    BY DEF AccountInv, RowTypes, AccountRow
  <2>2. /\ account[a].conn = "CONNECTED" /\ account[a].official /\ account[a].cred # 0
        /\ cred[account[a].cred].life # "expired"
    BY <2>1 DEF Shown, Connections
  <2>3. ~Retiree(Reference(a)) /\ Reference(a) = cred[account[a].cred].ref
    BY <2>2 DEF AccountInv, AccountsFit, Works, Reference
  <2>4. Reference(a) \in 1..Len(token)
    BY <2>2, <2>3, Holders DEF IsToken
  <2> QED
    BY <2>2, <2>3, <2>4 DEF Resolves, Retiree
<1> QED
  BY <1>1, AccountsSafe, PTL

-----------------------------------------------------------------------------
(* Accounts and connectors together *)

(* Every row of the accounts and every call of a connector has its type, and *)
(* what a row names exists: a session's row of the token store, an account's *)
(* credential (apps/platforms/models.py, encrypted_token_store.py).          *)
THEOREM ChannelsAlwaysTyped == ChannelsSpec => []ChannelsTypeOK
<1>1. ChannelsInit => AccountsInit /\ ConnectorsInit
  BY DEF ChannelsInit
<1>2. [ChannelsNext]_channelRows => [AccountsNext]_accountVars /\ [ConnectorsNext]_connectorVars
  BY DEF ChannelsNext, channelRows
<1>3. ChannelsSpec => AccountsSpec /\ ConnectorsSpec
  BY <1>1, <1>2, PTL DEF ChannelsSpec, AccountsSpec, ConnectorsSpec
<1>4. AccountsTypeOK /\ ConnectorsTypeOK => ChannelsTypeOK
  BY DEF ChannelsTypeOK
<1> QED
  BY <1>3, <1>4, AccountTypes, ConnectorTypes, PTL
===============================================================================
