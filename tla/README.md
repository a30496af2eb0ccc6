# A formal model of the SinofGear growth engine

The repository is a Django/Celery back end (`src/backend`) with a Vue front end
(`src/frontend`). It keeps an organization's products, knowledge and assets, has
an AI provider write marketing content about them, takes the content through
review, publishes it on social platforms and follows what comes back, and runs
agents that look for customers and write to them. These modules describe it in
TLA+, check it with TLC on small instances and prove the main safety properties
with TLAPS for every instance.

Every definition is a translation of code under `src/`; `PROJECT.json` maps each
one to its lines. Paths below are relative to `src/backend` unless they start
with `docs/`.

## 1. Inventory

Processes: web workers (one transaction per service call, no request-wide
transaction), Celery workers (messages acknowledged on receipt, Redis broker),
and Celery beat (`config/settings.py:201-234`: due publish tasks, publish reaper
and job reaper every 60 s; item reconciliation, discovery, maps and post metrics
hourly; proactive agents daily). They share one PostgreSQL database and nothing
else. Row locks (`select_for_update`) are the only synchronization, and no lock
is held across a commit.

| Component | State it keeps | Operations | Talks to | What makes it correct |
|---|---|---|---|---|
| Publish-task engine `apps/publishing` | task, attempt and post rows; lease and claim token | create, queue due, run now, claim, complete, cancel, retry, reap | connectors, content, accounts, broker | one executor per task; a post row only for a post that exists; nothing stuck |
| Publish batches `apps/growth/publishing.py` | batch and item rows | create, execute item, retry failed, refresh, sync, reconcile | publish tasks, connectors | a batch never claims more than its items; a success is final and backed |
| Job queue `apps/jobs` | job and attempt rows; lease and claim token | create, claim, progress, heartbeat, succeed, fail, retry, cancel, reap | its clients | the token fences; outcome and history fit the status |
| Content generation `apps/ai/orchestration.py`, `apps/content` | AIRun, stored output, recommendation | request, execute, record success, failure or cancel | job queue, budgets, AI provider | output stored once and only for the winner; runs tell the truth |
| AI budgets `apps/ai/services.py` | daily token row, daily cost row | reserve, settle, reset on a new day | generation, planner, assistants | what is used and reserved stays within the budget |
| Knowledge `apps/knowledge` | concepts, aliases, relations, evidence | suggest, review, seed, expand | everything that reads it | no IS_A cycle in any overlay; a snapshot is the approved neighbourhood |
| Catalog `apps/catalog` | products, concept links, versions | create, patch under If-Match | knowledge | a version names one state |
| Assets `apps/assets` | asset rows, stored objects, facts | upload, archive, link, understand, review facts | object storage, job queue, AI provider | a file has one asset, with its original; facts of one reading |
| Campaigns and briefs `apps/campaigns` | campaigns, briefs, links | edit, ready, archive, restore, revise, build input | catalog, knowledge, assets | a READY brief is frozen |
| Content lifecycle `apps/content` | master and platform contents, packages | generate, revise, review, adapt, archive, restore, package | briefs, jobs | past versions stay past; packages were reviewed |
| Tracking `apps/tracking` | tracking links, short links, clicks | create, visit, summarize | publishing, content, catalog | a recorded click is counted |
| Social accounts `apps/platforms`, token store | attempts, sessions, accounts, credentials, tokens | authorize, choose, confirm, edit, probe, refresh, disconnect, rotate keys | platforms' OAuth | no token lost or doubled; an account shown CONNECTED works |
| Connectors `integrations/platforms` | none of their own | authorize, publish | the platforms | what they answer is true of the platform |
| Outreach `apps/growth` services, enrichment, reactivation | candidates, follow-ups, drafts, messages, reviews | review, enrich, draft, approve, send, reactivate, hand off | email provider | mails are approved and spaced |
| Agent runtime `apps/growth/agent` | runs, steps, approvals | start, continue, approve, reject, nightly pass | every tool | an approved action runs once, an ended run rests |
| Missions `apps/growth/mission_*` | missions, plans, links | draft, plan, approve, transition, start agents, link, credit | AI budgets, agents | one approved plan before a customer is reached |
| Inbound `inbound_rfq.py`, `lead_intent.py` | inquiries, contacts, lead, signals | receive, triage, visit | the website | an inquiry is recorded once |
| Discovery, maps, trade, promotion | profile, runs, signals, figures, approval | run, recover, sync, approve | external sources | every notice counted once; the reading is the last heard |
| Identity, audit, sources, storage, AI clients, front end | tables and clients | - | - | no interleaving of their own |

What is hard here: answers that arrive after their worker lost its claim; leases
that nobody renews; commits followed by a message that may be lost; validators
that later commits invalidate; a transaction held over a call to a platform or
to the mail provider; a row read without its lock and saved whole; rows that
have no unique index; counters that belong to a day that has passed.
`PROJECT.json` lists each such place with its line under `hazards`, with the
properties that cover it. One has none: the daily publish limit
(`apps/publishing/services.py:441`), which would need several contents and
accounts in one instance for a property the code plainly does not have.

## 2. Modules

| Module | Models | Built on |
|---|---|---|
| `Publishing` | the publish-task engine | |
| `FencedPublication` | what that engine promises, without its history | |
| `PublishBatch` | batches over the promise, not over the engine | `FencedPublication` |
| `JobQueue` | `JobService` under arbitrary callers | |
| `ContentGeneration` | requests, messages and workers of generation jobs | `JobQueue` |
| `Understanding` | asset understanding, a second client of the queue | `JobQueue` |
| `AIBudget` | the two daily budgets under their callers | |
| `Accounts` | social accounts, OAuth sessions, the token store | |
| `Connectors` | one publish request, HTTP call by HTTP call | |
| `Knowledge`, `Catalog`, `Assets`, `Briefs` | concepts and relations; products; uploads; campaigns and briefs | each on the one before |
| `ContentLifecycle`, `Tracking` | contents and packages; links and clicks | `Briefs` |
| `Outreach`, `AgentRuns`, `Missions` | companies and mail; agents; missions | each on the one before |
| `Inbound` | what a website sends | |
| `Markets` | discovery, maps, trade figures, promotion plan | |
| `SocialChannels` | accounts and connectors side by side | `Accounts`, `Connectors` |
| `Workspace` | what is made of the briefs, and the reading of assets | `Tracking`, `Understanding` |
| `Growth` | the team's work, what the website sends, the sources | `Missions`, `Inbound`, `Markets` |

`MCPublishing`, `MCContentGeneration`, `MCPublishBatch`, `MCChannels`,
`MCWorkspace` and `MCGrowth` give them instances; `PublishingProofs`,
`JobQueueProofs`, `ContentGenerationProofs`, `PublishBatchProofs`,
`AIBudgetProofs`, `ChannelsProofs`, `WorkspaceProofs` and `GrowthProofs` hold the
theorems; each proofs module EXTENDS the modules it is about, and shares their
operators with the MC module that checks them. The last three modules of the
table compose parts that have no variable in common: their specifications are
what the theorems about a whole side of the system are stated of, and the MC
modules restrict them to desks (§3).

Throughout, one action is one transaction, or one step of a process between two
of its transactions; what a process carries from one to the next is state of its
own (`call`, `request`, `confirm`, `patch`, `sweep`, `asked`, `found`, `sending`,
`reviewing`, `deciding`, `starting`, ...), so that others act in between. Times are kept to
what the code tests: a slot is future or due, a lease live or expired, a token
fresh, due or expired. Validation errors are requests that never take a step.

### Publishing and PublishBatch

`task`, `attempt` and `post` are the `PublishTask`, `PublishAttempt` and
`PublishedPost` rows; a claim token or an instant is named by its attempt,
because the code compares them for equality only. `external` is what the
platform really did, `messages` the broker, `call` a worker between its
transactions, `request` an API call between the view's check and the locked
decision. `Consistent` is `publish_task_is_consistent`, clause by
clause; of the content's own consistency with its brief and job it keeps whether
it still holds (`content.current`), which `BriefMoves` ends for good when the
brief is archived or restored. A message is lost when the broker drops it, when
the worker that took it dies before its claim commits, and when the claim skips a
locked row; the reaper takes whatever is stale, a row it skips being one whose
lease might as well have run out afterwards. `lost` remembers the tasks that lost
a message.

In `PublishBatch`, `_execute_item` keeps its transaction open over the platform
call: `busy` is that transaction and `posts` what it did. `refresh` and `sync`
hold what an unlocked `_refresh_batch_status` or a sync has read and not yet
saved. `unknown` counts posts that the system forgot.

### JobQueue and its clients

`JobQueue` is `JobService` by itself: any claim token ever issued may be used at
any later time. `ContentGeneration` has the real callers: `web` counts requests
between their commits, `messages` and `starting` the broker and the workers that
have received a message but not claimed, `worker` the stage of an attempt, `run`
the AIRun rows, `held` the reservations, `items` the outputs. `Faults` selects
what may go wrong. `Understanding` has its own: a worker commits when it claims,
when it opens its AIRun, when it ends, and twice when it fails, and may be reaped
between any two. `AIBudget` has both budget rows with the day they were reset on;
a mission plan holds them locked while the provider works, possibly across
midnight. `excess` is a history variable: how much of today's overshoot is owed
to calls that cost more than was reserved or were carried over from another day.

### Accounts and Connectors

A token's reference is the number of its row; `from` is the row it was rotated
from. `callback`, `confirm`, `patch`, `sweep` and `rotation` are the five
processes that hold what they read across commits. An account may be made by the
confirmation, or by hand: POST `/social-accounts` makes one with any credential
the organization has, POST `/credentials` makes a credential, and PATCH saves a
full row from an unlocked read. Two accounts may therefore share a credential.
`reused` and `severed` are history: which account was given, by a PATCH, a
credential, and which was disconnected with one. `Accounts` keeps what
`probe_social_account` records on a failure out, as the exception rolls it back.
`Connectors` follows `authorize` and `publish` of Facebook, Instagram, LinkedIn,
TikTok and YouTube through their HTTP requests. A request may be answered,
refused, time out or break, and in the last two the platform may have acted; a
break is not a `TimeoutError` and nothing catches it. `site` is what exists at
the platform, `receipts` what the callers were told.

### Knowledge to Tracking

`Knowledge` has one graph of SYSTEM rows and organizations' overlays; the graph
lock makes reviews one step, while a suggestion and its evidence are two commits.
`Catalog` has the products and what some client holds with its ETag. `Assets`
puts the object first and inserts the row second. `Briefs` looks a brief up in
one step and changes it in another; the input that generation uses is a value
remembered in `inputs`. `ContentLifecycle` asks, as the code does before every
operation, whether the row is still consistent with the brief, the master and
the job it came from. A review, a restore and the publication that moves a
content on hold the content's row locked and read the brief unlocked: they are
two steps, `Decide...` and the write, with `deciding` in between, and the brief
may be archived in that moment. Revisions, adaptations and packages read the
brief in the statement that locks the content
(`select_for_update().select_related("brief", ...)`, without `of=`), which locks
the brief too: they are one step, and so is the making of a content from a job. `Tracking` adds links, whose consistency depends on
product, content and post; a publish task there is only what touches links.

### Outreach to Missions, Inbound, Markets

The rows of `Outreach` are one record, `crm`, and each operation is an operator
from rows to rows: a page commits it at once, while an agent's transaction runs
several and may lose them all, but not the mail that left. `AgentRuns` is the
loop of planner, tool and approval; the planner is the script of the agent type
or, in AI mode, any choice among `AIChoices`. A continuation that mails is two
actions, `BeginMail` and `EndMail`. The review page reads the run without its
lock. `Missions` has the requests that start agents, whose candidate, run, link
and result links are commits of their own. The mission's pages test that it is
RUNNING; the agents' page (`StartForMission`) and the pages that prepare packages
and batches (`LinkPublication`) link to a mission in any status. `Inbound` takes READ COMMITTED
literally: what a transaction reads was committed, what it writes is seen when
it commits, and only unique indexes and row locks order two of them. `Markets`
has sources that answer any notices and any figure.

## 3. What the runs check

| Run | Instance | Shows |
|---|---|---|
| `publishing_one` | 1 task, 3 attempts, 2 API requests, lost messages, a brief that moves | the inductive invariant; the validator's verdict; orphan posts; the engine implements `FencedPublication` |
| `publishing_shared` | 2 tasks of one content and account, one task without actor | content PUBLISHED only with a post |
| `publishing_liveness` | 1 task, 2 attempts, workers may die, messages may be lost | active tasks settle, unless their message was lost |
| `generation` | 1 recommendation, 3 attempts, 3 racing requests, every fault | the inductive invariant; requests agree; every step is a step of `JobQueue`; running jobs end |
| `publish_batch` | 2 batches sharing a delegated package, 2 fences, 2 retries, crashes | the inductive invariant, in it that batches never claim more than their items; a success is final; delegated items settle |
| `channels` | desks `accounts`, `connectors` | tokens are accounted for; shown CONNECTED works; answers are true; public only when asked |
| `workspace` | desks `hierarchy`, `names`, `catalog`, `uploads`, `briefs`, `contents`, `links`, `understanding` | the ten properties of `Knowledge` to `Tracking` |
| `growth` | desks `outreach`, `mails`, `contents`, `posts`, `missions`, `starts`, `inquiries`, `visits`, `discovery`, `maps`, `trade`, `promotion`, `budget` | the twelve properties of the growth side and the budgets |
| `generation_retry` | 1 job, no faults | **violated**: a retried job runs |
| `connectors_unverified` | Facebook, 2 calls | **violated**: a timed-out publication is verified before it is retried |
| `briefs_hidden` | briefs | **violated**: revisions stay visible |
| `dead_link` | links | **violated**: a visit of an active link is recorded |

The runs check the inductive invariants and what does not follow from them;
`Fenced`, `PostIsBacked`, `OneResult`, `SuccessIsBacked` and the like, which do,
are theorems instead.

**Desks.** A desk is one part of a larger system that is being worked at while
the rest stands still in some state it can really be in. The modules a desk
composes share variables, so a desk has all the steps that touch its state: the
briefs' desk moves products, assets and concepts as well; the links' desk moves
contents and products; the starts' desk runs the agent and its approval page.
The parts that have no row in common (inquiries and trade figures, say) are
never interleaved, as their product says nothing new.

**Bounds.** Components interact only through what they share: two publish tasks
through one content, two batches through one task, three uploads through one
file, calls through the budget rows; each such pair is in a run. Three attempts
give a first, a middle and a last one. Two API requests are enough for a decision
to be invalidated between its check and its lock, and two reviews under way
(`contents` desk) for each to find what the other changed. `MaxVersion`, `MaxRelations`
and the like end histories after each row has been changed several times. In
`channels` the accounts' desk has two accounts, two authorizations and two
confirmations, of which `MaxActivity = 7` lets one history use about two thirds;
the names are interchangeable (`SYMMETRY`, safety only, as in `publishing_one`).
In `growth`: three companies; two drafts, three mails and two cooldowns; six
runs of five agent types, AI planners that choose at most two actions; two
missions, three plans; four inquiries of one person, two of them under one
request id, three visits; two notices, three discovery runs; four trade syncs,
three approvals; four AI calls over two days.
`BoundedEffort` names the bound of each desk of the agents: it counts steps,
decisions and open pages, and is above what any one conversation with a run needs.
Deadlock checking is off where the system really may stop: budget calls, uploads
and retries are finite, and a settled job or task needs nothing.

### Fairness

Liveness runs assume only what the deployment provides. Time passes
(`SlotComesDue`, `LeaseExpires`, `LeaseEnds`), beat runs its sweeps
(`EnqueueDue`, `Reap`, `Reconcile`), a worker takes a message the broker keeps
(`Deliver`, `Receive`, `StartStep`), and in generation a live worker goes on
(`WorkStep`: the provider client has a timeout). No user is assumed to act, no
platform to answer, no worker to survive and no message to arrive: weak fairness
of `Deliver` says that a message which is still there is taken, and `LoseMessage`
may take it away first, in the liveness run too. What the code guarantees is
therefore `ActiveSettles`: a task settles or is stranded, QUEUED with its message
lost. All of it is weak fairness. The workspace, the accounts and the growth side have no liveness properties: nothing
there is retried by the system except by the hourly and nightly sweeps, which
promise no outcome.

## 4. What is proved

TLAPS checks 59 listed theorems, and 15 more that those rest on, for every value
of the constants that the named assumptions allow (`RequestsAssumption`,
`MaxAttemptsAssumption`, `SelectionAssumption`, `TokenAssumption`,
`BillsAssumption`, `TermsAssumption`, `InquiriesAssumption`, `NoticesAssumption`,
`AgentTypeAssumption`, `ChoicesAssumption`, `CatalogAssumption`,
`BriefsAssumption`, `RowBoundsAssumption`, `StepsAssumption`, ...: sets and
functions of the right shape, positive limits).
None bounds the number of tasks, jobs, attempts, runs, missions or uploads; the
calls of a budget, the inquiries and the notices, which are counted, and the
batches, of which the first is chosen, are finite sets. Every safety invariant
and action property of the passing runs is stated by a theorem, the composed
type invariants included.

* **Publishing.** `Inductive` proves `IInv`, from which `Fenced`,
  `PostIsBacked`, `RetryDiscipline` and `QueuedIsDispatched` follow. None of
  these is inductive alone. That a recorded post exists on the platform needs
  `CallInv` (an accepted answer has a post behind it); that a retry waited for
  its pause needs `HistoryInv`; that a claim has a free attempt number needs
  `LeaseInv`. `SettledIsForever` is the action property that follows.
  `ValidatorVerdict` says exactly which tasks are hidden, in both directions, in
  four situations; it, `OrphanPostsAreExplained` and `PublishedBecausePosted` need
  more (`AuditInv`, `WorkInv`): what a worker that still holds an old attempt can
  add to the platform, and what the row of a settled task keeps of its last
  attempt, from which the clauses of the validator can be decided one by one.
* **Refinement.** `PromiseIsKept` shows `Publishing` implements
  `FencedPublication`: the attempt number is the fence, the token the holder, the
  post row the winner. `PublishBatch` may therefore use the promise for the engine.
* **JobQueue and its clients.** `JobInvariant` shows that history and outcome
  fit the status whatever callers with old tokens do. `ImplementsJobQueue` and
  `ReadersUseTheQueue` show that the real callers, generation and understanding,
  are among those, so that what is proved of the queue holds of both.
  `GenInvariant` adds how far each attempt has come and yields `ResultIsUnique`,
  `RunsAreTrue` and `StrandingIsExplained`. `RequestInv` counts the racing POSTs
  by the commit they are at, so that a job's message, its worker and the request
  that is to send the message add up to one: `RequestsAgree`. `ReadingsSafe` ties a
  reader, its AIRun and its job together and yields `FactsAlwaysHaveOneSource`, where the
  point is that a reader that goes on after it was reaped holds a token the job
  no longer has, and so rolls its facts back.
* **AIBudget.** `BudgetInvariant` counts the calls that hold a reservation of
  today by cardinality; counters carried over midnight make the plain statement
  false, and `excess` says by how much at most. `CostInv` does the same with
  money, where reservations differ, so that it needs the sum of the estimates of
  the calls that hold one. `TotalAdds` proves that a sum over a finite set grows by
  what joins the set; the induction it needs is stated of a set of numbers
  (`SetInduction`), from the well-foundedness of <.
* **PublishBatch.** `BatchInvariant` needs `SyncInv`: what a sync has read may go
  stale before it commits, but only in the direction the item was going anyway.
  `SucceededIsFinal` is the action property: no duplicate message, retry or stale
  sync posts a succeeded item again or takes its success back.
* **Accounts and Connectors.** `AccountInv` says for each row of the token store
  who may hold its name: an account's credential, a session that waits to be
  confirmed, a callback or confirmation under way, or a process that died between
  two commits.
  Each operation moves a name from one holder to the next, and only the rotation
  chain makes a second row of one authorization, whose first is then revoked:
  `TokensAreAccounted` and, with the named causes, `ShownConnectedWorks`. Two
  accounts with one credential make the second hard: the cause is then an event of
  the other account, and `severed` remembers it.
  `ConnectorInv` says at each step of a call what the answers so far prove of the
  platform; `AnswersAreTrue` and `PublicOnlyWhenAsked` follow at its last step.
* **Workspace.** `GraphInv` says that every non-empty set of concepts has one
  with no IS_A edge back into the set, in each overlay: the induction over paths
  that acyclicity seems to need becomes a statement about sets, and a review may
  add an edge exactly when the set of what is reachable from its head is closed
  and leaves out its tail. `SnapshotIsAlwaysTheNeighbourhood` unfolds the
  breadth-first expansion round by round. `AssetInv` says where an upload must
  be for its object to be there: only an upload without a row ever removes an
  object, and an upload that has one is done. `CatalogInv` and `BriefInv` say of
  everything anybody holds of a row (a client's ETag, an edit under way, a
  generation input) that its version is not ahead of the row's; every write
  takes the next version (`Advances`), so `VersionsNameRows` follows. An input's
  brief is READY, or was when it was archived, and nothing writes the content of
  such a brief: `ReadyIsFrozen`. `TrackedInv` is about the contents and links
  that are made of the workspace: which rows an approved, packaged or published
  content needs, what a review under way still knows (`DecidingInv`: it holds its
  row, so of all it read only the brief may have moved), and what a closing task
  may still do to its link. It yields
  `PackagesAreReviewed`, `LostClicksAreExplained` and the action property
  `PastVersionsStay`; `ContentsKeepTheWorkspace` is the refinement that lets it
  use what is proved of the workspace alone.
* **Growth.** `MissionInv` is inductive under the steps of agents and pages too:
  all plans of a mission carry its present terms (an edit supersedes none, as it
  is refused once there is a plan), at most one is approved, and a mission for
  which a customer was linked, or is about to be, has one. `RunInv` keeps a transaction that waits for the
  mail provider away from runs that have ended, which makes the end final
  (`EndedRunsAlwaysRest`). `InquiryInv` explains a contact that exists twice by
  two inquiries that were under way together, and counts contacts against
  inquiries by cardinality. `VisitInv` says what a reader of signals that has not
  saved yet can have missed; `SignalInv` adds that to the inquiries' invariant.
  `MarketInv` partitions the notices by the run that counted them and orders the
  figures of a market by when they were heard.
* **Agents.** A continuation is a fold of `Turn` over what the planner chose, so
  `AgentInv` is carried through it by one lemma for a turn and one induction over
  the length of the fold (`ExecuteKeeps`). `ActionsWereApproved` alone is not
  inductive: a transaction that waits for the mail provider carries its rows and
  steps along, and `SendingInv` says that they were computed from a grant that
  nobody else can have spent meanwhile. `MailInv` relates the outbox to the
  mails that left: two within a cooldown only if the row of the first was rolled
  back. `CreditInv` says of every step of a linked run whether its results are
  credited, owed by a request still between its commits (`Owed`), or lost with
  one that died.

* **Types of the whole.** `ChannelsAlwaysTyped` and `RowsAlwaysTyped` combine the
  types of the parts, each inductive with the part's own invariant
  (`AccountInv`, `TrackedInv`, `ReadingInv`, ...), as the other parts leave its
  variables alone. `GrowthAlwaysTyped` is harder, for two reasons. A continuation
  changes rows, steps and status by a fold over the planner's actions:
  `ExecuteUnfolds` turns the fold into a function of the number of turns, and one
  lemma about `Turn` and an induction on that number type its result
  (`ExecuteTyped`). And the bounds of `GrowthTypeOK` do not hold by themselves:
  that there are no more messages than `MaxMails` follows from `TeamTypes`, which
  says that there are never more messages than mails that were answered, so that
  a mail still under way keeps the place of the message it may yet leave.
  `LinkTypes` types the links of the missions, some of which name what a run did.

Only model-checked: liveness, as the provers do not handle fairness, and the four
documented properties that the code does not have (§3), of which TLC shows a
counterexample.

Proving `ActionsWereApproved` found two arms of `CanDo` that overlapped, so that
what a planner might do was fixed only by the order TLC evaluates a CASE in;
the arms are disjoint now, as the planner's branches are. Proving the types found
that `CanDo` let a tool act for a company that has no candidate, which the
instances never tried: every such tool begins with `_candidate` and fails when it
returns `None`, and `CandidateTools` and `CanSend` say so now.

## 5. What the models say about the code

Positive results that were not evident from the code: a late publish worker, job
worker or reader can change nothing, under any interleaving with cancel, retry
and reaper; the STALE branch of the two `complete_*` functions is dead code; no
two messages of one publish task are ever under way; one authorization never
leaves two usable tokens; a generation input is a consistent cut without taking a
lock on products, because every write bumps a version; reviews of relations need
only the graph lock, although SYSTEM and each organization add edges to the same
hierarchy; a person's approval is good for one mail only.

Documented behaviour the code does not have (the violation runs): a job retried
by the API sends no message and never runs; a timed-out Facebook post is not
verified and may be posted twice; a revision disappears from the list once it is
edited or its source is archived; a visit of a pre-publish link whose post has
not been attached raises.

Exceptions the properties had to state, each with its line in `hazards`:

1. *Publishing.* The reaper leaves `outcome` blank, which the validator requires,
   so tasks it failed vanish from the API; so do a task canceled while it waited
   for a retry, one whose content was archived after it was published, and every
   task whose brief was archived or restored after the content was made: those can
   no longer be claimed, canceled or retried either (`ValidatorVerdict`). A
   platform timeout, a rate limit on the status request that follows an accepted
   upload, a cancel or a reap under a running worker, and a finalizer that raises
   leave posts the system does not know, and a retry posts again
   (`OrphanPostsAreExplained`). A task whose message is lost stays QUEUED until
   somebody cancels it, as no sweep dispatches QUEUED rows (`ActiveSettles`). A
   directly posted item does not refresh its batch, whose status waits for the
   hourly sweep or another item.
2. *Jobs and budgets.* A worker whose job was reaped leaves its AIRun open and its
   reservation taken; calls carried over midnight let budgets be exceeded
   (`BudgetInv`, `CostOvershootIsExplained`).
3. *Accounts.* A rotated key, an expiry or secret typed by hand, a sweep that
   found the token gone, an account switched on again and a credential attached
   or saved back by a PATCH (full row from an unlocked read) are shown CONNECTED
   without a token that resolves; so is an account made by hand with the
   credential of another one, once that other one is disconnected
   (`ShownConnectedWorks`). A dead process between two commits leaves a usable
   token nobody names. An expired ACTIVE row makes the rotation command fail each
   time.
4. *Connectors.* LinkedIn may report the post of an earlier call as its own, as
   intended; TikTok reports a refused or rate-limited status request like a
   refused upload, though the upload was accepted (`AnswersAreTrue`).
5. *Contents and links.* Archiving a brief, and even restoring it, takes the
   contents generated from it away for good; a review that had read the brief
   before is still written, so that a master may be approved after its brief left
   it behind (`PastVersionsStay`: once, and nothing follows); two tasks of one
   content may both give its link their post (`LostClicksAreExplained`).
6. *Agents and missions.* Pausing or ending a mission stops no run, and COMPLETED
   may follow TERMINATED. Strategies, social runs, packages and batches are linked
   to DRAFT missions too, by the agents' and the publishing pages, though the
   mission's page answers that only running missions start a strategy; companies
   and mails are not (`MissionsRunTheirPlan`). The mail is sent inside the
   transaction that records it, so a rollback lets the company be written to again
   within the cooldown (`MailsAreSpaced`). An approval binds tool and company, not draft or address. A
   run that completed under an open review page may still be rejected
   (`EndedRunsRest`). The results of a run shared by two missions go to the one
   linked last; a request that dies first leaves a mail uncredited
   (`CreditFollowsTheRun`).
7. *Inbound and markets.* Two inquiries under way together create a contact twice,
   after which every inquiry of that person fails (`InquiriesAreRecordedOnce`); a
   lead's score and route may be saved over a later one
   (`ReadingsMissOnlyOvertakers`), `lead.routed` is sent with the first route only
   and `rfq.created` with that of each inquiry; a trade figure that returns to an
   earlier value re-uses the earlier row and the superseded figure stays the newest
   (`ReadingsAreTheLastHeard`, in the order of the rows' creation: a row is dated
   when it is inserted, before its transaction commits).

## 6. Mutants

Definitions named `*_mut` are plausible mistakes, kept next to the definition
they are mistakes in and used by no specification. Replacing the definition by
the mistake must break the property named here.

| Mistake | Breaks |
|---|---|
| `Publishing!CanRetry_unbounded_mut` for `CanRetry` | `IInv` |
| `Publishing!Retry_mut` for `Retry` | `ValidatorVerdict` |
| `Publishing!Reported_mut` for `Reported` | `OrphanPostsAreExplained` |
| `Publishing!Owns_mut` for `Owns` | `KeepsPromise` |
| `Publishing!DiscardLateResult_publishes_mut` for `DiscardLateResult` | `PublishedBecausePosted` |
| `Publishing!Claimable_mut` for `Claimable` | `ActiveSettles` |
| `ContentGeneration!RecordCanceled_mut` for `RecordCanceled` | `GenInv` |
| `ContentGeneration!PostAddsRow_mut` for `PostAddsRow` | `RequestsAgree` |
| `ContentGeneration!RefuseJob_mut` for `RefuseJob` | `JobSpec` |
| `JobQueue!StaleJobs_mut` for `StaleJobs` | `RunningJobsEnd` |
| `PublishBatch!Aggregate_mut` for `Aggregate` | `BatchInv` |
| `PublishBatch!Executable_mut` for `Executable` | `SucceededIsFinal` |
| `PublishBatch!Reconcilable_mut` for `Reconcilable` | `DelegatedSettles` |
| `Accounts!StoreBundle_mut` for `StoreBundle` | `ChannelsTypeOK` |
| `Accounts!Retired_mut` for `Retired` | `TokensAreAccounted` |
| `Accounts!Disconnect_mut` for `Disconnect` | `ShownConnectedWorks` |
| `Connectors!PostCreated_mut` for `PostCreated` | `AnswersAreTrue` |
| `Connectors!TikTokVisibility_mut` for `TikTokVisibility` | `PublicOnlyWhenAsked` |
| `Knowledge!RelationAllowed_mut` for `RelationAllowed` | `WorkspaceTypeOK` |
| `Knowledge!Overlays_mut` for `Overlays` | `HierarchyIsAcyclic` |
| `Knowledge!Follow_mut` for `Follow` | `SnapshotIsTheNeighbourhood` |
| `Assets!Discarded_mut` for `Discarded` | `AssetsKeepOriginals` |
| `Understanding!StoreFacts_mut` for `StoreFacts` | `FactsHaveOneSource` |
| `Catalog!PatchProduct_mut` for `PatchProduct` | `VersionsNameRows` |
| `Briefs!RestoredStatus_mut` for `RestoredStatus` | `ReadyIsFrozen` |
| `ContentLifecycle!NeedsHead_mut` for `NeedsHead` | `PastVersionsStay` |
| `ContentLifecycle!ReviewVariant_mut` for `ReviewVariant` | `PackagesAreReviewed` |
| `Tracking!TaskConsistent_mut` for `TaskConsistent` | `LostClicksAreExplained` |
| `Outreach!SelectForReactivation_mut` for `SelectForReactivation` | `GrowthTypeOK` |
| `AgentRuns!Granted_mut` for `Granted` | `ActionsWereApproved` |
| `Outreach!InCooldown_mut` for `InCooldown` | `MailsAreSpaced` |
| `Missions!CanEdit_mut` for `CanEdit` | `MissionsRunTheirPlan` |
| `AgentRuns!Approve_mut` for `Approve` | `CreditFollowsTheRun` |
| `Inbound!Recorded_mut` for `Recorded` | `InquiriesAreRecordedOnce` |
| `Inbound!Latest_mut` for `Latest` | `ReadingsMissOnlyOvertakers` |
| `Markets!Fresh_mut` for `Fresh` | `SignalsAreCounted` |
| `Markets!Reading_mut` for `Reading` | `ReadingsAreTheLastHeard` |
| `AIBudget!Minus_mut` for `Minus` | `BudgetInv` |
| `AIBudget!CostFits_mut` for `CostFits` | `CostOvershootIsExplained` |
| `AgentRuns!Ended_mut` for `Ended` | `EndedRunsRest` |

## 7. Not modelled

Out of the models by choice, component by component; `PROJECT.json` has the
status of each.

* *Publishing*: the daily limit, post metrics. *Content generation*: prompts,
  schemas and payload validation (a nondeterministic outcome).
* *AI provider configuration*, *identity*, *audit*, *storage*, *clients*,
  *source adapters*, *front end*: configuration or a permission table read once
  per call, rows written inside the callers' transactions, pure I/O, a renderer.
  They have no interleaving of their own.
* *Knowledge*: versions and SUBMIT, alias resolution, the evidence text of a
  snapshot. *Briefs*: facts, ontology and asset details of an input. *Catalog*:
  the values of a product are one text.
* *Tracking*: `set_short_link_status` and `purge_click_events`, which nothing
  calls; answers 400 and 503.
* *Accounts*: read-only capability views, platform rows. *Connectors*: what a
  request says beyond visibility and consent; metrics.
* *Outreach*: `record_reply`, bounce, unsubscribe and deal transitions, which
  nothing calls; the wording of drafts and of customer service answers. An email
  given in the arguments of a tool.
* *Agents*: the `discover_maps` tool, read-only tools an AI may choose, the list
  and acknowledgment of the outbox. An AI plan that mails changes no row first (a
  bound), and does nothing more after its mail. *Missions*: the text of a plan, the timeline.
* *Markets*: creation of market watches, the split of trade figures by China and
  world, import of a candidate list, answers 502 and 503.

One thing the models take from what the code intends: revisions and adaptations of
contents lock rows through a nullable `previous_version` in the same statement,
an outer join that PostgreSQL may refuse to lock (the test suite runs on SQLite).

Worth doing next: give `Accounts` an abstract credential store to refine;
liveness of the discovery and maps recovery; the daily limit with two contents on one account.
