------------------------------ MODULE Tracking -------------------------------
(*****************************************************************************)
(* Tracked links (apps/tracking): a link leads to one destination on         *)
(* behalf of one product and one post, a short link to the tracked link,     *)
(* and each visit of a short link is recorded before it is redirected.       *)
(*                                                                           *)
(* A link is consistent as long as its product and the content of its post   *)
(* are what they were; anything else makes it answer 404.  The link that a   *)
(* post itself carries is made before the post exists, without it, and is    *)
(* given the post after the task is over (publishing/pre_publish.py).  Of    *)
(* a publish task only what touches links and contents is here: Publishing   *)
(* has its attempts, claims and leases.                                      *)
(*****************************************************************************)
EXTENDS ContentLifecycle

CONSTANTS Tasks,       \* publish tasks
          TaskContent, \* the platform content each is about
          Keys         \* numbers of the idempotency keys that API requests use

ASSUME TrackingAssumption == TaskContent \in [Tasks -> 1..MaxContents] /\ "none" \notin Tasks

VARIABLES task,      \* status of the publish task, POSTED between post and record
          closing,   \* workers past the record of their post, and what they read
          link,      \* TrackingLink rows by idempotency key
          short,     \* the tracked link of each ShortLink row, by idempotency key
          visit,     \* redirects that resolved a short link: its key
          click      \* ClickEvent rows: the short link and the task they name

trackingVars == <<task, closing, link, short, visit, click>>
taskVars == <<task, closing>>
visitVars == <<visit, click>>

PreKey(c) == <<"pre-publish", c>>
RequestKeys == {<<"request", k>> : k \in Keys}
LinkKey == RequestKeys \cup {PreKey(c) : c \in 1..MaxContents}
LinkRow == [post: Tasks \cup {"none"}, product: Products]
TaskStatus == {"none", "RUNNING", "POSTED", "SUCCEEDED", "FAILED"}

ContentBrief(c) == master[variant[c].master].job[1]
ContentProducts(c) == brief[ContentBrief(c)].content.links.products

(* publish_task_is_consistent, of a task that is SUCCEEDED                 *)
TaskConsistent_mut(t) ==
    /\ task[t] = "SUCCEEDED"
    /\ Consistent(TaskContent[t]) /\ variant[TaskContent[t]].status = "PUBLISHED"
    /\ VariantHead(TaskContent[t])
TaskConsistent(t) ==
    /\ task[t] = "SUCCEEDED"
    /\ Consistent(TaskContent[t]) /\ variant[TaskContent[t]].status = "PUBLISHED"

(* _tracking_consistent                                                    *)
LinkConsistent(row) ==
    /\ product[row.product].status = "ACTIVE"
    /\ \A t \in {row.post} \cap Tasks :
          /\ TaskConsistent(t) /\ VariantHead(TaskContent[t])
          /\ row.product \in ContentProducts(TaskContent[t])
ShortConsistent(s) == LinkConsistent(link[short[s]])

TrackingInit ==
    /\ task = [t \in Tasks |-> "none"] /\ closing = <<>>
    /\ link = <<>> /\ short = <<>> /\ visit = {} /\ click = {}

---------------------------------------------------------------------------
(* The publish task, as far as links go *)

StartPublish(t) ==
    LET c == TaskContent[t] IN
    /\ task[t] = "none" /\ c \in Variants /\ VariantFree(c)
    /\ Consistent(c) /\ variant[c].status = "APPROVED" /\ VariantHead(c)
    /\ task' = [task EXCEPT ![t] = "RUNNING"]
    /\ UNCHANGED <<closing, link, short>> /\ UNCHANGED contentVars

(* prepare_pre_publish_short_link makes or finds both, each in a             *)
(* transaction of its own; if anything fails the post goes without.          *)
PrepareLink(t) ==
    LET key == PreKey(TaskContent[t]) IN
    /\ task[t] = "RUNNING" /\ key \notin DOMAIN link
    /\ \E p \in ContentProducts(TaskContent[t]) :
          LET row == [post |-> "none", product |-> p] IN
          LinkConsistent(row) /\ link' = With(link, key, row)
    /\ UNCHANGED <<taskVars, short>> /\ UNCHANGED contentVars
PrepareShort(t) ==
    LET key == PreKey(TaskContent[t]) IN
    /\ task[t] = "RUNNING" /\ key \in DOMAIN link \ DOMAIN short
    /\ LinkConsistent(link[key])
    /\ short' = With(short, key, key)
    /\ UNCHANGED <<taskVars, link>> /\ UNCHANGED contentVars

ProviderPosts(t) ==
    /\ task[t] = "RUNNING"
    /\ task' = [task EXCEPT ![t] = "POSTED"]
    /\ UNCHANGED <<closing, link, short>> /\ UNCHANGED contentVars

(* complete_publish_success; when it raises, the task is failed.  Its        *)
(* transition is a review of the content by whichever task records first.    *)
DecidePublish(t) ==
    /\ task[t] = "POSTED" /\ DecideVariant(TaskContent[t], "PUBLISH")
    /\ UNCHANGED <<taskVars, link, short>>
FinishPublish(t) ==
    LET c == TaskContent[t] IN
    /\ task[t] = "POSTED"
    /\ \/ /\ \/ Transits(c, "PUBLISH")
             \/ /\ ~Locked("variant", c) /\ variant[c].status = "PUBLISHED"
                /\ UNCHANGED <<variant, deciding>>
          /\ task' = [task EXCEPT ![t] = "SUCCEEDED"]
          /\ closing' = With(closing, t, "ended")
       \/ /\ ~Locked("variant", c) /\ variant[c].status # "PUBLISHED"
          /\ ~(variant[c].status = "APPROVED" /\ Consistent(c) /\ VariantHead(c))
          /\ task' = [task EXCEPT ![t] = "FAILED"] /\ UNCHANGED <<variant, deciding, closing>>
    /\ UNCHANGED <<genJob, asked, master, package>> /\ UNCHANGED <<link, short>>

(* _associate_pre_publish_tracking: the link without a post is read, then    *)
(* saved with the post, with no lock between; it may also never happen.      *)
ReadLink(t) ==
    LET key == PreKey(TaskContent[t]) IN
    /\ t \in DOMAIN closing /\ closing[t] = "ended"
    /\ closing' = [closing EXCEPT ![t] = IF key \in DOMAIN link /\ link[key].post = "none"
                                         THEN "read" ELSE "done"]
    /\ UNCHANGED <<task, link, short>> /\ UNCHANGED contentVars
SaveLink(t) ==
    /\ t \in DOMAIN closing /\ closing[t] = "read"
    /\ link' = [link EXCEPT ![PreKey(TaskContent[t])].post = t]
    /\ closing' = [closing EXCEPT ![t] = "done"]
    /\ UNCHANGED <<task, short>> /\ UNCHANGED contentVars

---------------------------------------------------------------------------
(* The API: a key that is taken answers with its row or with a conflict.   *)

CreateLink(key, t, p) ==
    LET row == [post |-> t, product |-> p] IN
    /\ key \notin DOMAIN link /\ task[t] = "SUCCEEDED"
    /\ LinkConsistent(row)
    /\ link' = With(link, key, row)
    /\ UNCHANGED <<taskVars, short>> /\ UNCHANGED contentVars
CreateShort(key, k) ==
    /\ key \notin DOMAIN short /\ k \in DOMAIN link /\ LinkConsistent(link[k])
    /\ short' = With(short, key, k)
    /\ UNCHANGED <<taskVars, link>> /\ UNCHANGED contentVars

---------------------------------------------------------------------------
(* A visit: the short link is resolved, then locked and asked again.       *)

(* One that is not consistent answers 404.                                 *)
Visit(s) ==
    /\ s \in DOMAIN short /\ ShortConsistent(s)
    /\ visit' = visit \cup {s}
    /\ UNCHANGED click

(* record_click_event copies what it needs from the post's task: of a link   *)
(* without a post it raises an error that nobody catches.                    *)
Recordable(s) == link[short[s]].post # "none"
RecordClick(s) ==
    /\ s \in visit /\ visit' = visit \ {s}
    /\ IF ShortConsistent(s) /\ Recordable(s)
       THEN click' = click \cup {[short |-> s, task |-> link[short[s]].post]}
       ELSE UNCHANGED click

PublicationStep ==
    /\ \E t \in Tasks :
          \/ StartPublish(t) \/ PrepareLink(t) \/ PrepareShort(t) \/ ProviderPosts(t)
          \/ DecidePublish(t) \/ FinishPublish(t) \/ ReadLink(t) \/ SaveLink(t)
    /\ UNCHANGED visitVars
LinkStep ==
    /\ \E key \in RequestKeys :
          \/ \E t \in Tasks, p \in Products : CreateLink(key, t, p)
          \/ \E k \in DOMAIN link : CreateShort(key, k)
    /\ UNCHANGED visitVars
VisitStep ==
    /\ \E s \in DOMAIN short : Visit(s) \/ RecordClick(s)
    /\ UNCHANGED <<taskVars, link, short>> /\ UNCHANGED contentVars
TrackingNext ==
    /\ PublicationStep \/ LinkStep \/ VisitStep
    /\ UNCHANGED <<graphVars, catalogVars, assetVars, briefVars>>

(* The workspace with the contents and the links made of its briefs        *)
TrackedInit == WorkspaceInit /\ ContentInit /\ TrackingInit
TrackedNext ==
    \/ WorkspaceNext /\ UNCHANGED <<contentVars, trackingVars>>
    \/ ContentNext /\ UNCHANGED trackingVars
    \/ TrackingNext
TrackedSpec ==
    TrackedInit /\ [][TrackedNext]_<<graphVars, catalogVars, assetVars, briefVars,
                                     contentVars, trackingVars>>

---------------------------------------------------------------------------
(* Properties *)

TrackingTypeOK ==
    /\ task \in [Tasks -> TaskStatus]
    /\ DOMAIN closing \subseteq Tasks
    /\ DOMAIN link \subseteq LinkKey /\ \A k \in DOMAIN link : link[k] \in LinkRow
    /\ DOMAIN short \subseteq LinkKey /\ \A s \in DOMAIN short : short[s] \in DOMAIN link
    /\ visit \subseteq DOMAIN short /\ click \subseteq [short: LinkKey, task: Tasks]

(* What ChannelSummaryView counts                                          *)
Counted ==
    {e \in click : LET t == link[short[e.short]].post IN
                      t \in Tasks /\ TaskConsistent(t) /\ e.task = t}

(* A click is counted for its post for as long as the content is published   *)
(* and shown; revising the content or archiving the product does not lose    *)
(* it.  The only other loss is two tasks about one content that both read    *)
(* its link before either saved it: the clicks of the one that saved first   *)
(* then name a task that is not the link's.                                  *)
LostClicksAreExplained ==
    \A e \in click \ Counted :
        \/ variant[TaskContent[e.task]].status = "ARCHIVED" \/ ~Consistent(TaskContent[e.task])
        \/ LET t == link[short[e.short]].post IN
              t # e.task /\ TaskContent[t] = TaskContent[e.task]

(* PublicRedirectView documents a 302 for a recorded click and a 404 for     *)
(* an unknown, disabled or inconsistent link (tracking/views.py:437): a      *)
(* link that is active and consistent records its visit.                     *)
VisitsAreRecorded == \A s \in visit : ShortConsistent(s) => Recordable(s)
=============================================================================
