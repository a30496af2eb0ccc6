------------------------------- MODULE Briefs --------------------------------
(*****************************************************************************)
(* Campaigns and content briefs (apps/campaigns): a brief is drafted,        *)
(* marked ready, archived and restored, revised once it is ready, and the    *)
(* input of content generation is built from it while products, assets and   *)
(* concepts go on changing.                                                  *)
(*                                                                           *)
(* A request looks its brief up among those the organization lists and       *)
(* calls the service, which locks the brief; the two are steps of their      *)
(* own, with one request under way for each brief.  The text fields and      *)
(* the platforms of a brief are one value, complete or not.                  *)
(*****************************************************************************)
EXTENDS Assets

CONSTANTS MaxBriefs,   \* bound on the briefs
          Fields,      \* what the text fields and platforms of a brief may say
          Complete,    \* those that READY requires
          MaxInputs    \* bound on the generation inputs

ASSUME BriefsAssumption ==
    MaxBriefs \in Nat \ {0} /\ Complete \subseteq Fields /\ Fields \ Complete # {}

VARIABLES campaign,       \* the Campaign row
          campaignEdit,   \* the row as an edit under way read it
          brief,          \* ContentBrief rows with their links, by order of creation
          found,          \* briefs that a request has looked up
          inputs          \* the ContentGenerationInputs built

briefVars == <<campaign, campaignEdit, brief, found, inputs>>

(* BRIEF_ROLE_CONCEPT_TYPES *)
BriefRoleType ==
    [PRODUCT_TYPE |-> "PRODUCT_TYPE", MANUFACTURING_PROCESS |-> "PROCESS",
     TARGET_INDUSTRY |-> "INDUSTRY", TARGET_CUSTOMER_TYPE |-> "CUSTOMER_TYPE",
     PURCHASE_INTENT |-> "PURCHASE_INTENT", STANDARD |-> "STANDARD",
     APPLICATION |-> "APPLICATION"]
BriefLinks == {l \in [role: DOMAIN BriefRoleType, concept: Concepts] :
                  ConceptType[l.concept] = BriefRoleType[l.role]}

BriefIds == 1..MaxBriefs
CampaignRow == [status: ProductStatuses, version: 1..MaxVersion, text: Texts]
Links == [products: SUBSET Products, assets: SUBSET Uploads, concepts: SUBSET BriefLinks]
Content == [fields: Fields, links: Links]
BriefRow == [status: {"none", "DRAFT", "READY", "ARCHIVED"}, from: {"", "DRAFT", "READY"},
             version: 0..MaxVersion, of: 0..MaxBriefs, content: Content]
Input == [brief: BriefIds, version: 1..MaxVersion, content: Content,
          campaign: 1..MaxVersion, products: [Products -> ProductRow]]

Blank == [fields |-> CHOOSE f \in Fields : f \notin Complete,
          links |-> [products |-> {}, assets |-> {}, concepts |-> {}]]
NoBrief == [status |-> "none", from |-> "", version |-> 0, of |-> 0, content |-> Blank]
Taken(b) == brief[b].status # "none"
Fresh == {b \in BriefIds : ~Taken(b) /\ \A a \in BriefIds : a < b => Taken(a)}

(* What a new link requires, and what READY checks again                   *)
AssetFits(a, products) ==
    /\ asset[a].status = "ACTIVE"
    /\ asset[a].products = {} \/ asset[a].products \cap products # {}
LinksFit(links) ==
    /\ \A a \in links.assets : AssetFits(a, links.products)
    /\ \A l \in links.concepts : Usable(l.concept)
Selectable ==
    {links \in [products: SUBSET {p \in Products : product[p].status = "ACTIVE"},
                assets: SUBSET {a \in Uploads : asset[a].status = "ACTIVE"},
                concepts: SUBSET {l \in BriefLinks : Usable(l.concept)}] : LinksFit(links)}

(* _brief_queryset: a revision is listed as long as its source is READY      *)
(* and the versions are next to each other.                                  *)
Listed(b) ==
    \A source \in {brief[b].of} \cap BriefIds :
        /\ brief[source].status = "READY"
        /\ brief[b].version = brief[source].version + 1

BriefsInit ==
    /\ campaign \in {[status |-> "DRAFT", version |-> 1, text |-> t] : t \in Texts}
    /\ campaignEdit = campaign
    /\ brief = [b \in BriefIds |-> NoBrief]
    /\ found = {}
    /\ inputs = {}

---------------------------------------------------------------------------
(* The campaign: read, then saved under its lock unless it moved on.       *)

ReadCampaign ==
    /\ campaignEdit' = campaign
    /\ UNCHANGED <<campaign, brief, found, inputs>>

(* PATCH, or DELETE, which archives.                                       *)
SaveCampaign ==
    /\ campaignEdit.version = campaign.version
    /\ \E status \in ProductStatuses, text \in Texts :
          LET edited == [campaignEdit EXCEPT !.status = status, !.text = text] IN
          /\ edited # campaign /\ campaign.version < MaxVersion
          /\ campaign' = [edited EXCEPT !.version = @ + 1]
    /\ UNCHANGED <<campaignEdit, brief, found, inputs>>

---------------------------------------------------------------------------
LookUp(b) ==
    /\ Taken(b) /\ Listed(b)
    /\ found' = found \cup {b}
    /\ UNCHANGED <<campaign, campaignEdit, brief, inputs>>

Served(b) == b \in found /\ found' = found \ {b}
Writes(b, row) ==
    /\ brief[b].version < MaxVersion
    /\ brief' = [brief EXCEPT ![b] = row]

CreateBrief(b) ==
    /\ b \in Fresh
    /\ \E fields \in Fields, links \in Selectable :
          brief' = [brief EXCEPT ![b] =
             [NoBrief EXCEPT !.status = "DRAFT", !.version = 1,
                             !.content = [fields |-> fields, links |-> links]]]
    /\ UNCHANGED <<campaign, campaignEdit, found, inputs>>

(* When any link changes, all are made anew.                               *)
UpdateBrief(b) ==
    /\ Served(b) /\ brief[b].status = "DRAFT"
    /\ \E fields \in Fields, links \in Selectable \cup {brief[b].content.links} :
          LET content == [fields |-> fields, links |-> links] IN
          /\ content # brief[b].content
          /\ Writes(b, [brief[b] EXCEPT !.content = content, !.version = @ + 1])
    /\ UNCHANGED <<campaign, campaignEdit, inputs>>

MarkReady(b) ==
    /\ Served(b) /\ brief[b].status = "DRAFT"
    /\ LinksFit(brief[b].content.links)
    /\ brief[b].content.fields \in Complete /\ brief[b].content.links.products # {}
    /\ Writes(b, [brief[b] EXCEPT !.status = "READY", !.version = @ + 1])
    /\ UNCHANGED <<campaign, campaignEdit, inputs>>

ArchiveBrief(b) ==
    /\ Served(b) /\ brief[b].status # "ARCHIVED"
    /\ Writes(b, [brief[b] EXCEPT !.status = "ARCHIVED", !.from = brief[b].status,
                                  !.version = @ + 1])
    /\ UNCHANGED <<campaign, campaignEdit, inputs>>

RestoredStatus_mut(b) == "DRAFT"
RestoredStatus(b) == brief[b].from
RestoreBrief(b) ==
    /\ Served(b) /\ brief[b].status = "ARCHIVED"
    /\ Writes(b, [brief[b] EXCEPT !.status = RestoredStatus(b), !.from = "", !.version = @ + 1])
    /\ UNCHANGED <<campaign, campaignEdit, inputs>>

(* One direct revision of a READY brief, its links made anew               *)
ReviseBrief(b, r) ==
    /\ Served(b) /\ brief[b].status = "READY" /\ r \in Fresh
    /\ \A a \in BriefIds : brief[a].of # b
    /\ brief[b].content.links \in Selectable
    /\ brief[b].version < MaxVersion
    /\ brief' = [brief EXCEPT ![r] =
           [status |-> "DRAFT", from |-> "", version |-> brief[b].version + 1, of |-> b,
            content |-> brief[b].content]]
    /\ UNCHANGED <<campaign, campaignEdit, inputs>>

(* build_content_generation_input, for a job about the brief               *)
BuildInput(b) ==
    LET content == brief[b].content
        used == content.links.products IN
    /\ brief[b].status = "READY" /\ Cardinality(inputs) < MaxInputs
    /\ LinksFit(content.links)
    /\ \A p \in used : \A l \in product[p].links : Usable(l.concept)
    /\ inputs' = inputs \cup {[brief |-> b, version |-> brief[b].version, content |-> content,
                               campaign |-> campaign.version,
                               products |-> [p \in used |-> product[p]]]}
    /\ UNCHANGED <<campaign, campaignEdit, brief, found>>

BriefStep ==
    \/ ReadCampaign \/ SaveCampaign
    \/ \E b \in BriefIds :
          \/ LookUp(b) \/ CreateBrief(b) \/ UpdateBrief(b) \/ MarkReady(b)
          \/ ArchiveBrief(b) \/ RestoreBrief(b) \/ BuildInput(b)
          \/ \E r \in BriefIds : ReviseBrief(b, r)
BriefsNext == BriefStep /\ UNCHANGED <<graphVars, catalogVars, assetVars>>

(* The graph, the catalog, the assets and the briefs together              *)
WorkspaceInit == KnowledgeInit /\ CatalogInit /\ AssetsInit /\ BriefsInit
WorkspaceNext ==
    \/ KnowledgeNext /\ UNCHANGED <<catalogVars, assetVars, briefVars>>
    \/ CatalogNext /\ UNCHANGED <<assetVars, briefVars>>
    \/ AssetsNext /\ UNCHANGED briefVars
    \/ BriefsNext
WorkspaceSpec ==
    WorkspaceInit /\ [][WorkspaceNext]_<<graphVars, catalogVars, assetVars, briefVars>>

---------------------------------------------------------------------------
(* Properties *)

BriefsTypeOK ==
    /\ campaign \in CampaignRow /\ campaignEdit \in CampaignRow
    /\ brief \in [BriefIds -> BriefRow] /\ found \subseteq BriefIds
    /\ \A b \in BriefIds : brief[b].status = "ARCHIVED" <=> brief[b].from # ""

(* A version number names one state of its row, whoever edits it and         *)
(* whatever of it is edited: what a client or an edit still holds under      *)
(* the row's version is the row, and two inputs that name the same version   *)
(* of a brief or of a product say the same of it.                            *)
VersionsNameRows ==
    /\ campaignEdit.version = campaign.version => campaignEdit = campaign
    /\ \A p \in Products : copy[p].version = product[p].version => copy[p] = product[p]
    /\ \A i, j \in inputs :
          /\ i.brief = j.brief /\ i.version = j.version => i.content = j.content
          /\ \A p \in DOMAIN i.products \cap DOMAIN j.products :
                i.products[p].version = j.products[p].version => i.products[p] = j.products[p]

(* READY is for good: everything ever generated from a brief was generated   *)
(* from the same content, however often it was archived and restored.        *)
ReadyIsFrozen == \A i, j \in inputs : i.brief = j.brief => i.content = j.content

(* Content creation spec 2026-08-16, line 73: existing briefs and            *)
(* revisions remain visible.                                                 *)
RevisionsStayVisible == \A b \in BriefIds : Taken(b) => Listed(b)
=============================================================================
