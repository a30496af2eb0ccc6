----------------------------- MODULE MCWorkspace -----------------------------
(* One organization's workspace for TLC.  A desk is the part of it that is   *)
(* being worked at; the rest stands still in the state MCInit gives it.      *)
EXTENDS Workspace, TLC

CONSTANTS g1, g2,                      \* organizations
          gear, spur, line, own,       \* concepts
          sheet,                       \* an evidence
          p1, p2,                      \* products
          u1, u2, u3,                  \* uploads
          t1, t2,                      \* publish tasks
          Desks,                       \* the desks of this run
          MaxEffort                    \* bounds the work done at some desks

VARIABLES desk

Owner == [c \in Concepts |-> IF c = own THEN g1 ELSE SYSTEM]
Type == [c \in Concepts |-> IF c = line THEN "APPLICATION" ELSE "PRODUCT_TYPE"]
DocOwner == [e \in Evidence |-> SYSTEM]
Name == [w \in {"gear"} |-> gear]
Installed == {[owner |-> SYSTEM, subject |-> gear, predicate |-> "APPLIES_TO", object |-> line]}
Sum3 == [u \in Uploads |-> IF u = u3 THEN "other" ELSE "same"]

FirstContent == [t \in Tasks |-> 1]

Ruled(rows, judged) == Cardinality({x \in DOMAIN rows : rows[x] \in judged})

\* From the briefs' desk on there are a product and an asset from the start, at
\* the contents' desk a brief that is READY, at the links' an approved content.
ReadyBrief ==
    [status |-> "READY", from |-> "", version |-> 1, of |-> 0,
     content |-> [fields |-> CHOOSE f \in Complete : TRUE,
                  links |-> [products |-> {p1}, assets |-> {}, concepts |-> {}]]]

MCInit ==
    /\ desk \in Desks
    /\ concept = [c \in Concepts |-> IF desk = "hierarchy" \/ (desk # "names" /\ c = gear)
                                THEN "APPROVED" ELSE "none"]
    /\ evidence = [e \in Evidence |-> "none"]
    /\ alias = <<>> /\ relation = <<>> /\ cites = <<>> /\ attaching = {}
    /\ product = [p \in Products |-> IF desk \in {"briefs", "contents", "links"} /\ p = p1
          THEN [status |-> "ACTIVE", version |-> 1, text |-> "old", links |-> {}] ELSE NoProduct]
    /\ copy = product
    /\ asset = [u \in Uploads |-> IF desk = "briefs" /\ u = u1
          THEN [status |-> "ACTIVE", products |-> {}] ELSE NoAsset]
    /\ upload = [u \in Uploads |-> "new"] /\ objects = {u \in Uploads : asset[u] # NoAsset}
    /\ answer = [u \in Uploads |-> {}]
    /\ campaign = [status |-> "DRAFT", version |-> 1, text |-> "old"] /\ campaignEdit = campaign
    /\ brief = [b \in BriefIds |-> IF desk \in {"contents", "links"} /\ b = 1
                                   THEN ReadyBrief ELSE NoBrief]
    /\ found = {} /\ inputs = {}
    /\ asked = {} /\ deciding = {} /\ package = <<>>
    /\ genJob = IF desk = "links" THEN <<1, 1>> :> [status |-> "SUCCEEDED", version |-> 1] ELSE <<>>
    /\ master = IF desk # "links" THEN <<>> ELSE
          <<[job |-> <<1, 1>>, version |-> 1, number |-> 1, previous |-> 0,
             status |-> "APPROVED", from |-> ""]>>
    /\ variant = IF desk # "links" THEN <<>> ELSE
          <<[master |-> 1, platform |-> "LINKEDIN", number |-> 1, previous |-> 0,
             status |-> "APPROVED"]>>
    /\ TrackingInit
    /\ UnderstandingInit

HierarchyDesk == (ReviewStep \/ RelateStep) /\ UNCHANGED <<catalogVars, assetVars, briefVars>>
NamesDesk ==
    /\ ReviewStep \/ SuggestStep \/ (relation = <<>> /\ RelateStep)
    /\ UNCHANGED <<catalogVars, assetVars, briefVars>>
Deprecates(c) == ReviewConcept(c, "DEPRECATE") /\ UNCHANGED <<catalogVars, assetVars, briefVars>>
CatalogDesk == \/ CatalogNext /\ UNCHANGED <<assetVars, briefVars>>
               \/ Deprecates(gear)
UploadsDesk == AssetsNext /\ UNCHANGED briefVars
BriefsDesk ==
    \/ BriefsNext
    \/ PatchProduct(p1) /\ UNCHANGED <<graphVars, assetVars, briefVars>>
    \/ ShelfStep /\ UNCHANGED <<graphVars, catalogVars, briefVars>>
    \/ Deprecates(gear)
UnderstandingDesk == UnderstandingNext /\ UNCHANGED <<graphVars, catalogVars, assetVars, briefVars>>

(* The brief, the product and the content a link depends on move on.       *)
BriefMoves == \/ LookUp(1) \/ ArchiveBrief(1) \/ RestoreBrief(1)
ContentsDesk ==
    /\ \/ ContentNext
       \/ BriefMoves /\ UNCHANGED <<graphVars, catalogVars, assetVars, contentVars>>
    /\ UNCHANGED trackingVars
LinksDesk ==
    \/ TrackingNext
    \/ /\ DecideVariant(1, "ARCHIVE") \/ ReviewVariant(1, "ARCHIVE") \/ ReviseVariant(1)
       /\ UNCHANGED <<graphVars, catalogVars, assetVars, briefVars, trackingVars>>
    \/ /\ BriefMoves
       /\ UNCHANGED <<graphVars, catalogVars, assetVars, contentVars, trackingVars>>
    \/ /\ PatchProduct(p1) /\ product'[p1].text = "old" /\ product'[p1].status # "DRAFT"
       /\ UNCHANGED <<graphVars, assetVars, briefVars, contentVars, trackingVars>>

MCNext ==
    /\ UNCHANGED desk
    /\ \/ desk = "contents" /\ ContentsDesk /\ UNCHANGED understandingVars
       \/ desk = "links" /\ LinksDesk /\ UNCHANGED understandingVars
       \/ /\ UNCHANGED <<understandingVars, contentVars, trackingVars>>
          /\ \/ desk = "hierarchy" /\ HierarchyDesk
             \/ desk = "names" /\ NamesDesk
             \/ desk = "catalog" /\ CatalogDesk
             \/ desk = "uploads" /\ UploadsDesk
             \/ desk = "briefs" /\ BriefsDesk
       \/ /\ desk = "understanding" /\ UnderstandingDesk
          /\ UNCHANGED <<contentVars, trackingVars>>

MCSpec == MCInit /\ [][MCNext]_<<trackedRows, understandingVars, desk>>

---------------------------------------------------------------------------
HierarchyEffort ==
    Ruled(concept, {"DEPRECATED"}) + Ruled(relation, Statuses)
      + 2 * Ruled(relation, {"REJECTED", "DEPRECATED"})
NamesEffort ==
    Ruled(concept, Statuses) + Ruled(concept, {"REJECTED", "DEPRECATED"})
      + 3 * Ruled(evidence, Statuses) + 2 * Len(alias) + 2 * Cardinality(DOMAIN relation)
      + Cardinality(attaching)
BriefEffort ==
    3 * (campaign.version - 1) + 3 * (product[p1].version - 1)
      + brief[1].version + Cardinality(brief[1].content.links.concepts)
      + (IF ~Taken(2) THEN 0 ELSE IF brief[2].of = 0 THEN 4 + brief[2].version
                             ELSE 2 + brief[2].version - brief[1].version)
      + Cardinality(inputs) + Cardinality(found) + (IF asset[u1].status = "ARCHIVED" THEN 1 ELSE 0)
      + 2 * Cardinality(asset[u1].products) + 2 * Ruled(concept, {"DEPRECATED"})
ContentEffort ==
    2 * (brief[1].version - 1) + 2 * Cardinality(DOMAIN genJob)
      + Len(master) + Len(variant) + 2 * Cardinality(deciding)
LinkEffort ==
    (brief[1].version - 1) + 2 * (product[p1].version - 1) + 2 * (Len(variant) - 1)
      + Cardinality(DOMAIN link) + Cardinality(DOMAIN short) + Cardinality(click)
      + 3 * (Cardinality(visit) \div 2) + Cardinality(found)
BoundedEffort ==
    CASE desk = "hierarchy" -> HierarchyEffort <= 3
      [] desk = "names" -> NamesEffort <= 6
      [] desk = "catalog" -> product[p1].version <= 3 /\ product[p2].version = 0
      [] desk = "briefs" -> BriefEffort <= MaxEffort
      [] desk = "contents" -> ContentEffort <= MaxEffort
      [] desk = "links" -> LinkEffort <= 5
      [] OTHER -> TRUE

=============================================================================
