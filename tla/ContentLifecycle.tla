-------------------------- MODULE ContentLifecycle --------------------------
(*****************************************************************************)
(* The contents made from a brief (apps/content): a job writes a master,     *)
(* people revise and review it, an approved master is adapted to the         *)
(* platforms the brief selected, and an approved platform content becomes    *)
(* a channel package for publishing by hand (apps/growth/services).          *)
(*                                                                           *)
(* Every operation reads the row again under its lock and starts by asking   *)
(* whether it is consistent; an inconsistent row is not even shown.  A       *)
(* review locks nothing but the row, and reads the brief as it finds it; a   *)
(* revision, an adaptation and a package lock the brief with the row         *)
(* (select_for_update over the select_related rows) and are one step here.   *)
(* A payload is what its version says; ContentGeneration has the job's run.  *)
(*****************************************************************************)
EXTENDS Briefs

CONSTANTS Platforms,     \* platforms of the installation
          Selected,      \* those that the briefs select
          MaxMasters,    \* bound on the MasterContent rows
          MaxContents    \* bound on the PlatformContent rows

ASSUME ContentAssumption ==
    Selected \subseteq Platforms /\ MaxMasters \in Nat /\ MaxContents \in Nat

VARIABLES genJob,     \* CONTENT_GENERATE jobs, by the brief and version in their key
          asked,      \* POSTs that read the brief and have made no job yet
          master,     \* MasterContent rows, by order of creation
          variant,    \* PlatformContent rows, by order of creation
          deciding,   \* reviews that found their content in order, and hold its row
          package     \* ChannelPackage rows, by their platform content

contentVars == <<genJob, asked, master, variant, deciding, package>>

MasterStatus == {"DRAFT", "IN_REVIEW", "APPROVED", "REJECTED", "ARCHIVED"}
VariantStatus == MasterStatus \cup {"PUBLISHED"}
JobKey == BriefIds \X (1..MaxVersion)
MasterRow == [job: JobKey, version: 1..MaxVersion, number: 1..MaxMasters,
              previous: 0..MaxMasters, status: MasterStatus, from: MasterStatus \cup {""}]
VariantRow == [master: 1..MaxMasters, platform: Platforms, number: 1..MaxContents,
               previous: 0..MaxContents, status: VariantStatus]

Masters == DOMAIN master
Variants == DOMAIN variant
MasterHead(m) == \A n \in Masters : master[n].previous # m
VariantHead(c) == \A d \in Variants : variant[d].previous # c

(* content_is_consistent: what may change behind a content is the version    *)
(* of its brief and the status of its job.                                   *)
MasterConsistent(m) ==
    /\ brief[master[m].job[1]].version = master[m].version
    /\ genJob[master[m].job].status = "SUCCEEDED"
Consistent(c) == variant[c].platform \in Selected /\ MasterConsistent(variant[c].master)

ContentInit ==
    /\ genJob = <<>> /\ asked = {} /\ master = <<>> /\ variant = <<>>
    /\ deciding = {} /\ package = <<>>

---------------------------------------------------------------------------
(* Generation *)

(* GenerateMasterView reads the brief without a lock; the key of the job     *)
(* has the version it read, the input the one it is built from.              *)
AskForMaster(b) ==
    /\ Taken(b) /\ brief[b].status = "READY"
    /\ asked' = asked \cup {<<b, brief[b].version>>}
    /\ UNCHANGED <<genJob, master, variant, deciding, package>> /\ UNCHANGED briefVars

CreateGenerationJob(key) ==
    /\ key \in asked /\ asked' = asked \ {key}
    /\ IF key \in DOMAIN genJob
       THEN UNCHANGED genJob /\ UNCHANGED briefVars
       ELSE /\ BuildInput(key[1])
            /\ genJob' = With(genJob, key, [status |-> "RUNNING", version |-> brief[key[1]].version])
    /\ UNCHANGED <<master, variant, deciding, package>>

(* finalize_master_result: the generated master is approved at once.  The    *)
(* brief is not locked either; archived before the insert it leaves the      *)
(* rows that it leaves when it is archived right after.                      *)
WriteMaster(key) ==
    LET b == key[1] IN
    /\ genJob[key].status = "RUNNING" /\ Len(master) < MaxMasters
    /\ IF brief[b].status = "READY" /\ brief[b].version = genJob[key].version
       THEN /\ master' = Append(master, [job |-> key, version |-> brief[b].version, number |-> 1,
                                         previous |-> 0, status |-> "APPROVED", from |-> ""])
            /\ genJob' = [genJob EXCEPT ![key].status = "WRITTEN"]
       ELSE /\ genJob' = [genJob EXCEPT ![key].status = "FAILED"] /\ UNCHANGED master
    /\ UNCHANGED <<asked, variant, deciding, package>> /\ UNCHANGED briefVars

(* The job completes in a transaction of its own, unless it was reaped.    *)
EndJob(key) ==
    /\ genJob[key].status = "WRITTEN"
    /\ \E s \in {"SUCCEEDED", "FAILED"} : genJob' = [genJob EXCEPT ![key].status = s]
    /\ UNCHANGED <<asked, master, variant, deciding, package>> /\ UNCHANGED briefVars

---------------------------------------------------------------------------
(* Review *)

(* MASTER_TRANSITIONS and what PLATFORM_TRANSITIONS adds                   *)
Review(status, action) ==
    CASE status = "DRAFT" /\ action = "SUBMIT" -> {"IN_REVIEW"}
      [] status = "IN_REVIEW" /\ action = "APPROVE" -> {"APPROVED"}
      [] status = "IN_REVIEW" /\ action = "REJECT" -> {"REJECTED"}
      [] status # "ARCHIVED" /\ action = "ARCHIVE" -> {"ARCHIVED"}
      [] status = "APPROVED" /\ action = "PUBLISH" -> {"PUBLISHED"}
      [] OTHER -> {}
Actions == {"SUBMIT", "APPROVE", "REJECT", "ARCHIVE"}

NeedsHead_mut(action) == action \in {"SUBMIT", "REJECT", "PUBLISH"}
NeedsHead(action) == action \notin {"ARCHIVE", "RESTORE"}

(* transition_content and restore_master_content: the row is locked and      *)
(* found in order, then written.  The brief is not locked: it may be         *)
(* archived or restored between the two steps.                               *)
Reviewing == [kind: {"master"}, row: Masters, action: Actions \cup {"RESTORE"}]
               \cup [kind: {"variant"}, row: Variants, action: Actions \cup {"PUBLISH"}]
Locked(kind, n) == \E d \in deciding : d.kind = kind /\ d.row = n
Decide(kind, n, action) ==
    /\ ~Locked(kind, n)
    /\ deciding' = deciding \cup {[kind |-> kind, row |-> n, action |-> action]}
    /\ UNCHANGED <<genJob, asked, master, variant, package>>
Decided(kind, n, action) ==
    /\ [kind |-> kind, row |-> n, action |-> action] \in deciding
    /\ deciding' = deciding \ {[kind |-> kind, row |-> n, action |-> action]}

DecideMaster(m, action) ==
    /\ MasterConsistent(m) /\ (NeedsHead(action) => MasterHead(m))
    /\ IF action = "RESTORE" THEN master[m].status = "ARCHIVED"
                             ELSE Review(master[m].status, action) # {}
    /\ Decide("master", m, action)

ReviewMaster(m, action) ==
    /\ Decided("master", m, action)
    /\ \E s \in Review(master[m].status, action) :
          master' = [master EXCEPT ![m].status = s,
                                   ![m].from = IF s = "ARCHIVED" THEN master[m].status ELSE @]
    /\ UNCHANGED <<genJob, asked, variant, package>>

RestoreMaster(m) ==
    /\ Decided("master", m, "RESTORE")
    /\ master' = [master EXCEPT ![m].status = master[m].from, ![m].from = ""]
    /\ UNCHANGED <<genJob, asked, variant, package>>

(* On a platform content; PUBLISH is the publish task's.                     *)
DecideVariant(c, action) ==
    /\ Consistent(c) /\ (NeedsHead(action) => VariantHead(c))
    /\ Review(variant[c].status, action) # {}
    /\ Decide("variant", c, action)
Transits(c, action) ==
    /\ Decided("variant", c, action)
    /\ \E s \in Review(variant[c].status, action) :
          variant' = [variant EXCEPT ![c].status = s]

(* An approved one gets its package at once, best effort: the content is     *)
(* asked again, with its brief.                                              *)
Packaged(c) ==
    package' = IF c \in DOMAIN package THEN package ELSE With(package, c, "AWAITING_REVIEW")
ReviewVariant_mut(c, action) ==
    /\ Transits(c, action)
    /\ (Consistent(c) /\ Packaged(c)) \/ UNCHANGED package
    /\ UNCHANGED <<genJob, asked, master>>
ReviewVariant(c, action) ==
    /\ Transits(c, action)
    /\ (action = "APPROVE" /\ Consistent(c) /\ Packaged(c)) \/ UNCHANGED package
    /\ UNCHANGED <<genJob, asked, master>>

---------------------------------------------------------------------------
(* Versions *)

ReviseMaster(m) ==
    /\ ~Locked("master", m) /\ MasterConsistent(m)
    /\ master[m].status # "ARCHIVED" /\ MasterHead(m)
    /\ Len(master) < MaxMasters
    /\ master' = Append(master, [master[m] EXCEPT !.number = @ + 1, !.previous = m,
                                                  !.status = "DRAFT"])
    /\ UNCHANGED <<genJob, asked, variant, deciding, package>>

(* create_platform_content; a variant that exists is returned.             *)
AdaptMaster(m, platform) ==
    /\ ~Locked("master", m) /\ MasterConsistent(m)
    /\ master[m].status = "APPROVED" /\ MasterHead(m)
    /\ platform \in Selected /\ Len(variant) < MaxContents
    /\ \A c \in Variants : <<variant[c].master, variant[c].platform>> # <<m, platform>>
    /\ variant' = Append(variant, [master |-> m, platform |-> platform, number |-> 1,
                                   previous |-> 0, status |-> "IN_REVIEW"])
    /\ UNCHANGED <<genJob, asked, master, deciding, package>>

(* The row of its master is locked with that of the variant.               *)
VariantFree(c) == ~Locked("variant", c) /\ ~Locked("master", variant[c].master)
ReviseVariant(c) ==
    /\ VariantFree(c) /\ Consistent(c)
    /\ variant[c].status # "ARCHIVED" /\ VariantHead(c)
    /\ Len(variant) < MaxContents
    /\ variant' = Append(variant, [variant[c] EXCEPT !.number = @ + 1, !.previous = c,
                                                     !.status = "DRAFT"])
    /\ UNCHANGED <<genJob, asked, master, deciding, package>>

---------------------------------------------------------------------------
(* Channel packages *)

PreparePackage(c) ==
    /\ VariantFree(c) /\ variant[c].status = "APPROVED" /\ VariantHead(c) /\ Consistent(c)
    /\ Packaged(c)
    /\ UNCHANGED <<genJob, asked, master, variant, deciding>>

(* Alone or with the other channels': of a row that is there, whatever       *)
(* became of its content.                                                    *)
ApprovePackage(c) ==
    /\ c \in DOMAIN package
    /\ package' = [package EXCEPT ![c] = "APPROVED"]
    /\ UNCHANGED <<genJob, asked, master, variant, deciding>>

GenerationStep ==
    \/ \E b \in BriefIds : AskForMaster(b)
    \/ \E key \in asked : CreateGenerationJob(key)
    \/ \E key \in DOMAIN genJob : WriteMaster(key) \/ EndJob(key)
EditStep ==
    /\ \/ \E m \in Masters :
             \/ RestoreMaster(m) \/ ReviseMaster(m)
             \/ \E action \in Actions \cup {"RESTORE"} : DecideMaster(m, action)
             \/ \E action \in Actions : ReviewMaster(m, action)
             \/ \E platform \in Platforms : AdaptMaster(m, platform)
       \/ \E c \in Variants :
             \/ ReviseVariant(c) \/ PreparePackage(c) \/ ApprovePackage(c)
             \/ \E action \in Actions : DecideVariant(c, action) \/ ReviewVariant(c, action)
    /\ UNCHANGED briefVars
ContentNext ==
    /\ GenerationStep \/ EditStep
    /\ UNCHANGED <<graphVars, catalogVars, assetVars>>

---------------------------------------------------------------------------
(* Properties *)

ContentTypeOK ==
    /\ \A key \in DOMAIN genJob : key \in JobKey
    /\ asked \subseteq JobKey
    /\ master \in Seq(MasterRow) /\ variant \in Seq(VariantRow)
    /\ \A m \in Masters : master[m].status = "ARCHIVED" <=> master[m].from # ""
    /\ deciding \subseteq Reviewing
    /\ DOMAIN package \subseteq Variants

(* What is past stays past, whoever approves, revises and archives at the    *)
(* same time.  A version that was superseded before anyone approved it       *)
(* never becomes approved, published or packaged.  A content that its        *)
(* brief left behind is gone: archiving the brief takes everything           *)
(* generated from it away and restoring the brief does not bring it back.    *)
(* The review or the restore that had read the brief before is still         *)
(* written, once; after that none of it is reviewed, revised or adapted.     *)
PastVersionsStay ==
    [][/\ \A c \in Variants :
            ~VariantHead(c) /\ variant[c].status \in {"DRAFT", "IN_REVIEW", "REJECTED"} =>
               /\ variant'[c].status \in {variant[c].status, "ARCHIVED"}
               /\ c \in DOMAIN package' => c \in DOMAIN package
       /\ \A m \in Masters :
            brief[master[m].job[1]].version # master[m].version =>
               /\ brief'[master[m].job[1]].version # master'[m].version
               /\ master'[m] # master[m] => Locked("master", m) /\ ~Locked("master", m)'
               /\ Locked("master", m)' => Locked("master", m)
               /\ \A n \in Masters' \ Masters : master'[n].previous # m
               /\ \A c \in Variants' \ Variants : variant'[c].master # m
      ]_<<contentVars, brief>>

(* Every package was made of a content that people approved, and of an       *)
(* adaptation of a master that had been approved too.                        *)
PackagesAreReviewed ==
    \A c \in DOMAIN package :
        /\ variant[c].status \in {"APPROVED", "PUBLISHED", "ARCHIVED"}
        /\ master[variant[c].master].status \in {"APPROVED", "ARCHIVED"}
=============================================================================
