------------------------------ MODULE Workspace ------------------------------
(* One organization's workspace: what is made of its briefs (Tracking), and  *)
(* the understanding of its assets.  They share no variable: a reader's      *)
(* job is about a fixed asset, and what a document says is any set of facts. *)
EXTENDS Tracking, Understanding

trackedRows ==
    <<graphVars, catalogVars, assetVars, briefVars, contentVars, trackingVars>>

StudiedInit == TrackedInit /\ UnderstandingInit
StudiedNext ==
    \/ TrackedNext /\ UNCHANGED understandingVars
    \/ UnderstandingNext /\ UNCHANGED trackedRows
StudiedSpec == StudiedInit /\ [][StudiedNext]_<<trackedRows, understandingVars>>

(* Types, and that what a row names exists and may be named by its owner:    *)
(* concepts and documents, jobs and contents, links and tasks.               *)
WorkspaceTypeOK ==
    KnowledgeTypeOK /\ CatalogTypeOK /\ AssetsTypeOK /\ BriefsTypeOK
    /\ ContentTypeOK /\ TrackingTypeOK /\ UnderstandingTypeOK
=============================================================================
