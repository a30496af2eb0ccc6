-------------------------------- MODULE Assets --------------------------------
(*****************************************************************************)
(* Material assets (apps/assets/services.py): an upload goes to the object   *)
(* store first and into the database second, and the file that is already    *)
(* there wins.  An upload is also the id of the asset and the key of the     *)
(* object it would create.                                                   *)
(*****************************************************************************)
EXTENDS Catalog

CONSTANTS Uploads,    \* upload requests
          Checksum    \* the checksum of the file each one sends

VARIABLES upload,   \* where each upload request is
          asset,    \* MaterialAsset rows, with their AssetProductLink rows
          objects,  \* keys in the object store
          answer    \* the asset each upload request was answered with

assetVars == <<upload, asset, objects, answer>>

UploadSteps == {"new", "missing", "stored", "refused", "done", "dead"}
AssetRow == [status: {"none", "ACTIVE", "ARCHIVED"}, products: SUBSET Products]
NoAsset == [status |-> "none", products |-> {}]
Exists(u) == asset[u].status # "none"

(* The row of a file; the database allows one.                             *)
RowsOf(sum) == {u \in Uploads : Exists(u) /\ Checksum[u] = sum}

AssetsInit ==
    /\ upload = [u \in Uploads |-> "new"]
    /\ asset = [u \in Uploads |-> NoAsset]
    /\ objects = {}
    /\ answer = [u \in Uploads |-> {}]

Goes(u, step) == upload' = [upload EXCEPT ![u] = step]

---------------------------------------------------------------------------
(* upload_asset *)

UploadRefused(u) ==
    /\ upload[u] = "new"
    /\ Goes(u, "done")
    /\ UNCHANGED <<asset, objects, answer>>

UploadLooksUp(u) ==
    /\ upload[u] = "new"
    /\ IF RowsOf(Checksum[u]) = {}
       THEN Goes(u, "missing") /\ UNCHANGED answer
       ELSE Goes(u, "done") /\ answer' = [answer EXCEPT ![u] = RowsOf(Checksum[u])]
    /\ UNCHANGED <<asset, objects>>

(* A failed put may have left the object, or a part of it, behind.         *)
PutObject(u) ==
    /\ upload[u] = "missing"
    /\ \/ Goes(u, "stored") /\ objects' = objects \cup {u}
       \/ Goes(u, "dead") /\ objects' \in {objects, objects \cup {u}}
    /\ UNCHANGED <<asset, answer>>

CreateAsset(u) ==
    /\ upload[u] = "stored" /\ RowsOf(Checksum[u]) = {}
    /\ asset' = [asset EXCEPT ![u] = [status |-> "ACTIVE", products |-> {}]]
    /\ answer' = [answer EXCEPT ![u] = {u}]
    /\ Goes(u, "done")
    /\ UNCHANGED objects

(* The file is there by now, which answers the request, or the database      *)
(* fails, which does not.                                                    *)
CreateRefused(u) ==
    /\ upload[u] = "stored"
    /\ Goes(u, "refused")
    /\ \E given \in {RowsOf(Checksum[u]), {}} : answer' = [answer EXCEPT ![u] = given]
    /\ UNCHANGED <<asset, objects>>

Discarded_mut(u) == IF answer[u] = {} THEN {u} ELSE answer[u]
Discarded(u) == {u}

(* A delete that fails is logged and forgotten.                            *)
DiscardObject(u) ==
    /\ upload[u] = "refused"
    /\ \/ Goes(u, "done") /\ objects' = objects \ Discarded(u)
       \/ Goes(u, "dead") /\ UNCHANGED objects
    /\ UNCHANGED <<asset, answer>>

UploadDies(u) ==
    /\ upload[u] \in {"missing", "stored", "refused"}
    /\ Goes(u, "dead")
    /\ UNCHANGED <<asset, objects, answer>>

---------------------------------------------------------------------------
SetArchived(u) ==
    /\ Exists(u)
    /\ asset' = [asset EXCEPT ![u].status = IF @ = "ACTIVE" THEN "ARCHIVED" ELSE "ACTIVE"]
    /\ UNCHANGED <<upload, objects, answer>>

LinkAsset(u, p) ==
    /\ asset[u].status = "ACTIVE" /\ product[p].status # "none"
    /\ asset' = [asset EXCEPT ![u].products = @ \cup {p}]
    /\ UNCHANGED <<upload, objects, answer>>

UploadStep ==
    \E u \in Uploads :
       \/ UploadRefused(u) \/ UploadLooksUp(u) \/ PutObject(u) \/ CreateAsset(u)
       \/ CreateRefused(u) \/ DiscardObject(u) \/ UploadDies(u)
ShelfStep == \E u \in Uploads : SetArchived(u) \/ \E p \in Products : LinkAsset(u, p)
AssetsNext == (UploadStep \/ ShelfStep) /\ UNCHANGED <<graphVars, catalogVars>>

---------------------------------------------------------------------------
(* Properties *)

AssetsTypeOK ==
    /\ upload \in [Uploads -> UploadSteps] /\ asset \in [Uploads -> AssetRow]
    /\ objects \subseteq Uploads /\ answer \in [Uploads -> SUBSET Uploads]

(* Whatever uploads of one file race, fail or die, the file gets one asset   *)
(* at most, an asset keeps its original, every upload of the file that is    *)
(* answered is answered with that asset, and an object without an asset is   *)
(* somebody's who is not finished or who died with it.                       *)
AssetsKeepOriginals ==
    /\ \A u \in Uploads : Exists(u) => u \in objects /\ RowsOf(Checksum[u]) = {u}
    /\ \A u \in Uploads : answer[u] \subseteq RowsOf(Checksum[u])
    /\ \A u \in objects : Exists(u) \/ upload[u] \in {"stored", "refused", "dead"}
=============================================================================
