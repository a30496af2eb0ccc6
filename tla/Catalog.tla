------------------------------- MODULE Catalog -------------------------------
(*****************************************************************************)
(* The product catalog (apps/catalog) of one organization: products, the     *)
(* approved concepts they are linked to, and edits under If-Match.           *)
(*                                                                           *)
(* A patch locks the row, compares the version the client sends with the     *)
(* row's and writes the row under the next version, in one transaction.      *)
(* Retired links stay in the table and are never read; only the active       *)
(* ones are state here.  The values of a product are one text.               *)
(*****************************************************************************)
EXTENDS Knowledge

CONSTANTS Tenant,      \* the organization
          Products,
          Texts,       \* values of a product or campaign
          MaxVersion   \* bound on the edits of a row

ASSUME CatalogAssumption == Tenant \in Orgs /\ Texts # {} /\ MaxVersion \in Nat \ {0}

VARIABLES product,  \* Product rows with their active concept links
          copy      \* what some client last read of each product, with its ETag

catalogVars == <<product, copy>>

(* ROLE_CONCEPT_TYPES *)
RoleTypes ==
    [TYPE |-> {"PRODUCT_TYPE"}, MATERIAL |-> {"MATERIAL"}, PROCESS |-> {"PROCESS"},
     STANDARD |-> {"STANDARD"}, APPLICATION |-> {"APPLICATION", "INDUSTRY"},
     PARAMETER |-> {"PARAMETER"}]
ProductLinks == {l \in [role: DOMAIN RoleTypes, concept: Concepts] :
                    ConceptType[l.concept] \in RoleTypes[l.role]}

ProductRow == [status: {"none", "DRAFT", "ACTIVE", "ARCHIVED"}, version: 0..MaxVersion,
               text: Texts, links: SUBSET ProductLinks]
ProductStatuses == {"DRAFT", "ACTIVE", "ARCHIVED"}
NoProduct == [status |-> "none", version |-> 0, text |-> CHOOSE t \in Texts : TRUE, links |-> {}]

(* A concept the organization may still use *)
Usable(c) == concept[c] = "APPROVED" /\ VisibleTo(ConceptOwner[c], Tenant)

CatalogInit ==
    /\ product = [p \in Products |-> NoProduct]
    /\ copy = product

---------------------------------------------------------------------------
CreateProduct(p) ==
    /\ product[p].status = "none"
    /\ \E status \in ProductStatuses, text \in Texts, links \in SUBSET ProductLinks :
          /\ status = "ARCHIVED" => links = {}
          /\ \A l \in links : Usable(l.concept)
          /\ product' = [product EXCEPT ![p] =
                 [status |-> status, version |-> 1, text |-> text, links |-> links]]
    /\ UNCHANGED copy

ReadProduct(p) ==
    /\ product[p].status # "none"
    /\ copy' = [copy EXCEPT ![p] = product[p]]
    /\ UNCHANGED product

(* replace_product_links: every link is validated again, kept ones too.    *)
LinksReplaced(p, status, links) ==
    \/ links = product[p].links
    \/ /\ "ARCHIVED" \notin {product[p].status, status}
       /\ \A l \in links : Usable(l.concept)

(* The client may have read the product just now, or a while ago.          *)
PatchProduct_mut(p) ==
    \E expected \in {copy[p].version, product[p].version},
       status \in ProductStatuses, text \in Texts, links \in SUBSET ProductLinks :
       /\ product[p].status # "none" /\ product[p].version < MaxVersion
       /\ expected = product[p].version
       /\ LinksReplaced(p, status, links)
       /\ product' = [product EXCEPT ![p] =
              [status |-> status, text |-> text, links |-> links,
               version |-> IF status = @.status /\ text = @.text THEN @.version ELSE @.version + 1]]
       /\ UNCHANGED copy
PatchProduct(p) ==
    \E expected \in {copy[p].version, product[p].version},
       status \in ProductStatuses, text \in Texts, links \in SUBSET ProductLinks :
       /\ product[p].status # "none" /\ product[p].version < MaxVersion
       /\ expected = product[p].version
       /\ LinksReplaced(p, status, links)
       /\ product' = [product EXCEPT ![p] =
              [status |-> status, version |-> @.version + 1, text |-> text, links |-> links]]
       /\ UNCHANGED copy

CatalogStep == \E p \in Products : CreateProduct(p) \/ ReadProduct(p) \/ PatchProduct(p)
CatalogNext == CatalogStep /\ UNCHANGED graphVars

---------------------------------------------------------------------------
CatalogTypeOK == product \in [Products -> ProductRow] /\ copy \in [Products -> ProductRow]
=============================================================================
