----------------------------- MODULE Knowledge ------------------------------
(*****************************************************************************)
(* The knowledge graph (apps/knowledge): concepts, the evidence they cite,   *)
(* their names (aliases) and the relations between them, suggested by        *)
(* organizations, reviewed, and installed by the seed command.               *)
(*                                                                           *)
(* A row belongs to an organization or to SYSTEM, which everybody sees.      *)
(* The key of a concept (owner, type, code) never changes, so owner and      *)
(* type are constants here.  Versions count reviews and are left out, and    *)
(* with them SUBMIT, which changes nothing else.                             *)
(*****************************************************************************)
EXTENDS Naturals, Sequences, FiniteSets

CONSTANTS Orgs, SYSTEM,
          Concepts, ConceptOwner, ConceptType,   \* keys of concepts
          Evidence, EvidenceOwner,               \* the documents one may cite
          Words,                                 \* normalized names, one language
          UsedPredicates,                        \* the predicates users choose from
          SeedConcepts, SeedName, SeedRelations, \* what the seed command installs
          MaxAliases, MaxRelations               \* bounds on the rows

Owners == Orgs \cup {SYSTEM}
ConceptTypes == {"PRODUCT_TYPE", "PARAMETER", "MATERIAL", "PROCESS", "STANDARD",
                 "APPLICATION", "INDUSTRY", "CUSTOMER_TYPE", "PURCHASE_INTENT"}

ASSUME KnowledgeAssumption ==
    /\ SYSTEM \notin Orgs
    /\ ConceptOwner \in [Concepts -> Owners] /\ ConceptType \in [Concepts -> ConceptTypes]
    /\ EvidenceOwner \in [Evidence -> Owners]
    /\ SeedConcepts \subseteq {c \in Concepts : ConceptOwner[c] = SYSTEM}
    /\ IsFiniteSet(DOMAIN SeedName) /\ DOMAIN SeedName \subseteq Words
    /\ \A w \in DOMAIN SeedName : SeedName[w] \in SeedConcepts
    /\ SeedRelations \subseteq [owner: {SYSTEM}, subject: SeedConcepts,
                                predicate: UsedPredicates \ {"IS_A"}, object: SeedConcepts]
    /\ MaxAliases \in Nat /\ MaxRelations \in Nat

VARIABLES concept,   \* status of each concept's row
          evidence,  \* status of each evidence's row
          alias,     \* KnowledgeAlias rows, in the order they were created
          relation,  \* KnowledgeRelation rows, by key
          cites,     \* the evidence each concept and relation is linked to
          attaching  \* rows created, their evidence not yet attached

graphVars == <<concept, evidence, alias, relation, cites, attaching>>

---------------------------------------------------------------------------
(* Rows.  Definitions named *_mut are plausible mistakes in the definition   *)
(* that follows them; the specification uses none of them.                   *)

Statuses == {"SUGGESTED", "APPROVED", "REJECTED", "DEPRECATED"}
AliasRow == [owner: Owners, of: Concepts, word: Words, status: Statuses]
RelationKey == [owner: Owners, subject: Concepts, predicate: UsedPredicates, object: Concepts]

Stored(c) == concept[c] # "none"
ConceptKey(c) == [concept |-> c]
VisibleTo(owner, g) == owner \in {SYSTEM, g}
SeenBy(g) == {c \in Concepts : Stored(c) /\ VisibleTo(ConceptOwner[c], g)}

(* Review: what each decision starts from and leads to. *)
From == [APPROVE |-> "SUGGESTED", REJECT |-> "SUGGESTED", DEPRECATE |-> "APPROVED"]
To == [APPROVE |-> "APPROVED", REJECT |-> "REJECTED", DEPRECATE |-> "DEPRECATED"]
Decisions == DOMAIN From

(* Which types a predicate relates. *)
Types(predicate) ==
    CASE predicate = "IS_A" -> [subject |-> ConceptTypes, object |-> ConceptTypes]
      [] predicate = "APPLIES_TO" ->
            [subject |-> {"PRODUCT_TYPE"}, object |-> {"APPLICATION", "INDUSTRY"}]
      [] predicate = "USES_MATERIAL" -> [subject |-> {"PRODUCT_TYPE"}, object |-> {"MATERIAL"}]
      [] predicate = "REQUIRES_PROCESS" -> [subject |-> {"PRODUCT_TYPE"}, object |-> {"PROCESS"}]
      [] predicate = "COMPLIES_WITH" ->
            [subject |-> {"PRODUCT_TYPE", "PROCESS"}, object |-> {"STANDARD"}]
      [] predicate = "RELEVANT_TO_CUSTOMER_TYPE" ->
            [subject |-> {"PRODUCT_TYPE", "APPLICATION", "INDUSTRY"}, object |-> {"CUSTOMER_TYPE"}]
      [] predicate = "INDICATES_PURCHASE_INTENT" ->
            [subject |-> {"APPLICATION", "INDUSTRY", "CUSTOMER_TYPE", "PURCHASE_INTENT"},
             object |-> {"PURCHASE_INTENT"}]
      [] predicate = "REQUIRES_PARAMETER" -> [subject |-> {"PRODUCT_TYPE"}, object |-> {"PARAMETER"}]
TypesFit(k) ==
    /\ ConceptType[k.subject] \in Types(k.predicate).subject
    /\ ConceptType[k.object] \in Types(k.predicate).object
    /\ k.predicate = "IS_A" => ConceptType[k.subject] = ConceptType[k.object]

(* The IS_A edges that overlay v sees: SYSTEM's and its own, but those       *)
(* that were rejected or deprecated.                                         *)
Edges(v, except) ==
    {k \in DOMAIN relation \ except :
        /\ k.predicate = "IS_A" /\ k.owner \in {SYSTEM, v}
        /\ relation[k] \notin {"REJECTED", "DEPRECATED"}}

Overlays_mut(owner) == {owner}
Overlays(owner) ==
    IF owner # SYSTEM THEN {owner}
    ELSE {SYSTEM} \cup {k.owner : k \in {e \in DOMAIN relation : e.predicate = "IS_A"}}

(* The walk from k.object reaches k.subject: it is in every set of concepts  *)
(* that holds k.object and that no edge leaves.                              *)
Leaves(edges, S) == \E e \in edges : e.subject \in S /\ e.object \notin S
Closes(edges, k) ==
    \A S \in SUBSET Concepts : k.object \in S /\ ~Leaves(edges, S) => k.subject \in S
ClosesCycle(k) ==
    k.predicate = "IS_A" /\ \E v \in Overlays(k.owner) : Closes(Edges(v, {k}), k)

KnowledgeInit ==
    /\ concept = [c \in Concepts |-> "none"]
    /\ evidence = [e \in Evidence |-> "none"]
    /\ alias = <<>>
    /\ relation = <<>>
    /\ cites = <<>>
    /\ attaching = {}

---------------------------------------------------------------------------
(* Suggestions.  The row and its evidence are two transactions.            *)

CitableBy(owner, g) ==
    {e \in Evidence : evidence[e] # "none" /\ VisibleTo(EvidenceOwner[e], IF owner = SYSTEM THEN SYSTEM ELSE g)}

Promise(of, docs) ==
    attaching' = IF docs = {} THEN attaching ELSE attaching \cup {[of |-> of, docs |-> docs]}

CreateConcept(c) ==
    /\ ~Stored(c)
    /\ concept' = [concept EXCEPT ![c] = "SUGGESTED"]
    /\ \E docs \in SUBSET CitableBy(ConceptOwner[c], ConceptOwner[c]) : Promise(ConceptKey(c), docs)
    /\ UNCHANGED <<evidence, alias, relation, cites>>

CreateEvidence(e) ==
    /\ evidence[e] = "none"
    /\ evidence' = [evidence EXCEPT ![e] = "SUGGESTED"]
    /\ UNCHANGED <<concept, alias, relation, cites, attaching>>

(* A manager of SYSTEM knowledge may give a SYSTEM concept a SYSTEM name.  *)
CreateAlias(g, c, w) ==
    /\ c \in SeenBy(g) /\ Len(alias) < MaxAliases
    /\ \E owner \in {g} \cup (IF ConceptOwner[c] = SYSTEM THEN {SYSTEM} ELSE {}) :
          alias' = Append(alias, [owner |-> owner, of |-> c, word |-> w, status |-> "SUGGESTED"])
    /\ UNCHANGED <<concept, evidence, relation, cites, attaching>>

(* A relation is proposed between concepts its organization sees. *)
Proposals(g) == [owner: {SYSTEM, g}, subject: SeenBy(g), predicate: UsedPredicates,
                 object: SeenBy(g)]
With(rows, k, row) == [j \in DOMAIN rows \cup {k} |-> IF j = k THEN row ELSE rows[j]]

RelationAllowed_mut(k) ==
    /\ TypesFit(k) /\ k.subject # k.object
    /\ k \notin DOMAIN relation /\ ~ClosesCycle(k)
RelationAllowed(k) ==
    /\ k.owner = SYSTEM =>
          ConceptOwner[k.subject] = SYSTEM /\ ConceptOwner[k.object] = SYSTEM
    /\ TypesFit(k) /\ k.subject # k.object
    /\ k \notin DOMAIN relation /\ ~ClosesCycle(k)

CreateRelation(g, k) ==
    /\ Cardinality(DOMAIN relation) < MaxRelations
    /\ RelationAllowed(k)
    /\ relation' = With(relation, k, "SUGGESTED")
    /\ \E docs \in SUBSET CitableBy(k.owner, g) : Promise(k, docs)
    /\ UNCHANGED <<concept, evidence, alias, cites>>

AttachEvidence(p) ==
    /\ p \in attaching
    /\ cites' = With(cites, p.of, p.docs)
    /\ attaching' = attaching \ {p}
    /\ UNCHANGED <<concept, evidence, alias, relation>>

(* The process dies between the two transactions. *)
CreatorDies(p) ==
    /\ p \in attaching
    /\ attaching' = attaching \ {p}
    /\ UNCHANGED <<concept, evidence, alias, relation, cites>>

---------------------------------------------------------------------------
(* Review, under the graph lock: one decision at a time. *)

ReviewConcept(c, d) ==
    /\ concept[c] = From[d]
    /\ concept' = [concept EXCEPT ![c] = To[d]]
    /\ UNCHANGED <<evidence, alias, relation, cites, attaching>>

ReviewEvidence(e, d) ==
    /\ evidence[e] = From[d]
    /\ evidence' = [evidence EXCEPT ![e] = To[d]]
    /\ UNCHANGED <<concept, alias, relation, cites, attaching>>

(* One approved alias per owner and word: the database refuses the second. *)
NameTaken(owner, w) ==
    \E i \in DOMAIN alias :
       alias[i].owner = owner /\ alias[i].word = w /\ alias[i].status = "APPROVED"

ReviewAlias(i, d) ==
    /\ alias[i].status = From[d]
    /\ d = "APPROVE" => ~NameTaken(alias[i].owner, alias[i].word)
    /\ alias' = [alias EXCEPT ![i].status = To[d]]
    /\ UNCHANGED <<concept, evidence, relation, cites, attaching>>

(* The save validates the relation again, its cycle included. *)
ReviewRelation(k, d) ==
    /\ k \in DOMAIN relation /\ relation[k] = From[d]
    /\ ~ClosesCycle(k)
    /\ relation' = [relation EXCEPT ![k] = To[d]]
    /\ UNCHANGED <<concept, evidence, alias, cites, attaching>>

---------------------------------------------------------------------------
(* The seed command: one transaction, repeated at will.  What it installs    *)
(* is APPROVED afterwards, whatever a review had decided.  A name that one   *)
(* SYSTEM alias has keeps that alias's concept; two such aliases fail the    *)
(* command, which rolls back.                                                *)

Named(w) == {i \in DOMAIN alias : alias[i].owner = SYSTEM /\ alias[i].word = w}
NewNames == {w \in DOMAIN SeedName : Named(w) = {}}

SeededAlias(w) == [owner |-> SYSTEM, of |-> SeedName[w], word |-> w, status |-> "APPROVED"]

Seed ==
    /\ \A w \in DOMAIN SeedName : Cardinality(Named(w)) <= 1
    /\ Len(alias) + Cardinality(NewNames) <= MaxAliases
    /\ concept' = [c \in Concepts |-> IF c \in SeedConcepts THEN "APPROVED" ELSE concept[c]]
    /\ \E order \in [1..Cardinality(NewNames) -> NewNames] :
          /\ {order[i] : i \in DOMAIN order} = NewNames
          /\ alias' = [i \in DOMAIN alias |->
                         IF alias[i].owner = SYSTEM /\ alias[i].word \in DOMAIN SeedName
                         THEN [alias[i] EXCEPT !.status = "APPROVED"] ELSE alias[i]]
                      \o [i \in DOMAIN order |-> SeededAlias(order[i])]
    /\ relation' = [k \in DOMAIN relation \cup SeedRelations |->
                      IF k \in SeedRelations THEN "APPROVED" ELSE relation[k]]
    /\ UNCHANGED <<evidence, cites, attaching>>

---------------------------------------------------------------------------
(* Reading the graph *)

Approved(g) == {c \in SeenBy(g) : concept[c] = "APPROVED"}

(* expand_concepts: breadth first over approved relations, at most twice.  *)
Follow_mut(g, frontier) ==
    {k \in DOMAIN relation :
        /\ VisibleTo(k.owner, g) /\ relation[k] = "APPROVED"
        /\ k.subject \in frontier /\ VisibleTo(ConceptOwner[k.object], g)}
Follow(g, frontier) ==
    {k \in DOMAIN relation :
        /\ VisibleTo(k.owner, g) /\ relation[k] = "APPROVED"
        /\ k.subject \in frontier
        /\ concept[k.object] = "APPROVED" /\ VisibleTo(ConceptOwner[k.object], g)}

Expand(g, roots, depth) ==
    LET start == roots \cap Approved(g)
        round[n \in 0..depth] ==
          IF n = 0 THEN [concepts |-> start, relations |-> {}, frontier |-> start]
          ELSE LET before == round[n - 1]
                   found == Follow(g, before.frontier)
                   objects == {k.object : k \in found}
               IN [concepts |-> before.concepts \cup objects,
                   relations |-> before.relations \cup found,
                   frontier |-> objects \ before.concepts]
    IN round[depth]

---------------------------------------------------------------------------
ReviewStep ==
    \E d \in Decisions :
       \/ \E c \in Concepts : ReviewConcept(c, d)
       \/ \E k \in DOMAIN relation : ReviewRelation(k, d)
       \/ \E e \in Evidence : ReviewEvidence(e, d)
       \/ \E i \in DOMAIN alias : ReviewAlias(i, d)

RelateStep == \E g \in Orgs : \E k \in Proposals(g) : CreateRelation(g, k)

SuggestStep ==
    \/ \E c \in Concepts : CreateConcept(c)
    \/ \E e \in Evidence : CreateEvidence(e)
    \/ \E g \in Orgs, c \in Concepts, w \in Words : CreateAlias(g, c, w)
    \/ \E p \in attaching : AttachEvidence(p) \/ CreatorDies(p)
    \/ Seed

KnowledgeNext == ReviewStep \/ RelateStep \/ SuggestStep

---------------------------------------------------------------------------
(* Properties *)

(* The types, and who may refer to whom: a row of SYSTEM refers to SYSTEM    *)
(* rows only, a row of an organization to SYSTEM's or its own, so nothing    *)
(* an organization sees leads into another one.                              *)
MayReferTo(owner, other) == other \in {SYSTEM, owner}
KnowledgeTypeOK ==
    /\ concept \in [Concepts -> Statuses \cup {"none"}]
    /\ evidence \in [Evidence -> Statuses \cup {"none"}]
    /\ alias \in Seq(AliasRow) /\ Len(alias) <= MaxAliases
    /\ DOMAIN relation \subseteq RelationKey
    /\ \A k \in DOMAIN relation : relation[k] \in Statuses
    /\ \A i \in DOMAIN alias : MayReferTo(alias[i].owner, ConceptOwner[alias[i].of])
    /\ \A k \in DOMAIN relation :
          /\ MayReferTo(k.owner, ConceptOwner[k.subject])
          /\ MayReferTo(k.owner, ConceptOwner[k.object])
    /\ \A k \in DOMAIN relation \cap DOMAIN cites : \A e \in cites[k] :
          MayReferTo(k.owner, EvidenceOwner[e])
    /\ \A c \in {x \in Concepts : ConceptKey(x) \in DOMAIN cites} : \A e \in cites[ConceptKey(c)] :
          MayReferTo(ConceptOwner[c], EvidenceOwner[e])

(* Whoever adds an IS_A relation, SYSTEM or one organization, no overlay     *)
(* (SYSTEM's relations with those of any one organization) ever holds a      *)
(* cycle: every set of concepts has one with no edge back into the set.      *)
HierarchyIsAcyclic ==
    \A v \in Owners : \A S \in (SUBSET {k.subject : k \in Edges(v, {})}) \ {{}} :
       \E c \in S : \A k \in Edges(v, {}) : k.subject = c => k.object \notin S

(* The breadth-first expansion finds the approved concepts at most two       *)
(* approved relations away from the approved roots, the relations that       *)
(* leave those nearer than that, and nothing another organization owns.      *)
Steps(g) ==
    {k \in DOMAIN relation : VisibleTo(k.owner, g) /\ relation[k] = "APPROVED"
                             /\ k.object \in Approved(g)}
Near(steps, from) == from \cup {k.object : k \in {x \in steps : x.subject \in from}}
SnapshotIsTheNeighbourhood ==
    \A g \in Orgs :
       LET approved == Approved(g)
           steps == Steps(g)
       IN \A roots \in SUBSET {k.subject : k \in DOMAIN relation} :
             LET near == Near(steps, roots \cap approved)
             IN Expand(g, roots, 2) =
                  [concepts |-> Near(steps, near),
                   relations |-> {k \in steps : k.subject \in near},
                   frontier |-> Near(steps, near) \ near]

=============================================================================
