---------------------------- MODULE WorkspaceProofs ----------------------------
(*******************************************************************************)
(* Safety of knowledge, assets, products, briefs, contents, links and asset    *)
(* understanding, for every set of concepts, uploads, tasks and every bound.   *)
(*                                                                             *)
(* None of the properties is inductive.  AssetInv says where an upload must be *)
(* for its object to be there; CatalogInv and BriefInv say that a version that *)
(* somebody holds is never ahead of its row, so that the next version of the   *)
(* row is new to everybody; and BriefInv that what an input was built from is  *)
(* READY, or was when it was archived.  GraphInv has every set of concepts, in *)
(* every overlay, contain one without an edge back into the set; the expansion *)
(* is unfolded round by round.  TrackedInv covers contents and links, and      *)
(* Understanding is a client of the job queue, so that JobInv holds there.     *)
(*******************************************************************************)
EXTENDS Workspace, JobQueueProofs, FiniteSetTheorems, TLAPS

workspaceRows == <<graphVars, catalogVars, assetVars, briefVars>>

-----------------------------------------------------------------------------
(* The knowledge graph *)

\* Every set of concepts has one with no edge back into the set.
Acyclic(edges) ==
  \A S \in SUBSET Concepts : S # {} =>
     \E c \in S : \A k \in edges : k.subject = c => k.object \notin S

GraphInv ==
  /\ DOMAIN relation \subseteq RelationKey
  /\ \A v \in Owners : Acyclic(Edges(v, {}))

LEMMA AcyclicPart ==
  ASSUME NEW edges, NEW part, part \subseteq edges, Acyclic(edges)
  PROVE  Acyclic(part)
BY DEF Acyclic

\* A relation whose walk closes no cycle: the set that the walk stays in divides
\* any cycle the new edge would be part of.
LEMMA AcyclicWithOneMore ==
  ASSUME NEW edges, NEW k, Acyclic(edges), ~Closes(edges, k)
  PROVE  Acyclic(edges \cup {k})
<1>1. PICK W \in SUBSET Concepts : k.object \in W /\ ~Leaves(edges, W) /\ k.subject \notin W
  BY DEF Closes
<1> SUFFICES ASSUME NEW S \in SUBSET Concepts, S # {}
             PROVE  \E c \in S : \A e \in edges \cup {k} : e.subject = c => e.object \notin S
  BY DEF Acyclic
<1>2. CASE S \cap W = {}
  <2>1. PICK c \in S : \A e \in edges : e.subject = c => e.object \notin S
    BY DEF Acyclic
  <2> QED
    BY <1>1, <1>2, <2>1
<1>3. CASE S \cap W # {}
  <2>1. S \cap W \in SUBSET Concepts
    OBVIOUS
  <2>2. PICK c \in S \cap W : \A e \in edges : e.subject = c => e.object \notin S \cap W
    BY <1>3, <2>1 DEF Acyclic
  <2> QED
    BY <1>1, <2>2 DEF Leaves
<1> QED
  BY <1>2, <1>3

LEMMA GraphBegins == KnowledgeInit => GraphInv
<1> SUFFICES ASSUME KnowledgeInit PROVE GraphInv
  OBVIOUS
<1>1. DOMAIN relation = {}
  BY DEF KnowledgeInit
<1>2. \A v \in Owners : Edges(v, {}) = {}
  BY <1>1 DEF Edges
<1> QED
  BY <1>1, <1>2 DEF GraphInv, Acyclic

\* Whoever sees the new relation saw no cycle with it.
LEMMA RelationKeeps ==
  ASSUME GraphInv, NEW g \in Orgs, NEW k \in Proposals(g), CreateRelation(g, k)
  PROVE  GraphInv'
<1>0. k \in RelationKey /\ k \notin DOMAIN relation /\ ~ClosesCycle(k)
  BY DEF Proposals, SeenBy, RelationKey, Owners, CreateRelation, RelationAllowed
<1>1. DOMAIN relation' = DOMAIN relation \cup {k}
      /\ \A j \in DOMAIN relation : relation'[j] = relation[j]
  BY <1>0 DEF CreateRelation, With
<1>2. ASSUME NEW v \in Owners PROVE Acyclic(Edges(v, {})')
  <2>1. Edges(v, {})' \subseteq Edges(v, {}) \cup {k}
    BY <1>1 DEF Edges
  <2>2. CASE k.predicate # "IS_A" \/ k.owner \notin {SYSTEM, v}
    <3>1. Edges(v, {})' \subseteq Edges(v, {})
      BY <1>0, <1>1, <2>2 DEF Edges
    <3> QED
      BY <3>1, AcyclicPart DEF GraphInv
  <2>3. CASE k.predicate = "IS_A" /\ k.owner \in {SYSTEM, v}
    <3>1. PICK w \in Overlays(k.owner) : Edges(v, {}) = Edges(w, {k})
      <4>1. Edges(v, {}) = Edges(v, {k})
        BY <1>0 DEF Edges
      <4>2. CASE v \in Overlays(k.owner)
        BY <4>1, <4>2
      <4>3. CASE v \notin Overlays(k.owner)
        <5>1. k.owner = SYSTEM /\ SYSTEM \in Overlays(k.owner)
          BY <2>3, <4>3 DEF Overlays
        <5>2. \A e \in DOMAIN relation : e.predicate = "IS_A" => e.owner # v
          BY <4>3, <5>1 DEF Overlays
        <5>3. Edges(v, {k}) = Edges(SYSTEM, {k})
          BY <5>2 DEF Edges
        <5> QED
          BY <4>1, <5>1, <5>3
      <4> QED
        BY <4>2, <4>3
    <3>2. ~Closes(Edges(v, {}), k)
      BY <1>0, <2>3, <3>1 DEF ClosesCycle
    <3> QED
      BY <2>1, <3>2, AcyclicWithOneMore, AcyclicPart DEF GraphInv
  <2> QED
    BY <2>2, <2>3
<1> QED
  BY <1>0, <1>1, <1>2 DEF GraphInv

LEMMA ReviewKeepsGraph ==
  ASSUME GraphInv, NEW d \in Decisions, NEW k \in DOMAIN relation, ReviewRelation(k, d)
  PROVE  GraphInv'
<1>1. DOMAIN relation' = DOMAIN relation
      /\ \A j \in DOMAIN relation : j # k => relation'[j] = relation[j]
  BY DEF ReviewRelation
<1>2. relation[k] \notin {"REJECTED", "DEPRECATED"}
  BY DEF ReviewRelation, From, Decisions
<1>3. \A v \in Owners : Edges(v, {})' \subseteq Edges(v, {})
  BY <1>1, <1>2 DEF Edges
<1> QED
  BY <1>1, <1>3, AcyclicPart DEF GraphInv

LEMMA SeedKeepsGraph ==
  ASSUME GraphInv, Seed
  PROVE  GraphInv'
<1>1. /\ SeedRelations \subseteq RelationKey
      /\ \A k \in SeedRelations : k.predicate # "IS_A"
  BY KnowledgeAssumption DEF RelationKey, Owners
<1>2. DOMAIN relation' = DOMAIN relation \cup SeedRelations
      /\ \A k \in DOMAIN relation \ SeedRelations : relation'[k] = relation[k]
  BY DEF Seed
<1>3. \A v \in Owners : Edges(v, {})' \subseteq Edges(v, {})
  BY <1>1, <1>2 DEF Edges
<1> QED
  BY <1>1, <1>2, <1>3, AcyclicPart DEF GraphInv

LEMMA GraphRests == ASSUME GraphInv, UNCHANGED relation PROVE GraphInv'
<1>1. \A v \in Owners : Edges(v, {})' = Edges(v, {})
  BY DEF Edges
<1> QED
  BY <1>1 DEF GraphInv

LEMMA GraphKeeps ==
  ASSUME GraphInv, KnowledgeNext
  PROVE  GraphInv'
<1>1. CASE RelateStep
  BY <1>1, RelationKeeps DEF RelateStep
<1>2. CASE ReviewStep
  <2>1. CASE \E d \in Decisions, k \in DOMAIN relation : ReviewRelation(k, d)
    BY <2>1, ReviewKeepsGraph
  <2>2. CASE UNCHANGED relation
    BY <2>2, GraphRests
  <2> QED
    BY <1>2, <2>1, <2>2 DEF ReviewStep, ReviewConcept, ReviewEvidence, ReviewAlias
<1>3. CASE SuggestStep
  <2>1. CASE Seed
    BY <2>1, SeedKeepsGraph
  <2>2. CASE UNCHANGED relation
    BY <2>2, GraphRests
  <2> QED
    BY <1>3, <2>1, <2>2
       DEF SuggestStep, CreateConcept, CreateEvidence, CreateAlias, AttachEvidence, CreatorDies
<1> QED
  BY <1>1, <1>2, <1>3 DEF KnowledgeNext

LEMMA GraphSafe == WorkspaceSpec => []GraphInv
<1>1. WorkspaceInit => GraphInv
  BY GraphBegins DEF WorkspaceInit
<1>2. GraphInv /\ [WorkspaceNext]_workspaceRows => GraphInv'
  BY GraphKeeps, GraphRests
     DEF WorkspaceNext, CatalogNext, AssetsNext, BriefsNext, workspaceRows, graphVars
<1> QED
  BY <1>1, <1>2, PTL DEF WorkspaceSpec, workspaceRows

\* No sequence of proposals, reviews and seedings, of SYSTEM's or of any number of
\* organizations', closes a cycle of IS_A that anybody sees (graph.py,
\* _reject_cycle_in_overlay).
THEOREM HierarchyIsAlwaysAcyclic == WorkspaceSpec => []HierarchyIsAcyclic
<1>1. GraphInv => HierarchyIsAcyclic
  <2> SUFFICES ASSUME GraphInv, NEW v \in Owners,
                      NEW S \in (SUBSET {k.subject : k \in Edges(v, {})}) \ {{}}
               PROVE  \E c \in S : \A k \in Edges(v, {}) : k.subject = c => k.object \notin S
    BY DEF HierarchyIsAcyclic
  <2>1. {k.subject : k \in Edges(v, {})} \subseteq Concepts
    BY DEF GraphInv, Edges, RelationKey
  <2>2. S \subseteq {k.subject : k \in Edges(v, {})} /\ S # {}
    OBVIOUS
  <2>3. S \in SUBSET Concepts
    BY <2>1, <2>2
  <2> QED
    BY <2>2, <2>3 DEF GraphInv, Acyclic
<1> QED
  BY <1>1, GraphSafe, PTL

\* The rounds of the expansion: what round n + 1 makes of round n.
NextRound(g, before) ==
  LET follows == Follow(g, before.frontier)
      ends == {k.object : k \in follows}
  IN [concepts |-> before.concepts \cup ends,
      relations |-> before.relations \cup follows,
      frontier |-> ends \ before.concepts]

FirstRound(g, roots) ==
  LET start == roots \cap Approved(g)
  IN [concepts |-> start, relations |-> {}, frontier |-> start]

LEMMA TwoRounds ==
  ASSUME NEW g, NEW roots
  PROVE  Expand(g, roots, 2) = NextRound(g, NextRound(g, FirstRound(g, roots)))
<1> DEFINE zero == FirstRound(g, roots)
           one == NextRound(g, zero)
           two == NextRound(g, one)
           Rounds(f) == f = [n \in 0..2 |-> IF n = 0 THEN zero ELSE NextRound(g, f[n - 1])]
           all == CHOOSE f : Rounds(f)
<1>1. Expand(g, roots, 2) = all[2]
  BY DEF Expand, FirstRound, NextRound
<1> HIDE DEF zero
<1>2. Rounds([n \in 0..2 |-> IF n = 0 THEN zero ELSE IF n = 1 THEN one ELSE two])
  OBVIOUS
<1>3. Rounds(all)
  BY <1>2
<1> HIDE DEF all
<1>4. all[0] = zero
  BY <1>3
<1>5. all[1] = one
  BY <1>3, <1>4
<1>6. all[2] = two
  BY <1>3, <1>5
<1> QED
  BY <1>1, <1>6 DEF zero

LEMMA FollowIsSteps ==
  ASSUME GraphInv, NEW g, NEW from
  PROVE  Follow(g, from) = {k \in Steps(g) : k.subject \in from}
<1>1. \A k \in DOMAIN relation : k.object \in Concepts
  BY DEF GraphInv, RelationKey
<1> QED
  BY <1>1 DEF Follow, Steps, Approved, SeenBy, Stored

\* What organizations read of the graph is what two approved relations reach,
\* whatever was proposed, reviewed and seeded before (knowledge/services.py,
\* expand_concepts).
THEOREM SnapshotIsAlwaysTheNeighbourhood == WorkspaceSpec => []SnapshotIsTheNeighbourhood
<1>1. GraphInv => SnapshotIsTheNeighbourhood
  <2> SUFFICES ASSUME GraphInv, NEW g \in Orgs, NEW roots
               PROVE  LET near == Near(Steps(g), roots \cap Approved(g))
                      IN Expand(g, roots, 2) =
                           [concepts |-> Near(Steps(g), near),
                            relations |-> {k \in Steps(g) : k.subject \in near},
                            frontier |-> Near(Steps(g), near) \ near]
    BY DEF SnapshotIsTheNeighbourhood
  <2> DEFINE steps == Steps(g)
             start == roots \cap Approved(g)
             follows == {k \in steps : k.subject \in start}
             near == start \cup {k.object : k \in follows}
             more == {k \in steps : k.subject \in near \ start}
             far == near \cup {k.object : k \in more}
  <2>1. FirstRound(g, roots) = [concepts |-> start, relations |-> {}, frontier |-> start]
    BY DEF FirstRound
  <2>2. NextRound(g, FirstRound(g, roots)) =
          [concepts |-> near, relations |-> follows, frontier |-> near \ start]
    <3>1. Follow(g, start) = follows
      BY FollowIsSteps
    <3>2. {k.object : k \in follows} \ start = near \ start
      OBVIOUS
    <3>3. NextRound(g, FirstRound(g, roots)) =
            [concepts |-> start \cup {k.object : k \in follows}, relations |-> {} \cup follows,
             frontier |-> {k.object : k \in follows} \ start]
      <4> HIDE DEF start, follows
      <4> QED
        BY <2>1, <3>1 DEF NextRound
    <3>4. {} \cup follows = follows
      OBVIOUS
    <3> QED
      BY <3>2, <3>3, <3>4
  <2>3. Expand(g, roots, 2) =
          [concepts |-> far, relations |-> follows \cup more,
           frontier |-> {k.object : k \in more} \ near]
    <3>1. Follow(g, near \ start) = more
      BY FollowIsSteps
    <3> HIDE DEF start, follows, near, more
    <3> QED
      BY <2>2, <3>1, TwoRounds DEF NextRound
  <2>4. near = Near(steps, start)
    BY DEF Near
  <2>5. follows \cup more = {k \in steps : k.subject \in near}
    <3> HIDE DEF steps
    <3> QED
      OBVIOUS
  <2>6. far = Near(steps, near)
    <3>1. Near(steps, near) = near \cup {k.object : k \in follows \cup more}
      BY <2>5 DEF Near
    <3> HIDE DEF steps
    <3> QED
      BY <3>1
  <2>7. {k.object : k \in more} \ near = far \ near
    <3> HIDE DEF more, near
    <3> QED
      OBVIOUS
  <2> HIDE DEF far, near, follows, more
  <2> QED
    BY <2>3, <2>4, <2>5, <2>6, <2>7
<1> QED
  BY <1>1, GraphSafe, PTL

\* The documents are ones that whoever `of' is the key of may cite.
Supports(of, docs) ==
  \A e \in docs :
     /\ \A k \in RelationKey : of = k => MayReferTo(k.owner, EvidenceOwner[e])
     /\ \A c \in Concepts : of = ConceptKey(c) => MayReferTo(ConceptOwner[c], EvidenceOwner[e])

RowsInv ==
  /\ KnowledgeTypeOK
  /\ \A of \in DOMAIN cites : Supports(of, cites[of])
  /\ \A p \in attaching : Supports(p.of, p.docs)

LEMMA KeysDiffer ==
  /\ \A k \in RelationKey, c \in Concepts : k # ConceptKey(c)
  /\ \A c, d \in Concepts : ConceptKey(c) = ConceptKey(d) => c = d
<1>1. ASSUME NEW k \in RelationKey, NEW c \in Concepts PROVE k # ConceptKey(c)
  <2>1. DOMAIN k = {"owner", "subject", "predicate", "object"}
    BY DEF RelationKey
  <2>2. DOMAIN ConceptKey(c) = {"concept"}
    BY DEF ConceptKey
  <2> QED
    BY <2>1, <2>2
<1>2. ASSUME NEW c \in Concepts, NEW d \in Concepts, ConceptKey(c) = ConceptKey(d) PROVE c = d
  BY <1>2 DEF ConceptKey
<1> QED
  BY <1>1, <1>2

\* What the rows of the aliases and of the relations have to satisfy.
AliasesOK(rows) ==
  /\ rows \in Seq(AliasRow) /\ Len(rows) <= MaxAliases
  /\ \A i \in DOMAIN rows : MayReferTo(rows[i].owner, ConceptOwner[rows[i].of])
RelationsOK(rows) ==
  /\ DOMAIN rows \subseteq RelationKey /\ \A k \in DOMAIN rows : rows[k] \in Statuses
  /\ \A k \in DOMAIN rows : /\ MayReferTo(k.owner, ConceptOwner[k.subject])
                            /\ MayReferTo(k.owner, ConceptOwner[k.object])

LEMMA RowsFrom ==
  ASSUME concept \in [Concepts -> Statuses \cup {"none"}],
         evidence \in [Evidence -> Statuses \cup {"none"}],
         AliasesOK(alias), RelationsOK(relation),
         \A of \in DOMAIN cites : Supports(of, cites[of]),
         \A p \in attaching : Supports(p.of, p.docs)
  PROVE  RowsInv
<1>1. \A k \in DOMAIN relation \cap DOMAIN cites : \A e \in cites[k] :
         MayReferTo(k.owner, EvidenceOwner[e])
  BY DEF Supports, RelationsOK
<1>2. \A c \in {x \in Concepts : ConceptKey(x) \in DOMAIN cites} : \A e \in cites[ConceptKey(c)] :
         MayReferTo(ConceptOwner[c], EvidenceOwner[e])
  BY DEF Supports
<1> QED
  BY <1>1, <1>2 DEF RowsInv, KnowledgeTypeOK, AliasesOK, RelationsOK

LEMMA RowsGive ==
  ASSUME RowsInv
  PROVE  /\ concept \in [Concepts -> Statuses \cup {"none"}]
         /\ evidence \in [Evidence -> Statuses \cup {"none"}]
         /\ AliasesOK(alias) /\ RelationsOK(relation)
         /\ \A of \in DOMAIN cites : Supports(of, cites[of])
         /\ \A p \in attaching : Supports(p.of, p.docs)
BY DEF RowsInv, KnowledgeTypeOK, AliasesOK, RelationsOK

\* What RowsFrom says, of the next state.
LEMMA RowsNext ==
  ASSUME concept' \in [Concepts -> Statuses \cup {"none"}],
         evidence' \in [Evidence -> Statuses \cup {"none"}],
         AliasesOK(alias'), RelationsOK(relation'),
         \A of \in DOMAIN cites' : Supports(of, cites'[of]),
         \A p \in attaching' : Supports(p.of, p.docs)
  PROVE  RowsInv'
<1>1. \A k \in DOMAIN relation' \cap DOMAIN cites' : \A e \in cites'[k] :
         MayReferTo(k.owner, EvidenceOwner[e])
  BY DEF Supports, RelationsOK
<1>2. \A c \in {x \in Concepts : ConceptKey(x) \in DOMAIN cites'} : \A e \in cites'[ConceptKey(c)] :
         MayReferTo(ConceptOwner[c], EvidenceOwner[e])
  BY DEF Supports
<1> QED
  BY <1>1, <1>2 DEF RowsInv, KnowledgeTypeOK, AliasesOK, RelationsOK

LEMMA RowsBegin == KnowledgeInit => RowsInv
<1> SUFFICES ASSUME KnowledgeInit PROVE RowsInv
  OBVIOUS
<1>1. AliasesOK(alias)
  BY KnowledgeAssumption DEF KnowledgeInit, AliasesOK
<1>2. DOMAIN relation = {} /\ DOMAIN cites = {}
  BY DEF KnowledgeInit
<1> QED
  BY <1>1, <1>2, RowsFrom DEF KnowledgeInit, RelationsOK

LEMMA Reviewed == \A d \in Decisions : To[d] \in Statuses
BY DEF Decisions, From, To, Statuses

\* The documents a proposal promises are citable by whoever it belongs to.
LEMMA PromiseKeeps ==
  ASSUME RowsInv, NEW of, NEW docs, Supports(of, docs), Promise(of, docs)
  PROVE  \A p \in attaching' : Supports(p.of, p.docs)
BY RowsGive DEF Promise

LEMMA AliasAdded ==
  ASSUME RowsInv, NEW g \in Orgs, NEW c \in Concepts, NEW w \in Words, CreateAlias(g, c, w)
  PROVE  AliasesOK(alias')
<1>1. PICK owner \in {g} \cup (IF ConceptOwner[c] = SYSTEM THEN {SYSTEM} ELSE {}) :
        alias' = Append(alias, [owner |-> owner, of |-> c, word |-> w, status |-> "SUGGESTED"])
  BY DEF CreateAlias
<1> DEFINE row == [owner |-> owner, of |-> c, word |-> w, status |-> "SUGGESTED"]
<1>2. row \in AliasRow
  BY <1>1 DEF AliasRow, Owners, Statuses
<1>3. MayReferTo(row.owner, ConceptOwner[row.of])
  BY <1>1 DEF CreateAlias, SeenBy, VisibleTo, MayReferTo
<1>4. alias' = Append(alias, row)
  BY <1>1
<1> HIDE DEF row
<1>5. alias \in Seq(AliasRow) /\ Len(alias) < MaxAliases
  BY RowsGive DEF CreateAlias, AliasesOK
<1>6. alias' \in Seq(AliasRow) /\ Len(alias') = Len(alias) + 1
  BY <1>2, <1>4, <1>5
<1>7. \A i \in DOMAIN alias' : alias'[i] = row \/ (i \in DOMAIN alias /\ alias'[i] = alias[i])
  BY <1>4, <1>5
<1>8. Len(alias') <= MaxAliases
  BY <1>5, <1>6, KnowledgeAssumption
<1>9. \A i \in DOMAIN alias' : MayReferTo(alias'[i].owner, ConceptOwner[alias'[i].of])
  BY <1>3, <1>7, RowsGive DEF AliasesOK
<1> QED
  BY <1>6, <1>8, <1>9 DEF AliasesOK

LEMMA AliasReviewed ==
  ASSUME RowsInv, NEW i \in DOMAIN alias, NEW d \in Decisions, ReviewAlias(i, d)
  PROVE  AliasesOK(alias')
<1>1. PICK status \in Statuses : alias' = [alias EXCEPT ![i] = [alias[i] EXCEPT !.status = status]]
  BY Reviewed DEF ReviewAlias
<1>2. alias \in Seq(AliasRow) /\ alias[i] \in AliasRow
  BY RowsGive DEF AliasesOK
<1> DEFINE row == [alias[i] EXCEPT !.status = status]
<1>3. row \in AliasRow /\ row.owner = alias[i].owner /\ row.of = alias[i].of
  BY <1>2 DEF AliasRow
<1>4. alias' = [alias EXCEPT ![i] = row]
  BY <1>1
<1> HIDE DEF row
<1>5. alias' \in Seq(AliasRow) /\ Len(alias') = Len(alias) /\ DOMAIN alias' = DOMAIN alias
  BY <1>2, <1>3, <1>4
<1>6. \A j \in DOMAIN alias : alias'[j].owner = alias[j].owner /\ alias'[j].of = alias[j].of
  BY <1>2, <1>3, <1>4
<1> QED
  BY <1>5, <1>6, RowsGive DEF AliasesOK

LEMMA AliasesSeeded ==
  ASSUME RowsInv, Seed
  PROVE  AliasesOK(alias')
<1> DEFINE n == Cardinality(NewNames)
           revived == [i \in DOMAIN alias |->
                         IF alias[i].owner = SYSTEM /\ alias[i].word \in DOMAIN SeedName
                         THEN [alias[i] EXCEPT !.status = "APPROVED"] ELSE alias[i]]
<1>1. PICK order \in [1..n -> NewNames] :
        alias' = revived \o [i \in DOMAIN order |-> SeededAlias(order[i])]
  BY DEF Seed
<1> DEFINE added == [i \in DOMAIN order |-> SeededAlias(order[i])]
<1>2. alias \in Seq(AliasRow) /\ Len(alias) + n <= MaxAliases /\ MaxAliases \in Nat
  BY RowsGive, KnowledgeAssumption DEF Seed, AliasesOK
<1>3. \A i \in DOMAIN alias : alias[i] \in AliasRow
  BY <1>2
<1>4. \A i \in DOMAIN alias : revived[i] \in AliasRow /\ revived[i].owner = alias[i].owner
                              /\ revived[i].of = alias[i].of
  <2> SUFFICES ASSUME NEW i \in DOMAIN alias
               PROVE  revived[i] \in AliasRow /\ revived[i].owner = alias[i].owner
                      /\ revived[i].of = alias[i].of
    OBVIOUS
  <2>1. alias[i] \in AliasRow
    BY <1>3
  <2>2. [alias[i] EXCEPT !.status = "APPROVED"] \in AliasRow
    BY <2>1 DEF AliasRow, Statuses
  <2> QED
    BY <2>1, <2>2 DEF AliasRow
<1>5. revived \in Seq(AliasRow) /\ Len(revived) = Len(alias) /\ DOMAIN revived = DOMAIN alias
  <2> HIDE DEF revived
  <2>1. revived = [i \in 1..Len(alias) |-> revived[i]]
    BY <1>2 DEF revived
  <2>2. DOMAIN alias = 1..Len(alias) /\ Len(alias) \in Nat
    BY <1>2
  <2>3. \A i \in 1..Len(alias) : revived[i] \in AliasRow
    BY <1>4, <2>2
  <2>4. revived \in [1..Len(alias) -> AliasRow]
    BY <2>1, <2>3
  <2>5. revived \in Seq(AliasRow)
    BY <2>2, <2>4
  <2>6. Len(revived) = Len(alias)
    BY <2>1, <2>2
  <2> QED
    BY <2>1, <2>2, <2>5, <2>6
<1>6. \A w \in NewNames : SeededAlias(w) \in AliasRow
                          /\ MayReferTo(SeededAlias(w).owner, ConceptOwner[SeededAlias(w).of])
  <2> SUFFICES ASSUME NEW w \in NewNames
               PROVE  SeededAlias(w) \in AliasRow
                      /\ MayReferTo(SeededAlias(w).owner, ConceptOwner[SeededAlias(w).of])
    OBVIOUS
  <2>1. w \in Words /\ SeedName[w] \in Concepts /\ ConceptOwner[SeedName[w]] = SYSTEM
    BY KnowledgeAssumption DEF NewNames
  <2> QED
    BY <2>1 DEF SeededAlias, AliasRow, MayReferTo, Owners, Statuses
<1>7. n \in Nat
  <2>1. NewNames \subseteq DOMAIN SeedName
    BY DEF NewNames
  <2> QED
    BY <2>1, FS_Subset, FS_CardinalityType, KnowledgeAssumption
<1> HIDE DEF revived, n
<1>8. added \in Seq(AliasRow) /\ Len(added) = n /\ DOMAIN added = 1..n
      /\ \A i \in 1..n : added[i] = SeededAlias(order[i]) /\ order[i] \in NewNames
  <2>1. added = [i \in 1..n |-> SeededAlias(order[i])]
    OBVIOUS
  <2>2. \A i \in 1..n : SeededAlias(order[i]) \in AliasRow /\ order[i] \in NewNames
    BY <1>6
  <2> QED
    BY <1>7, <2>1, <2>2
<1> HIDE DEF added
<1>9. alias' \in Seq(AliasRow) /\ Len(alias') = Len(alias) + n
  <2>1. alias' = revived \o added
    BY <1>1 DEF added
  <2>2. Len(revived) \in Nat /\ Len(added) \in Nat
    BY <1>5, <1>8
  <2> QED
    BY <1>5, <1>8, <2>1
<1>10. ASSUME NEW i \in DOMAIN alias' PROVE MayReferTo(alias'[i].owner, ConceptOwner[alias'[i].of])
  <2>1. i \in 1..(Len(alias) + n) /\ Len(alias) \in Nat
    BY <1>2, <1>9
  <2>2. CASE i \in 1..Len(alias)
    <3>1. alias'[i] = revived[i] /\ i \in DOMAIN alias
      BY <1>1, <1>2, <1>5, <1>8, <2>1, <2>2
    <3> QED
      BY <1>4, <3>1, RowsGive DEF AliasesOK
  <2>3. CASE i \notin 1..Len(alias)
    <3>1. i - Len(alias) \in 1..n
      BY <1>7, <2>1, <2>3
    <3>2. alias'[i] = added[i - Len(alias)]
      BY <1>1, <1>5, <1>7, <1>8, <2>1, <2>3
    <3> QED
      BY <1>6, <1>8, <3>1, <3>2
  <2> QED
    BY <2>2, <2>3
<1> QED
  BY <1>2, <1>9, <1>10 DEF AliasesOK

LEMMA RelationAdded ==
  ASSUME RowsInv, NEW g \in Orgs, NEW k \in Proposals(g), CreateRelation(g, k)
  PROVE  RelationsOK(relation') /\ \A p \in attaching' : Supports(p.of, p.docs)
<1>1. k \in RelationKey /\ k.owner \in {SYSTEM, g} /\ k.subject \in SeenBy(g) /\ k.object \in SeenBy(g)
  BY DEF Proposals, SeenBy, RelationKey, Owners
<1>2. DOMAIN relation' = DOMAIN relation \cup {k} /\ relation'[k] = "SUGGESTED"
      /\ \A j \in DOMAIN relation : j # k => relation'[j] = relation[j]
  BY DEF CreateRelation, With
<1>3. MayReferTo(k.owner, ConceptOwner[k.subject]) /\ MayReferTo(k.owner, ConceptOwner[k.object])
  BY <1>1 DEF CreateRelation, RelationAllowed, SeenBy, VisibleTo, MayReferTo
<1>4. RelationsOK(relation')
  BY <1>1, <1>2, <1>3, RowsGive DEF RelationsOK, Statuses
<1>5. ASSUME NEW docs \in SUBSET CitableBy(k.owner, g) PROVE Supports(k, docs)
  <2>1. \A e \in docs : MayReferTo(k.owner, EvidenceOwner[e])
    BY <1>1 DEF CitableBy, VisibleTo, MayReferTo
  <2> QED
    BY <1>1, <2>1, KeysDiffer DEF Supports
<1> QED
  BY <1>4, <1>5, PromiseKeeps DEF CreateRelation

LEMMA ConceptProposed ==
  ASSUME RowsInv, NEW c \in Concepts, CreateConcept(c)
  PROVE  \A p \in attaching' : Supports(p.of, p.docs)
<1>1. ASSUME NEW docs \in SUBSET CitableBy(ConceptOwner[c], ConceptOwner[c])
      PROVE  Supports(ConceptKey(c), docs)
  <2>1. \A e \in docs : MayReferTo(ConceptOwner[c], EvidenceOwner[e])
    BY DEF CitableBy, VisibleTo, MayReferTo
  <2> QED
    BY <2>1, KeysDiffer DEF Supports
<1> QED
  BY <1>1, PromiseKeeps DEF CreateConcept

LEMMA RowsKeep ==
  ASSUME RowsInv, KnowledgeNext
  PROVE  RowsInv'
<1>0. /\ concept \in [Concepts -> Statuses \cup {"none"}]
      /\ evidence \in [Evidence -> Statuses \cup {"none"}]
      /\ AliasesOK(alias) /\ RelationsOK(relation)
      /\ \A of \in DOMAIN cites : Supports(of, cites[of])
      /\ \A p \in attaching : Supports(p.of, p.docs)
      /\ "SUGGESTED" \in Statuses /\ "APPROVED" \in Statuses
  BY RowsGive DEF Statuses
<1>1. ASSUME NEW d \in Decisions, NEW c \in Concepts, ReviewConcept(c, d) PROVE RowsInv'
  BY <1>0, <1>1, Reviewed, RowsNext DEF ReviewConcept
<1>2. ASSUME NEW d \in Decisions, NEW k \in DOMAIN relation, ReviewRelation(k, d) PROVE RowsInv'
  <2>1. DOMAIN relation' = DOMAIN relation /\ relation'[k] \in Statuses
        /\ \A j \in DOMAIN relation : j # k => relation'[j] = relation[j]
    BY <1>2, Reviewed DEF ReviewRelation
  <2>2. RelationsOK(relation')
    BY <1>0, <2>1 DEF RelationsOK
  <2> QED
    BY <1>0, <1>2, <2>2, RowsNext DEF ReviewRelation
<1>3. ASSUME NEW d \in Decisions, NEW e \in Evidence, ReviewEvidence(e, d) PROVE RowsInv'
  BY <1>0, <1>3, Reviewed, RowsNext DEF ReviewEvidence
<1>4. ASSUME NEW d \in Decisions, NEW i \in DOMAIN alias, ReviewAlias(i, d) PROVE RowsInv'
  BY <1>0, <1>4, AliasReviewed, RowsNext DEF ReviewAlias
<1>5. ASSUME NEW g \in Orgs, NEW k \in Proposals(g), CreateRelation(g, k) PROVE RowsInv'
  BY <1>0, <1>5, RelationAdded, RowsNext DEF CreateRelation
<1>6. ASSUME NEW c \in Concepts, CreateConcept(c) PROVE RowsInv'
  BY <1>0, <1>6, ConceptProposed, RowsNext DEF CreateConcept
<1>7. ASSUME NEW e \in Evidence, CreateEvidence(e) PROVE RowsInv'
  BY <1>0, <1>7, RowsNext DEF CreateEvidence
<1>8. ASSUME NEW g \in Orgs, NEW c \in Concepts, NEW w \in Words, CreateAlias(g, c, w)
      PROVE  RowsInv'
  BY <1>0, <1>8, AliasAdded, RowsNext DEF CreateAlias
<1>9. ASSUME NEW p \in attaching, AttachEvidence(p) PROVE RowsInv'
  <2>1. DOMAIN cites' = DOMAIN cites \cup {p.of} /\ cites'[p.of] = p.docs
        /\ \A of \in DOMAIN cites : of # p.of => cites'[of] = cites[of]
    BY <1>9 DEF AttachEvidence, With
  <2>2. \A of \in DOMAIN cites' : Supports(of, cites'[of])
    BY <1>0, <2>1
  <2> QED
    BY <1>0, <1>9, <2>2, RowsNext DEF AttachEvidence
<1>10. ASSUME NEW p \in attaching, CreatorDies(p) PROVE RowsInv'
  BY <1>0, <1>10, RowsNext DEF CreatorDies
<1>11. ASSUME Seed PROVE RowsInv'
  <2>1. concept' \in [Concepts -> Statuses \cup {"none"}]
    BY <1>0, <1>11 DEF Seed
  <2>2. \A k \in SeedRelations : k \in RelationKey /\ k.owner = SYSTEM
          /\ ConceptOwner[k.subject] = SYSTEM /\ ConceptOwner[k.object] = SYSTEM
    BY KnowledgeAssumption DEF RelationKey, Owners
  <2>3. DOMAIN relation' = DOMAIN relation \cup SeedRelations
        /\ \A k \in DOMAIN relation' :
              IF k \in SeedRelations THEN relation'[k] = "APPROVED" ELSE relation'[k] = relation[k]
    BY <1>11 DEF Seed
  <2>4. RelationsOK(relation')
    BY <1>0, <2>2, <2>3 DEF RelationsOK, MayReferTo
  <2> QED
    BY <1>0, <1>11, <2>1, <2>4, AliasesSeeded, RowsNext DEF Seed
<1> QED
  BY <1>1, <1>2, <1>3, <1>4, <1>5, <1>6, <1>7, <1>8, <1>9, <1>10, <1>11
     DEF KnowledgeNext, ReviewStep, RelateStep, SuggestStep

LEMMA RowsRest == ASSUME RowsInv, UNCHANGED graphVars PROVE RowsInv'
BY DEF RowsInv, KnowledgeTypeOK, graphVars

\* Nothing an organization sees of the graph leads into another organization's part:
\* rows refer to SYSTEM's or their owner's rows, and so does the evidence attached
\* in a second transaction, whatever happened between the two.
THEOREM KnowledgeTypes == WorkspaceSpec => []KnowledgeTypeOK
<1>1. WorkspaceInit => RowsInv
  BY RowsBegin DEF WorkspaceInit
<1>2. RowsInv /\ [WorkspaceNext]_workspaceRows => RowsInv'
  BY RowsKeep, RowsRest
     DEF WorkspaceNext, CatalogNext, AssetsNext, BriefsNext, workspaceRows
<1>3. RowsInv => KnowledgeTypeOK
  BY DEF RowsInv
<1> QED
  BY <1>1, <1>2, <1>3, PTL DEF WorkspaceSpec, workspaceRows

-----------------------------------------------------------------------------
(* Assets *)

AssetInv ==
  /\ AssetsTypeOK
  /\ \A u \in Uploads : Exists(u) => upload[u] = "done" /\ u \in objects
  /\ \A u, v \in Uploads : Exists(u) /\ Exists(v) /\ Checksum[u] = Checksum[v] => u = v
  /\ \A u \in Uploads : \A v \in answer[u] : Exists(v) /\ Checksum[v] = Checksum[u]
  /\ \A u \in Uploads : upload[u] = "stored" => u \in objects
  /\ \A u \in objects : Exists(u) \/ upload[u] \in {"stored", "refused", "dead"}

LEMMA AssetsBegin == AssetsInit => AssetInv
BY DEF AssetsInit, AssetInv, AssetsTypeOK, UploadSteps, AssetRow, NoAsset, Exists

\* A step that moves upload u alone, not to "stored", and creates no row.
LEMMA UploadMoves ==
  ASSUME AssetInv, NEW u \in Uploads, NEW step \in UploadSteps, step # "stored",
         ~Exists(u), Goes(u, step), UNCHANGED asset,
         objects' \subseteq Uploads,
         \A v \in Uploads : v # u => (v \in objects' <=> v \in objects),
         u \in objects' => step \in {"refused", "dead"},
         answer' \in [Uploads -> SUBSET Uploads],
         \A v \in Uploads : answer'[v] = answer[v] \/ answer'[v] \subseteq RowsOf(Checksum[v])
  PROVE  AssetInv'
<1>1. AssetsTypeOK'
  BY DEF AssetInv, AssetsTypeOK, Goes, UploadSteps
<1>2. \A v \in Uploads : Exists(v)' <=> Exists(v)
  BY DEF Exists
<1>3. upload'[u] = step /\ \A v \in Uploads : v # u => upload'[v] = upload[v]
  BY DEF AssetInv, AssetsTypeOK, Goes
<1>4. \A v \in Uploads : Exists(v)' => upload'[v] = "done" /\ v \in objects'
  BY <1>2, <1>3 DEF AssetInv
<1>5. \A v, w \in Uploads : Exists(v)' /\ Exists(w)' /\ Checksum[v] = Checksum[w] => v = w
  BY <1>2 DEF AssetInv
<1>6. \A v \in Uploads : \A w \in answer'[v] : Exists(w)' /\ Checksum[w] = Checksum[v]
  BY <1>1, <1>2 DEF AssetInv, AssetsTypeOK, RowsOf
<1>7. \A v \in Uploads : upload'[v] = "stored" => v \in objects'
  BY <1>3 DEF AssetInv
<1>8. \A v \in objects' : Exists(v)' \/ upload'[v] \in {"stored", "refused", "dead"}
  BY <1>2, <1>3 DEF AssetInv
<1> QED
  BY <1>1, <1>4, <1>5, <1>6, <1>7, <1>8 DEF AssetInv

\* A step of the shelf changes rows that are there.
LEMMA ShelfMoves ==
  ASSUME AssetInv, asset' \in [Uploads -> AssetRow],
         \A u \in Uploads : Exists(u)' <=> Exists(u),
         UNCHANGED <<upload, objects, answer>>
  PROVE  AssetInv'
BY DEF AssetInv, AssetsTypeOK

LEMMA PutKeeps ==
  ASSUME AssetInv, NEW u \in Uploads, PutObject(u)
  PROVE  AssetInv'
<1>1. ~Exists(u)
  BY DEF PutObject, AssetInv
<1>2. CASE Goes(u, "stored") /\ objects' = objects \cup {u}
  <2>1. AssetsTypeOK'
    BY <1>2 DEF PutObject, AssetInv, AssetsTypeOK, Goes, UploadSteps
  <2>2. \A v \in Uploads : Exists(v)' <=> Exists(v)
    BY DEF PutObject, Exists
  <2>3. upload'[u] = "stored" /\ \A v \in Uploads : v # u => upload'[v] = upload[v]
    BY <1>2 DEF AssetInv, AssetsTypeOK, Goes
  <2>4. \A v \in Uploads : \A w \in answer'[v] : Exists(w)' /\ Checksum[w] = Checksum[v]
    BY <2>2 DEF AssetInv, AssetsTypeOK, PutObject
  <2>5. \A v, w \in Uploads : Exists(v)' /\ Exists(w)' /\ Checksum[v] = Checksum[w] => v = w
    BY <2>2 DEF AssetInv
  <2>6. \A v \in Uploads : Exists(v)' => upload'[v] = "done" /\ v \in objects'
    BY <1>1, <1>2, <2>2, <2>3 DEF AssetInv
  <2>7. \A v \in objects' : Exists(v)' \/ upload'[v] \in {"stored", "refused", "dead"}
    BY <1>2, <2>1, <2>2, <2>3 DEF AssetInv, AssetsTypeOK
  <2>8. \A v \in Uploads : upload'[v] = "stored" => v \in objects'
    BY <1>2, <2>3 DEF AssetInv
  <2> QED
    BY <2>1, <2>4, <2>5, <2>6, <2>7, <2>8 DEF AssetInv
<1>3. CASE Goes(u, "dead") /\ objects' \in {objects, objects \cup {u}}
  <2>1. \A v \in Uploads : v # u => (v \in objects' <=> v \in objects)
    BY <1>3
  <2>2. objects' \subseteq Uploads /\ answer' \in [Uploads -> SUBSET Uploads]
    BY <1>3 DEF PutObject, AssetInv, AssetsTypeOK
  <2> QED
    BY <1>1, <1>3, <2>1, <2>2, UploadMoves DEF PutObject, UploadSteps
<1> QED
  BY <1>2, <1>3 DEF PutObject

LEMMA CreateKeeps ==
  ASSUME AssetInv, NEW u \in Uploads, CreateAsset(u)
  PROVE  AssetInv'
<1>1. AssetsTypeOK'
  BY DEF CreateAsset, AssetInv, AssetsTypeOK, Goes, UploadSteps, AssetRow
<1>2. Exists(u)' /\ \A v \in Uploads : v # u => (Exists(v)' <=> Exists(v))
  BY DEF CreateAsset, AssetInv, AssetsTypeOK, Exists
<1>3. upload'[u] = "done" /\ \A v \in Uploads : v # u => upload'[v] = upload[v]
  BY DEF CreateAsset, AssetInv, AssetsTypeOK, Goes
<1>4. answer'[u] = {u} /\ \A v \in Uploads : v # u => answer'[v] = answer[v]
  BY DEF CreateAsset, AssetInv, AssetsTypeOK
<1>5. \A v \in Uploads : Exists(v) => Checksum[v] # Checksum[u]
  BY DEF CreateAsset, RowsOf
<1>6. \A v \in Uploads : \A w \in answer'[v] : Exists(w)' /\ Checksum[w] = Checksum[v]
  BY <1>2, <1>4, <1>5 DEF AssetInv, AssetsTypeOK
<1>7. \A v \in Uploads : Exists(v)' => upload'[v] = "done" /\ v \in objects'
  BY <1>2, <1>3 DEF AssetInv, CreateAsset
<1>8. \A v, w \in Uploads : Exists(v)' /\ Exists(w)' /\ Checksum[v] = Checksum[w] => v = w
  BY <1>2, <1>5 DEF AssetInv
<1>9. \A v \in Uploads : upload'[v] = "stored" => v \in objects'
  BY <1>3 DEF AssetInv, CreateAsset
<1>10. \A v \in objects' : Exists(v)' \/ upload'[v] \in {"stored", "refused", "dead"}
  BY <1>1, <1>2, <1>3 DEF AssetInv, AssetsTypeOK, CreateAsset
<1> QED
  BY <1>1, <1>6, <1>7, <1>8, <1>9, <1>10 DEF AssetInv

LEMMA AssetsKeep ==
  ASSUME AssetInv, AssetsNext
  PROVE  AssetInv'
<1>0. answer \in [Uploads -> SUBSET Uploads] /\ objects \subseteq Uploads
      /\ asset \in [Uploads -> AssetRow]
  BY DEF AssetInv, AssetsTypeOK
<1>1. ASSUME NEW u \in Uploads, UploadRefused(u) PROVE AssetInv'
  <2>1. ~Exists(u) /\ u \notin objects
    BY <1>1 DEF UploadRefused, AssetInv
  <2> QED
    BY <1>0, <1>1, <2>1, UploadMoves DEF UploadRefused, UploadSteps
<1>2. ASSUME NEW u \in Uploads, UploadLooksUp(u) PROVE AssetInv'
  <2>1. ~Exists(u) /\ u \notin objects
    BY <1>2 DEF UploadLooksUp, AssetInv
  <2>2. answer' \in [Uploads -> SUBSET Uploads]
    BY <1>0, <1>2 DEF UploadLooksUp, RowsOf
  <2>3. \A v \in Uploads : answer'[v] = answer[v] \/ answer'[v] \subseteq RowsOf(Checksum[v])
    BY <1>0, <1>2 DEF UploadLooksUp
  <2>4. PICK step \in {"missing", "done"} : Goes(u, step)
    BY <1>2 DEF UploadLooksUp
  <2> QED
    BY <1>0, <1>2, <2>1, <2>2, <2>3, <2>4, UploadMoves DEF UploadLooksUp, UploadSteps
<1>3. ASSUME NEW u \in Uploads, PutObject(u) PROVE AssetInv'
  BY <1>3, PutKeeps
<1>4. ASSUME NEW u \in Uploads, CreateAsset(u) PROVE AssetInv'
  BY <1>4, CreateKeeps
<1>5. ASSUME NEW u \in Uploads, CreateRefused(u) PROVE AssetInv'
  <2>1. ~Exists(u)
    BY <1>5 DEF CreateRefused, AssetInv
  <2>2. answer' \in [Uploads -> SUBSET Uploads]
    BY <1>0, <1>5 DEF CreateRefused, RowsOf
  <2>3. \A v \in Uploads : answer'[v] = answer[v] \/ answer'[v] \subseteq RowsOf(Checksum[v])
    BY <1>0, <1>5 DEF CreateRefused
  <2> QED
    BY <1>0, <1>5, <2>1, <2>2, <2>3, UploadMoves DEF CreateRefused, UploadSteps
<1>6. ASSUME NEW u \in Uploads, DiscardObject(u) PROVE AssetInv'
  <2>1. ~Exists(u)
    BY <1>6 DEF DiscardObject, AssetInv
  <2>2. CASE Goes(u, "done") /\ objects' = objects \ Discarded(u)
    BY <1>0, <1>6, <2>1, <2>2, UploadMoves DEF DiscardObject, Discarded, UploadSteps
  <2>3. CASE Goes(u, "dead") /\ UNCHANGED objects
    BY <1>0, <1>6, <2>1, <2>3, UploadMoves DEF DiscardObject, UploadSteps
  <2> QED
    BY <1>6, <2>2, <2>3 DEF DiscardObject
<1>7. ASSUME NEW u \in Uploads, UploadDies(u) PROVE AssetInv'
  <2>1. ~Exists(u)
    BY <1>7 DEF UploadDies, AssetInv
  <2> QED
    BY <1>0, <1>7, <2>1, UploadMoves DEF UploadDies, UploadSteps
<1>8. ASSUME NEW u \in Uploads, SetArchived(u) PROVE AssetInv'
  <2> DEFINE status == IF asset[u].status = "ACTIVE" THEN "ARCHIVED" ELSE "ACTIVE"
  <2>1. asset' = [asset EXCEPT ![u] = [asset[u] EXCEPT !.status = status]]
    BY <1>0, <1>8 DEF SetArchived
  <2>2. status \in {"ACTIVE", "ARCHIVED"}
    OBVIOUS
  <2> HIDE DEF status
  <2>3. asset' \in [Uploads -> AssetRow]
    BY <1>0, <2>1, <2>2 DEF AssetRow
  <2>4. \A v \in Uploads : Exists(v)' <=> Exists(v)
    BY <1>0, <1>8, <2>1, <2>2 DEF SetArchived, Exists, AssetRow
  <2> QED
    BY <1>8, <2>3, <2>4, ShelfMoves DEF SetArchived
<1>9. ASSUME NEW u \in Uploads, NEW p \in Products, LinkAsset(u, p) PROVE AssetInv'
  <2>1. asset' = [asset EXCEPT ![u] = [asset[u] EXCEPT !.products = @ \cup {p}]]
    BY <1>0, <1>9 DEF LinkAsset
  <2>2. asset' \in [Uploads -> AssetRow]
    BY <1>0, <2>1 DEF AssetRow
  <2>3. \A v \in Uploads : Exists(v)' <=> Exists(v)
    BY <1>0, <2>1 DEF Exists, AssetRow
  <2> QED
    BY <1>9, <2>2, <2>3, ShelfMoves DEF LinkAsset
<1> QED
  BY <1>1, <1>2, <1>3, <1>4, <1>5, <1>6, <1>7, <1>8, <1>9
     DEF AssetsNext, UploadStep, ShelfStep

LEMMA AssetsRest == ASSUME AssetInv, UNCHANGED assetVars PROVE AssetInv'
BY DEF AssetInv, AssetsTypeOK, assetVars, Exists

\* The invariant of the assets: an upload whose row exists is done with it, and
\* one that was stored still has its object (assets/services.py, upload_asset).
THEOREM AssetsSafe == WorkspaceSpec => []AssetInv
<1>1. WorkspaceInit => AssetInv
  BY AssetsBegin DEF WorkspaceInit
<1>2. AssetInv /\ [WorkspaceNext]_workspaceRows => AssetInv'
  BY AssetsKeep, AssetsRest DEF WorkspaceNext, BriefsNext, workspaceRows
<1> QED
  BY <1>1, <1>2, PTL DEF WorkspaceSpec, workspaceRows

\* However many uploads of a file race, fail or die, the file has one asset at most,
\* with its original, and every answered upload got that asset.
THEOREM AssetsAlwaysKeepOriginals == WorkspaceSpec => []AssetsKeepOriginals
<1>1. AssetInv => AssetsKeepOriginals
  <2> SUFFICES ASSUME AssetInv PROVE AssetsKeepOriginals
    OBVIOUS
  <2>1. \A u \in Uploads : Exists(u) => u \in objects /\ RowsOf(Checksum[u]) = {u}
    BY DEF AssetInv, RowsOf
  <2>2. \A u \in Uploads : answer[u] \subseteq RowsOf(Checksum[u])
    BY DEF AssetInv, AssetsTypeOK, RowsOf
  <2> QED
    BY <2>1, <2>2 DEF AssetInv, AssetsKeepOriginals
<1> QED
  BY <1>1, AssetsSafe, PTL

-----------------------------------------------------------------------------
(* Products *)

\* What somebody read of a row that is now `now' is not ahead of it.
Held(row, now) ==
  row.version \in Nat /\ row.version <= now.version /\ (row.version = now.version => row = now)

CatalogInv ==
  /\ CatalogTypeOK
  /\ \A p \in Products : Held(copy[p], product[p])
  /\ \A p \in Products : product[p].status = "none" => product[p].version = 0

\* No step writes a product without giving it a version it never had.
ProductsAdvance ==
  \A p \in Products : product'[p] = product[p] \/ product'[p].version > product[p].version

LEMMA HeldStays ==
  ASSUME NEW row, NEW now, NEW later, now.version \in Nat, later.version \in Nat,
         Held(row, now), later = now \/ later.version > now.version
  PROVE  Held(row, later)
BY DEF Held

LEMMA VersionsAreNumbers ==
  ASSUME CatalogTypeOK
  PROVE  \A p \in Products : product[p].version \in Nat /\ copy[p].version \in Nat
BY CatalogAssumption DEF CatalogTypeOK, ProductRow

LEMMA CatalogBegins == CatalogInit => CatalogInv
<1> SUFFICES ASSUME CatalogInit PROVE CatalogInv
  OBVIOUS
<1>1. NoProduct \in ProductRow /\ NoProduct.version = 0
  BY CatalogAssumption DEF NoProduct, ProductRow
<1>2. CatalogTypeOK
  BY <1>1 DEF CatalogInit, CatalogTypeOK
<1> QED
  BY <1>1, <1>2 DEF CatalogInit, CatalogInv, Held

\* The row of product p is written under a greater version.
LEMMA ProductWritten ==
  ASSUME CatalogInv, NEW p \in Products, NEW row \in ProductRow,
         row.status # "none", row.version > product[p].version,
         product' = [product EXCEPT ![p] = row], UNCHANGED copy
  PROVE  CatalogInv' /\ ProductsAdvance
<1>1. CatalogTypeOK'
  BY DEF CatalogInv, CatalogTypeOK
<1>2. product'[p] = row /\ \A q \in Products : q # p => product'[q] = product[q]
  BY DEF CatalogInv, CatalogTypeOK
<1>3. ProductsAdvance
  BY <1>2 DEF ProductsAdvance
<1>4. \A q \in Products : Held(copy'[q], product'[q])
  <2>1. \A q \in Products : product[q].version \in Nat /\ product'[q].version \in Nat
    BY <1>1, VersionsAreNumbers DEF CatalogInv, CatalogTypeOK, ProductRow
  <2> QED
    BY <1>3, <2>1, HeldStays DEF CatalogInv, ProductsAdvance
<1> QED
  BY <1>1, <1>2, <1>3, <1>4 DEF CatalogInv

LEMMA CatalogKeeps ==
  ASSUME CatalogInv, CatalogStep
  PROVE  CatalogInv' /\ ProductsAdvance
<1>0. product \in [Products -> ProductRow] /\ copy \in [Products -> ProductRow]
      /\ \A p \in Products : product[p].version \in Nat
  BY VersionsAreNumbers DEF CatalogInv, CatalogTypeOK
<1>1. ASSUME NEW p \in Products, CreateProduct(p) PROVE CatalogInv' /\ ProductsAdvance
  <2>1. PICK status \in ProductStatuses, text \in Texts, links \in SUBSET ProductLinks :
          product' = [product EXCEPT ![p] =
             [status |-> status, version |-> 1, text |-> text, links |-> links]]
    BY <1>1 DEF CreateProduct
  <2> DEFINE row == [status |-> status, version |-> 1, text |-> text, links |-> links]
  <2>2. row \in ProductRow /\ row.status # "none"
    BY CatalogAssumption DEF ProductRow, ProductStatuses
  <2>3. row.version > product[p].version
    BY <1>1 DEF CreateProduct, CatalogInv
  <2>4. UNCHANGED copy
    BY <1>1 DEF CreateProduct
  <2> QED
    BY <2>1, <2>2, <2>3, <2>4, ProductWritten
<1>2. ASSUME NEW p \in Products, ReadProduct(p) PROVE CatalogInv' /\ ProductsAdvance
  <2>1. CatalogTypeOK' /\ ProductsAdvance
    BY <1>0, <1>2 DEF ReadProduct, CatalogTypeOK, ProductsAdvance
  <2>2. \A q \in Products : Held(copy'[q], product'[q])
    BY <1>0, <1>2 DEF ReadProduct, CatalogInv, Held
  <2> QED
    BY <1>2, <2>1, <2>2 DEF ReadProduct, CatalogInv
<1>3. ASSUME NEW p \in Products, PatchProduct(p) PROVE CatalogInv' /\ ProductsAdvance
  <2>1. PICK status \in ProductStatuses, text \in Texts, links \in SUBSET ProductLinks :
          product' = [product EXCEPT ![p] =
             [status |-> status, version |-> product[p].version + 1, text |-> text,
              links |-> links]]
    BY <1>0, <1>3 DEF PatchProduct
  <2> DEFINE row == [status |-> status, version |-> product[p].version + 1, text |-> text,
                     links |-> links]
  <2>2. product[p].version < MaxVersion /\ UNCHANGED copy
    BY <1>3 DEF PatchProduct
  <2>3. row \in ProductRow /\ row.status # "none" /\ row.version > product[p].version
    BY <1>0, <2>2, CatalogAssumption DEF ProductRow, ProductStatuses
  <2> QED
    BY <2>1, <2>2, <2>3, ProductWritten
<1> QED
  BY <1>1, <1>2, <1>3 DEF CatalogStep

LEMMA CatalogRests == ASSUME CatalogInv, UNCHANGED catalogVars PROVE CatalogInv' /\ ProductsAdvance
BY DEF CatalogInv, CatalogTypeOK, ProductsAdvance, catalogVars

-----------------------------------------------------------------------------
(* Campaigns, briefs and inputs *)

\* The brief has been marked ready, and archived since or not.
Frozen(b) == "READY" \in {brief[b].status, brief[b].from}

InputOK(i) ==
  /\ i.brief \in BriefIds /\ Frozen(i.brief) /\ i.content = brief[i.brief].content
  /\ DOMAIN i.products \subseteq Products
  /\ \A p \in DOMAIN i.products : Held(i.products[p], product[p])

BriefInv ==
  /\ BriefsTypeOK
  /\ \A b \in found : Taken(b)
  /\ Held(campaignEdit, campaign)
  /\ \A i \in inputs : InputOK(i)
  /\ \A i, j \in inputs : \A p \in DOMAIN i.products \cap DOMAIN j.products :
        i.products[p].version = j.products[p].version => i.products[p] = j.products[p]

\* Bounds of the versions, and the links one may choose.
LEMMA VersionBounds ==
  /\ MaxVersion \in Nat /\ 1 \in 1..MaxVersion /\ 1 \in 0..MaxVersion
  /\ 0 \in 0..MaxVersion /\ MaxBriefs \in Nat /\ 0 \in 0..MaxBriefs
  /\ BriefIds \subseteq 0..MaxBriefs
BY CatalogAssumption, BriefsAssumption DEF BriefIds

LEMMA SelectableLinks == Selectable \subseteq Links
<1> SUFFICES ASSUME NEW links \in Selectable PROVE links \in Links
  OBVIOUS
<1>1. links \in [products: SUBSET {p \in Products : product[p].status = "ACTIVE"},
                  assets: SUBSET {a \in Uploads : asset[a].status = "ACTIVE"},
                  concepts: SUBSET {l \in BriefLinks : Usable(l.concept)}]
  BY DEF Selectable
<1>2. links = [products |-> links.products, assets |-> links.assets,
               concepts |-> links.concepts]
  BY <1>1
<1>3. links.products \subseteq Products /\ links.assets \subseteq Uploads
      /\ links.concepts \subseteq BriefLinks
  BY <1>1
<1> QED
  BY <1>2, <1>3 DEF Links

LEMMA BriefsBegin == BriefsInit => BriefInv
<1> SUFFICES ASSUME BriefsInit PROVE BriefInv
  OBVIOUS
<1>1. Blank \in Content
  BY BriefsAssumption DEF Blank, Content, Links
<1>2. NoBrief \in BriefRow /\ NoBrief.status = "none" /\ NoBrief.from = ""
  BY <1>1, BriefsAssumption, CatalogAssumption DEF NoBrief, BriefRow
<1>3. campaign \in CampaignRow /\ campaign.version = 1
  BY CatalogAssumption DEF BriefsInit, CampaignRow, ProductStatuses
<1>4. BriefsTypeOK
  BY <1>2, <1>3 DEF BriefsInit, BriefsTypeOK
<1> QED
  BY <1>3, <1>4 DEF BriefsInit, BriefInv, Held

\* The row of brief b is written and a request is served; what was frozen stays so.
LEMMA BriefWritten ==
  ASSUME BriefInv, NEW b \in BriefIds, NEW row \in BriefRow,
         row.status # "none", row.status = "ARCHIVED" <=> row.from # "",
         Frozen(b) => "READY" \in {row.status, row.from} /\ row.content = brief[b].content,
         brief' = [brief EXCEPT ![b] = row], found' \subseteq found,
         UNCHANGED <<campaign, campaignEdit, inputs, product>>
  PROVE  BriefInv'
<1>1. brief \in [BriefIds -> BriefRow]
  BY DEF BriefInv, BriefsTypeOK
<1>2. brief'[b] = row /\ \A c \in BriefIds : c # b => brief'[c] = brief[c]
  BY <1>1
<1>3. BriefsTypeOK'
  BY <1>1, <1>2 DEF BriefInv, BriefsTypeOK
<1>4. \A c \in found' : Taken(c)'
  BY <1>2 DEF BriefInv, BriefsTypeOK, Taken
<1>5. \A i \in inputs' : InputOK(i)'
  <2> SUFFICES ASSUME NEW i \in inputs PROVE InputOK(i)'
    OBVIOUS
  <2>1. InputOK(i)
    BY DEF BriefInv
  <2>2. Frozen(i.brief)' /\ i.content = brief'[i.brief].content
    BY <1>2, <2>1 DEF InputOK, Frozen
  <2> QED
    BY <2>1, <2>2 DEF InputOK
<1> QED
  BY <1>3, <1>4, <1>5 DEF BriefInv

LEMMA CampaignKeeps ==
  ASSUME BriefInv, UNCHANGED product, ReadCampaign \/ SaveCampaign
  PROVE  BriefInv'
<1>0. campaign \in CampaignRow /\ campaignEdit \in CampaignRow /\ Held(campaignEdit, campaign)
  BY DEF BriefInv, BriefsTypeOK
<1>1. CASE ReadCampaign
  <2>1. BriefsTypeOK' /\ Held(campaignEdit, campaign)'
    <3>1. campaignEdit' = campaign /\ UNCHANGED <<campaign, brief, found>>
      BY <1>1 DEF ReadCampaign
    <3>2. campaign.version \in Nat
      BY <1>0, VersionBounds DEF CampaignRow
    <3>3. BriefsTypeOK'
      BY <1>0, <3>1 DEF BriefInv, BriefsTypeOK
    <3> QED
      BY <3>1, <3>2, <3>3 DEF Held
  <2>2. \A i \in inputs' : InputOK(i)'
    BY <1>1 DEF ReadCampaign, BriefInv, InputOK, Frozen
  <2> QED
    BY <1>1, <2>1, <2>2 DEF ReadCampaign, BriefInv, Taken
<1>2. CASE SaveCampaign
  <2>1. PICK status \in ProductStatuses, text \in Texts :
          campaign' = [[campaignEdit EXCEPT !.status = status, !.text = text]
                         EXCEPT !.version = @ + 1]
    BY <1>2 DEF SaveCampaign
  <2>2. campaignEdit.version = campaign.version /\ campaign.version < MaxVersion
    BY <1>2 DEF SaveCampaign
  <2>3. campaign' \in CampaignRow /\ campaign'.version = campaign.version + 1
    <3> DEFINE row == [status |-> status, text |-> text, version |-> campaign.version + 1]
    <3>1. campaignEdit = [status |-> campaignEdit.status, text |-> campaignEdit.text,
                          version |-> campaignEdit.version]
      BY <1>0 DEF CampaignRow
    <3>2. campaign' = row
      BY <2>1, <2>2, <3>1
    <3>3. campaign.version + 1 \in 1..MaxVersion
      BY <1>0, <2>2, VersionBounds DEF CampaignRow
    <3> QED
      BY <3>2, <3>3 DEF CampaignRow
  <2>4. BriefsTypeOK' /\ Held(campaignEdit, campaign)'
    <3>1. UNCHANGED <<campaignEdit, brief, found>>
      BY <1>2 DEF SaveCampaign
    <3>2. campaign.version \in Nat
      BY <1>0, VersionBounds DEF CampaignRow
    <3>3. BriefsTypeOK'
      BY <1>0, <2>3, <3>1 DEF BriefInv, BriefsTypeOK
    <3> QED
      BY <2>2, <2>3, <3>1, <3>2, <3>3 DEF Held
  <2>5. \A i \in inputs' : InputOK(i)'
    BY <1>2 DEF SaveCampaign, BriefInv, InputOK, Frozen
  <2> QED
    BY <1>2, <2>4, <2>5 DEF SaveCampaign, BriefInv, Taken
<1> QED
  BY <1>1, <1>2

LEMMA BuildKeeps ==
  ASSUME BriefInv, CatalogInv, UNCHANGED product, NEW b \in BriefIds, BuildInput(b)
  PROVE  BriefInv'
<1> DEFINE used == brief[b].content.links.products
           new == [brief |-> b, version |-> brief[b].version, content |-> brief[b].content,
                   campaign |-> campaign.version, products |-> [p \in used |-> product[p]]]
<1>1. inputs' = inputs \cup {new} /\ brief[b].status = "READY"
  BY DEF BuildInput
<1>2. used \subseteq Products
  BY DEF BriefInv, BriefsTypeOK, BriefRow, Content, Links
<1>3. UNCHANGED <<campaign, campaignEdit, brief, found>>
  BY DEF BuildInput
<1>4. InputOK(new)
  BY <1>1, <1>2, VersionsAreNumbers DEF InputOK, Frozen, Held, CatalogInv
<1>5. DOMAIN new.products = used /\ \A p \in used : new.products[p] = product[p]
  OBVIOUS
<1> HIDE DEF new, used
<1>6. \A i \in inputs' : InputOK(i)
  BY <1>1, <1>4 DEF BriefInv
<1>7. \A i \in inputs' : InputOK(i)'
  BY <1>3, <1>6 DEF InputOK, Frozen
<1>8. \A i \in inputs : \A p \in DOMAIN i.products \cap used :
         i.products[p].version = product[p].version => i.products[p] = product[p]
  BY DEF BriefInv, InputOK, Held
<1>9. \A i, j \in inputs' : \A p \in DOMAIN i.products \cap DOMAIN j.products :
         i.products[p].version = j.products[p].version => i.products[p] = j.products[p]
  <2> SUFFICES ASSUME NEW i \in inputs', NEW j \in inputs',
                      NEW p \in DOMAIN i.products \cap DOMAIN j.products,
                      i.products[p].version = j.products[p].version
               PROVE  i.products[p] = j.products[p]
    OBVIOUS
  <2>1. CASE i \in inputs /\ j \in inputs
    BY <2>1 DEF BriefInv
  <2>2. CASE i = new /\ j \in inputs
    BY <2>2, <1>5, <1>8
  <2>3. CASE i \in inputs /\ j = new
    BY <2>3, <1>5, <1>8
  <2>4. CASE i = new /\ j = new
    BY <2>4
  <2> QED
    BY <1>1, <2>1, <2>2, <2>3, <2>4
<1> QED
  BY <1>3, <1>7, <1>9 DEF BriefInv, BriefsTypeOK, Taken

LEMMA BriefsKeep ==
  ASSUME BriefInv, CatalogInv, UNCHANGED product, BriefStep
  PROVE  BriefInv'
<1>0. /\ brief \in [BriefIds -> BriefRow] /\ found \subseteq BriefIds
      /\ \A b \in BriefIds : brief[b].status = "ARCHIVED" <=> brief[b].from # ""
      /\ \A b \in found : Taken(b)
  BY DEF BriefInv, BriefsTypeOK
<1>a. \A b \in BriefIds :
         /\ brief[b].status \in {"none", "DRAFT", "READY", "ARCHIVED"}
         /\ brief[b].from \in {"", "DRAFT", "READY"}
         /\ brief[b].version \in 0..MaxVersion /\ brief[b].of \in 0..MaxBriefs
         /\ brief[b].content \in Content /\ brief[b].content.links \in Links
         /\ brief[b] = [status |-> brief[b].status, from |-> brief[b].from,
                        version |-> brief[b].version, of |-> brief[b].of,
                        content |-> brief[b].content]
  BY <1>0 DEF BriefRow, Content
<1>b. \A b \in BriefIds : brief[b].version < MaxVersion => brief[b].version + 1 \in 0..MaxVersion
  <2> SUFFICES ASSUME NEW b \in BriefIds, brief[b].version < MaxVersion
               PROVE  brief[b].version + 1 \in 0..MaxVersion
    OBVIOUS
  <2>1. brief[b].version \in 0..MaxVersion
    BY <1>a
  <2> QED
    BY <2>1, VersionBounds
<1>1. CASE ReadCampaign \/ SaveCampaign
  BY <1>1, CampaignKeeps
<1>2. ASSUME NEW b \in BriefIds, LookUp(b) PROVE BriefInv'
  <2>1. BriefsTypeOK' /\ \A c \in found' : Taken(c)'
    BY <1>0, <1>2 DEF LookUp, BriefInv, BriefsTypeOK, Taken
  <2>2. \A i \in inputs' : InputOK(i)'
    BY <1>2 DEF LookUp, BriefInv, InputOK, Frozen
  <2> QED
    BY <1>2, <2>1, <2>2 DEF LookUp, BriefInv
<1>3. ASSUME NEW b \in BriefIds, CreateBrief(b) PROVE BriefInv'
  <2>1. PICK fields \in Fields, links \in Selectable :
          brief' = [brief EXCEPT ![b] =
             [NoBrief EXCEPT !.status = "DRAFT", !.version = 1,
                             !.content = [fields |-> fields, links |-> links]]]
    BY <1>3 DEF CreateBrief
  <2> DEFINE content == [fields |-> fields, links |-> links]
  <2>b. PICK row : row = [NoBrief EXCEPT !.status = "DRAFT", !.version = 1, !.content = content]
    OBVIOUS
  <2>2. brief' = [brief EXCEPT ![b] = row]
    BY <2>1, <2>b
  <2>a. content \in Content
    BY SelectableLinks DEF Content
  <2> HIDE DEF content
  <2>3. row \in BriefRow /\ row.status = "DRAFT" /\ row.from = ""
    <3>1. row = [status |-> "DRAFT", from |-> "", version |-> 1, of |-> 0,
                 content |-> content]
      BY <2>b DEF NoBrief
    <3> QED
      BY <2>a, <3>1, VersionBounds DEF BriefRow
  <2>4. ~Frozen(b)
    BY <1>0, <1>3 DEF CreateBrief, Fresh, Taken, Frozen
  <2>5. UNCHANGED <<campaign, campaignEdit, found, inputs>>
    BY <1>3 DEF CreateBrief
  <2> QED
    BY <2>2, <2>3, <2>4, <2>5, BriefWritten
<1>4. ASSUME NEW b \in BriefIds, UpdateBrief(b) PROVE BriefInv'
  <2>1. PICK fields \in Fields, links \in Selectable \cup {brief[b].content.links} :
          brief' = [brief EXCEPT ![b] =
             [brief[b] EXCEPT !.content = [fields |-> fields, links |-> links], !.version = @ + 1]]
    BY <1>4 DEF UpdateBrief, Writes
  <2> DEFINE content == [fields |-> fields, links |-> links]
  <2>b. PICK row : row = [brief[b] EXCEPT !.content = content, !.version = @ + 1]
    OBVIOUS
  <2>2. brief[b].status = "DRAFT" /\ brief[b].version < MaxVersion
    BY <1>4 DEF UpdateBrief, Writes
  <2>a. brief' = [brief EXCEPT ![b] = row]
    BY <2>1, <2>b
  <2>3. content \in Content
    BY <1>a, SelectableLinks DEF Content
  <2> HIDE DEF content
  <2>4. row \in BriefRow /\ row.status = "DRAFT" /\ row.from = brief[b].from
    <3>1. brief[b] \in BriefRow
      BY <1>0
    <3>2. row = [status |-> brief[b].status, from |-> brief[b].from,
                 version |-> brief[b].version + 1, of |-> brief[b].of,
                 content |-> content]
      BY <2>b, <3>1 DEF BriefRow
    <3>3. row \in BriefRow
      BY <1>a, <1>b, <2>2, <2>3, <3>2 DEF BriefRow
    <3> QED
      BY <2>2, <3>2, <3>3
  <2>5. ~Frozen(b)
    BY <1>0, <2>2 DEF Frozen
  <2>6. found' \subseteq found /\ UNCHANGED <<campaign, campaignEdit, inputs>>
    BY <1>4 DEF UpdateBrief, Served
  <2> QED
    BY <1>0, <2>a, <2>2, <2>4, <2>5, <2>6, BriefWritten
<1>5. ASSUME NEW b \in BriefIds, MarkReady(b) PROVE BriefInv'
  <2> DEFINE row == [brief[b] EXCEPT !.status = "READY", !.version = @ + 1]
  <2>1. brief' = [brief EXCEPT ![b] = row] /\ brief[b].status = "DRAFT"
        /\ brief[b].version < MaxVersion
    BY <1>5 DEF MarkReady, Writes
  <2>2. row \in BriefRow /\ row.status = "READY" /\ row.from = ""
    BY <1>0, <1>a, <1>b, <2>1 DEF BriefRow
  <2>3. ~Frozen(b)
    BY <1>0, <2>1 DEF Frozen
  <2>4. found' \subseteq found /\ UNCHANGED <<campaign, campaignEdit, inputs>>
    BY <1>5 DEF MarkReady, Served
  <2> QED
    BY <2>1, <2>2, <2>3, <2>4, BriefWritten
<1>6. ASSUME NEW b \in BriefIds, ArchiveBrief(b) PROVE BriefInv'
  <2> DEFINE was == brief[b].status
  <2>b. PICK row : row = [brief[b] EXCEPT !.status = "ARCHIVED", !.from = was, !.version = @ + 1]
    OBVIOUS
  <2>1. brief' = [brief EXCEPT ![b] = row] /\ brief[b].status # "ARCHIVED"
        /\ brief[b].version < MaxVersion /\ b \in found
    BY <1>6, <2>b DEF ArchiveBrief, Writes, Served
  <2>2. brief[b].status \in {"DRAFT", "READY"}
    BY <1>0, <2>1 DEF Taken, BriefRow
  <2>a. was \in {"DRAFT", "READY"} /\ was = brief[b].status
    BY <2>2
  <2> HIDE DEF was
  <2>3. row \in BriefRow /\ row.status = "ARCHIVED" /\ row.from = was
        /\ row.content = brief[b].content
    <3>1. brief[b] \in BriefRow
      BY <1>0
    <3>2. row = [status |-> "ARCHIVED", from |-> was, version |-> brief[b].version + 1,
                 of |-> brief[b].of, content |-> brief[b].content]
      BY <2>b, <3>1 DEF BriefRow
    <3>3. row \in BriefRow
      BY <1>a, <1>b, <2>1, <2>a, <3>2 DEF BriefRow
    <3> QED
      BY <3>2, <3>3
  <2>4. Frozen(b) => row.from = "READY"
    BY <1>0, <2>1, <2>3, <2>a DEF Frozen
  <2>5. found' \subseteq found /\ UNCHANGED <<campaign, campaignEdit, inputs>>
    BY <1>6 DEF ArchiveBrief, Served
  <2> QED
    BY <2>1, <2>2, <2>3, <2>4, <2>5, <2>a, BriefWritten
<1>7. ASSUME NEW b \in BriefIds, RestoreBrief(b) PROVE BriefInv'
  <2> DEFINE was == brief[b].from
  <2>b. PICK row : row = [brief[b] EXCEPT !.status = was, !.from = "", !.version = @ + 1]
    OBVIOUS
  <2>1. brief' = [brief EXCEPT ![b] = row] /\ brief[b].status = "ARCHIVED"
        /\ brief[b].version < MaxVersion
    BY <1>7, <2>b DEF RestoreBrief, Writes, RestoredStatus
  <2>2. brief[b].from \in {"DRAFT", "READY"}
    BY <1>0, <2>1 DEF BriefRow
  <2>a. was \in {"DRAFT", "READY"} /\ was = brief[b].from
    BY <2>2
  <2> HIDE DEF was
  <2>3. row \in BriefRow /\ row.status = was /\ row.from = ""
        /\ row.content = brief[b].content
    <3>1. brief[b] \in BriefRow
      BY <1>0
    <3>2. row = [status |-> was, from |-> "", version |-> brief[b].version + 1,
                 of |-> brief[b].of, content |-> brief[b].content]
      BY <2>b, <3>1 DEF BriefRow
    <3>3. row \in BriefRow
      BY <1>a, <1>b, <2>1, <2>a, <3>2 DEF BriefRow
    <3> QED
      BY <3>2, <3>3
  <2>4. Frozen(b) => row.status = "READY"
    BY <2>1, <2>3, <2>a DEF Frozen
  <2>5. found' \subseteq found /\ UNCHANGED <<campaign, campaignEdit, inputs>>
    BY <1>7 DEF RestoreBrief, Served
  <2> QED
    BY <2>1, <2>2, <2>3, <2>4, <2>5, <2>a, BriefWritten
<1>8. ASSUME NEW b \in BriefIds, NEW r \in BriefIds, ReviseBrief(b, r) PROVE BriefInv'
  <2> DEFINE row == [status |-> "DRAFT", from |-> "", version |-> brief[b].version + 1, of |-> b,
                     content |-> brief[b].content]
  <2>1. brief' = [brief EXCEPT ![r] = row] /\ brief[b].version < MaxVersion
    BY <1>8 DEF ReviseBrief
  <2>2. row \in BriefRow
    BY <1>a, <1>b, <2>1, VersionBounds DEF BriefRow
  <2>3. ~Frozen(r)
    BY <1>0, <1>8 DEF ReviseBrief, Fresh, Taken, Frozen
  <2>4. found' \subseteq found /\ UNCHANGED <<campaign, campaignEdit, inputs>>
    BY <1>8 DEF ReviseBrief, Served
  <2> QED
    BY <2>1, <2>2, <2>3, <2>4, BriefWritten
<1>9. ASSUME NEW b \in BriefIds, BuildInput(b) PROVE BriefInv'
  BY <1>9, BuildKeeps
<1> QED
  BY <1>1, <1>2, <1>3, <1>4, <1>5, <1>6, <1>7, <1>8, <1>9 DEF BriefStep

\* Whatever happens to the products, what the inputs hold of them is not ahead.
LEMMA BriefsRest ==
  ASSUME BriefInv, CatalogInv, CatalogInv', ProductsAdvance, UNCHANGED briefVars
  PROVE  BriefInv'
<1>1. BriefsTypeOK' /\ \A b \in found' : Taken(b)'
  BY DEF BriefInv, BriefsTypeOK, briefVars, Taken
<1>2. \A i \in inputs' : InputOK(i)'
  <2> SUFFICES ASSUME NEW i \in inputs PROVE InputOK(i)'
    BY DEF briefVars
  <2>1. InputOK(i)
    BY DEF BriefInv
  <2>2. \A p \in Products : product[p].version \in Nat /\ product'[p].version \in Nat
    BY VersionsAreNumbers, CatalogAssumption DEF CatalogInv, CatalogTypeOK, ProductRow
  <2>3. \A p \in DOMAIN i.products : Held(i.products[p], product'[p])
    BY <2>1, <2>2, HeldStays DEF InputOK, ProductsAdvance
  <2> QED
    BY <2>1, <2>3 DEF InputOK, Frozen, briefVars
<1> QED
  BY <1>1, <1>2 DEF BriefInv, briefVars

LEMMA WorkspaceKeepsBriefs ==
  ASSUME CatalogInv, BriefInv, [WorkspaceNext]_workspaceRows
  PROVE  CatalogInv' /\ BriefInv'
<1>1. CASE CatalogNext /\ UNCHANGED briefVars
  BY <1>1, CatalogKeeps, BriefsRest DEF CatalogNext
<1>2. CASE BriefsNext
  BY <1>2, BriefsKeep, CatalogRests DEF BriefsNext, catalogVars
<1>3. CASE UNCHANGED catalogVars /\ UNCHANGED briefVars
  BY <1>3, CatalogRests, BriefsRest
<1> QED
  BY <1>1, <1>2, <1>3 DEF WorkspaceNext, AssetsNext, workspaceRows

\* Products, campaigns, briefs and inputs are what their services read and write
\* (catalog/services.py, campaigns/services.py): typed, and nobody holds a version
\* that its row has not reached.
THEOREM BriefsSafe == WorkspaceSpec => [](CatalogInv /\ BriefInv)
<1>1. WorkspaceInit => CatalogInv /\ BriefInv
  BY CatalogBegins, BriefsBegin DEF WorkspaceInit
<1>2. CatalogInv /\ BriefInv /\ [WorkspaceNext]_workspaceRows => CatalogInv' /\ BriefInv'
  BY WorkspaceKeepsBriefs
<1> QED
  BY <1>1, <1>2, PTL DEF WorkspaceSpec, workspaceRows

\* Everything ever generated from a brief was generated from the same content.
THEOREM ReadyIsAlwaysFrozen == WorkspaceSpec => []ReadyIsFrozen
<1>1. BriefInv => ReadyIsFrozen
  BY DEF BriefInv, InputOK, ReadyIsFrozen
<1> QED
  BY <1>1, BriefsSafe, PTL

\* A version of a campaign, a product or a brief names one state of it, to clients
\* under If-Match, to edits under way and in the inputs of content generation.
THEOREM VersionsAlwaysNameRows == WorkspaceSpec => []VersionsNameRows
<1>1. CatalogInv /\ BriefInv => VersionsNameRows
  <2> SUFFICES ASSUME CatalogInv, BriefInv PROVE VersionsNameRows
    OBVIOUS
  <2>1. \A i, j \in inputs : i.brief = j.brief => i.content = j.content
    BY DEF BriefInv, InputOK
  <2> QED
    BY <2>1 DEF CatalogInv, BriefInv, Held, VersionsNameRows
<1> QED
  BY <1>1, BriefsSafe, PTL

-----------------------------------------------------------------------------
(* Contents *)

\* A brief has a version from its creation on.
BriefsNumbered == \A b \in BriefIds : Taken(b) <=> brief[b].version > 0

\* No step writes a brief without giving it a version it never had.
BriefsAdvance ==
  \A b \in BriefIds : brief'[b] = brief[b] \/ brief'[b].version > brief[b].version

\* A master that people approved, and archived since or not.
WasApproved(m) ==
  \/ master[m].status = "APPROVED"
  \/ master[m].status = "ARCHIVED" /\ master[m].from = "APPROVED"

LEMMA BriefVersions ==
  ASSUME BriefsTypeOK
  PROVE  \A b \in BriefIds : brief[b].version \in Nat
<1>1. \A b \in BriefIds : brief[b].version \in 0..MaxVersion
  BY DEF BriefsTypeOK, BriefRow
<1> QED
  BY <1>1, VersionBounds

LEMMA BriefVersionsNext ==
  ASSUME BriefsTypeOK'
  PROVE  \A b \in BriefIds : brief'[b].version \in Nat
<1> SUFFICES ASSUME NEW b \in BriefIds PROVE brief'[b].version \in Nat
  OBVIOUS
<1>1. brief'[b].version \in 0..MaxVersion
  BY DEF BriefsTypeOK, BriefRow
<1>2. MaxVersion \in Nat
  BY VersionBounds
<1> QED
  BY <1>1, <1>2

LEMMA BriefAdvances ==
  ASSUME BriefsTypeOK, BriefsNumbered, NEW b \in BriefIds, NEW row,
         brief' = [brief EXCEPT ![b] = row],
         row.version \in Nat, row.version > brief[b].version, row.status # "none"
  PROVE  BriefsNumbered' /\ BriefsAdvance
<1>1. brief'[b] = row /\ \A a \in BriefIds : a # b => brief'[a] = brief[a]
  BY DEF BriefsTypeOK
<1>2. brief[b].version \in Nat
  BY BriefVersions
<1>3. row.version > 0
  BY <1>2
<1> QED
  BY <1>1, <1>3 DEF BriefsNumbered, BriefsAdvance, Taken

LEMMA BriefsOnlyAdvance ==
  ASSUME BriefsTypeOK, BriefsNumbered, BriefStep
  PROVE  BriefsNumbered' /\ BriefsAdvance
<1>0. \A b \in BriefIds : /\ brief[b] \in BriefRow /\ brief[b].version \in Nat
                           /\ brief[b].version + 1 \in Nat /\ brief[b].version + 1 > brief[b].version
                           /\ (~Taken(b) => brief[b].version = 0)
  <2>1. \A b \in BriefIds : brief[b] \in BriefRow
    BY DEF BriefsTypeOK
  <2>2. \A b \in BriefIds : brief[b].version \in Nat
    BY BriefVersions
  <2>3. \A b \in BriefIds : ~Taken(b) => brief[b].version = 0
    BY <2>2 DEF BriefsNumbered
  <2> QED
    BY <2>1, <2>2, <2>3
<1>1. CASE UNCHANGED brief
  BY <1>1 DEF BriefsNumbered, BriefsAdvance, Taken
<1>2. ASSUME NEW b \in BriefIds, CreateBrief(b) PROVE BriefsNumbered' /\ BriefsAdvance
  <2>1. PICK content :
          brief' = [brief EXCEPT ![b] =
             [NoBrief EXCEPT !.status = "DRAFT", !.version = 1, !.content = content]]
    BY <1>2 DEF CreateBrief
  <2>2. PICK row : row = [NoBrief EXCEPT !.status = "DRAFT", !.version = 1, !.content = content]
    OBVIOUS
  <2>3. row.version = 1 /\ row.status = "DRAFT"
    BY <2>2 DEF NoBrief
  <2>4. brief[b].version = 0
    BY <1>0, <1>2 DEF CreateBrief, Fresh
  <2>5. brief' = [brief EXCEPT ![b] = row]
    BY <2>1, <2>2
  <2>6. row.version \in Nat /\ row.version > brief[b].version /\ row.status # "none"
    BY <2>3, <2>4
  <2> QED
    BY <2>5, <2>6, BriefAdvances
<1>3. ASSUME NEW b \in BriefIds, UpdateBrief(b) PROVE BriefsNumbered' /\ BriefsAdvance
  <2>1. PICK content :
          brief' = [brief EXCEPT ![b] = [brief[b] EXCEPT !.content = content, !.version = @ + 1]]
    BY <1>3 DEF UpdateBrief, Writes
  <2>2. PICK row : row = [brief[b] EXCEPT !.content = content, !.version = @ + 1]
    OBVIOUS
  <2>3. row.version = brief[b].version + 1 /\ row.status = brief[b].status
    BY <1>0, <2>2 DEF BriefRow
  <2>4. brief[b].status = "DRAFT"
    BY <1>3 DEF UpdateBrief
  <2>5. brief' = [brief EXCEPT ![b] = row]
    BY <2>1, <2>2
  <2>6. row.version \in Nat /\ row.version > brief[b].version /\ row.status # "none"
    BY <1>0, <2>3, <2>4
  <2> QED
    BY <2>5, <2>6, BriefAdvances
<1>4. ASSUME NEW b \in BriefIds, MarkReady(b) PROVE BriefsNumbered' /\ BriefsAdvance
  <2>1. PICK row : row = [brief[b] EXCEPT !.status = "READY", !.version = @ + 1]
    OBVIOUS
  <2>2. brief' = [brief EXCEPT ![b] = row]
    BY <1>4, <2>1 DEF MarkReady, Writes
  <2>3. row.version = brief[b].version + 1 /\ row.status = "READY"
    BY <1>0, <2>1 DEF BriefRow
  <2>4. row.version \in Nat /\ row.version > brief[b].version /\ row.status # "none"
    BY <1>0, <2>3
  <2> QED
    BY <2>2, <2>4, BriefAdvances
<1>5. ASSUME NEW b \in BriefIds, ArchiveBrief(b) PROVE BriefsNumbered' /\ BriefsAdvance
  <2>1. PICK row : row = [brief[b] EXCEPT !.status = "ARCHIVED", !.from = brief[b].status,
                                          !.version = @ + 1]
    OBVIOUS
  <2>2. brief' = [brief EXCEPT ![b] = row]
    BY <1>5, <2>1 DEF ArchiveBrief, Writes
  <2>3. row.version = brief[b].version + 1 /\ row.status = "ARCHIVED"
    BY <1>0, <2>1 DEF BriefRow
  <2>4. row.version \in Nat /\ row.version > brief[b].version /\ row.status # "none"
    BY <1>0, <2>3
  <2> QED
    BY <2>2, <2>4, BriefAdvances
<1>6. ASSUME NEW b \in BriefIds, RestoreBrief(b) PROVE BriefsNumbered' /\ BriefsAdvance
  <2>1. PICK row : row = [brief[b] EXCEPT !.status = brief[b].from, !.from = "", !.version = @ + 1]
    OBVIOUS
  <2>2. brief' = [brief EXCEPT ![b] = row] /\ brief[b].status = "ARCHIVED"
    BY <1>6, <2>1 DEF RestoreBrief, RestoredStatus, Writes
  <2>3. row.version = brief[b].version + 1 /\ row.status = brief[b].from
    BY <1>0, <2>1 DEF BriefRow
  <2>4. brief[b].from \in {"DRAFT", "READY"}
    BY <1>0, <2>2 DEF BriefsTypeOK, BriefRow
  <2>5. row.version \in Nat /\ row.version > brief[b].version /\ row.status # "none"
    BY <1>0, <2>3, <2>4
  <2> QED
    BY <2>2, <2>5, BriefAdvances
<1>7. ASSUME NEW b \in BriefIds, NEW r \in BriefIds, ReviseBrief(b, r)
      PROVE  BriefsNumbered' /\ BriefsAdvance
  <2>1. PICK row : row = [status |-> "DRAFT", from |-> "", version |-> brief[b].version + 1,
                          of |-> b, content |-> brief[b].content]
    OBVIOUS
  <2>2. brief' = [brief EXCEPT ![r] = row]
    BY <1>7, <2>1 DEF ReviseBrief
  <2>3. brief[r].version = 0
    BY <1>0, <1>7 DEF ReviseBrief, Fresh
  <2>4. row.version = brief[b].version + 1 /\ row.status = "DRAFT"
    BY <2>1
  <2>5. row.version \in Nat /\ row.version > brief[r].version /\ row.status # "none"
    BY <1>0, <2>3, <2>4
  <2> QED
    BY <2>2, <2>5, BriefAdvances
<1> QED
  BY <1>1, <1>2, <1>3, <1>4, <1>5, <1>6, <1>7
     DEF BriefStep, ReadCampaign, SaveCampaign, LookUp, BuildInput

\* A generation job builds its input from the brief: the contents add nothing to
\* what the workspace may do with its rows.
LEMMA ContentsUseTheWorkspace ==
  ASSUME ContentNext, asked \subseteq JobKey
  PROVE  [WorkspaceNext]_workspaceRows
<1>1. ASSUME NEW key \in asked, CreateGenerationJob(key) PROVE UNCHANGED briefVars \/ BriefStep
  <2>1. key[1] \in BriefIds
    BY DEF JobKey
  <2> QED
    BY <1>1, <2>1 DEF CreateGenerationJob, BriefStep
<1>2. UNCHANGED briefVars \/ BriefStep
  BY <1>1 DEF ContentNext, GenerationStep, EditStep, AskForMaster, WriteMaster, EndJob
<1> QED
  BY <1>2 DEF ContentNext, WorkspaceNext, BriefsNext, workspaceRows

\* The parts of the invariant.
JobsOK == DOMAIN genJob \subseteq JobKey /\ asked \subseteq JobKey
ArchivedFrom(row) ==
  /\ row.status = "ARCHIVED" <=> row.from # ""
  /\ row.from # "ARCHIVED"
MastersOK ==
  /\ master \in Seq(MasterRow) /\ Len(master) <= MaxMasters
  /\ \A m \in Masters :
        /\ ArchivedFrom(master[m])
        /\ master[m].number <= m /\ master[m].version <= brief[master[m].job[1]].version
VariantsOK ==
  /\ variant \in Seq(VariantRow)
  /\ \A c \in Variants : variant[c].number <= c /\ variant[c].master \in Masters
                         /\ WasApproved(variant[c].master)
PackagesOK ==
  /\ DOMAIN package \subseteq Variants
  /\ \A c \in DOMAIN package : variant[c].status \in {"APPROVED", "PUBLISHED", "ARCHIVED"}

ContentInv == JobsOK /\ MastersOK /\ VariantsOK /\ PackagesOK

\* A review under way holds its row: nobody else writes it, and nobody revises it.
DecidingInv ==
  /\ deciding \subseteq Reviewing
  /\ \A d, e \in deciding : d.kind = e.kind /\ d.row = e.row => d = e
  /\ \A d \in deciding :
        /\ d.kind = "master" /\ d.action = "RESTORE" => master[d.row].status = "ARCHIVED"
        /\ d.kind = "variant" /\ NeedsHead(d.action) => VariantHead(d.row)

LEMMA RestoresArchived ==
  ASSUME DecidingInv, NEW m \in Masters, RestoreMaster(m)
  PROVE  master[m].status = "ARCHIVED"
<1>1. PICK d \in deciding : d = [kind |-> "master", row |-> m, action |-> "RESTORE"]
  BY DEF RestoreMaster, Decided
<1>2. d.kind = "master" /\ d.row = m /\ d.action = "RESTORE"
  BY <1>1
<1> QED
  BY <1>2 DEF DecidingInv

LEMMA Appended ==
  ASSUME NEW S, NEW s \in Seq(S), NEW x \in S
  PROVE  /\ Append(s, x) \in Seq(S) /\ Len(Append(s, x)) = Len(s) + 1
         /\ Append(s, x)[Len(s) + 1] = x /\ \A i \in 1..Len(s) : Append(s, x)[i] = s[i]
OBVIOUS

LEMMA ContentBegins == ContentInit => ContentInv
<1> SUFFICES ASSUME ContentInit PROVE ContentInv
  OBVIOUS
<1>1. genJob = <<>> /\ asked = {} /\ master = <<>> /\ variant = <<>> /\ package = <<>>
  BY DEF ContentInit
<1>2. JobsOK
  BY <1>1 DEF JobsOK
<1>3. MastersOK /\ VariantsOK
  <2>1. Masters = {} /\ Variants = {} /\ Len(master) = 0
    BY <1>1 DEF Masters, Variants
  <2>2. Len(master) <= MaxMasters
    BY <2>1, ContentAssumption
  <2> QED
    BY <1>1, <2>1, <2>2 DEF MastersOK, VariantsOK
<1>4. PackagesOK
  BY <1>1 DEF PackagesOK
<1> QED
  BY <1>2, <1>3, <1>4 DEF ContentInv

LEMMA ContentFacts ==
  ASSUME ContentInv
  PROVE  /\ Len(master) \in Nat /\ Masters = 1..Len(master)
         /\ Len(variant) \in Nat /\ Variants = 1..Len(variant)
         /\ \A m \in Masters : master[m] \in MasterRow
         /\ \A c \in Variants : variant[c] \in VariantRow
<1>1. Len(master) \in Nat /\ Masters = 1..Len(master) /\ \A m \in Masters : master[m] \in MasterRow
  <2>1. master \in Seq(MasterRow)
    BY DEF ContentInv, MastersOK
  <2> QED
    BY <2>1 DEF Masters
<1>2. Len(variant) \in Nat /\ Variants = 1..Len(variant)
      /\ \A c \in Variants : variant[c] \in VariantRow
  <2>1. variant \in Seq(VariantRow)
    BY DEF ContentInv, VariantsOK
  <2> QED
    BY <2>1 DEF Variants
<1> QED
  BY <1>1, <1>2

LEMMA ContentRests ==
  ASSUME ContentInv, UNCHANGED contentVars, BriefsTypeOK, BriefsTypeOK', BriefsAdvance
  PROVE  ContentInv'
<1>1. \A b \in BriefIds : brief[b].version \in Nat /\ brief'[b].version \in Nat
  <2>1. \A b \in BriefIds : brief[b].version \in Nat
    BY BriefVersions
  <2>2. \A b \in BriefIds : brief'[b].version \in Nat
    BY BriefVersionsNext
  <2> QED
    BY <2>1, <2>2
<1>2. \A m \in Masters : master[m].job[1] \in BriefIds /\ master[m].version \in 1..MaxVersion
  BY ContentFacts DEF MasterRow, JobKey
<1>3. \A m \in Masters : master[m].version <= brief'[master[m].job[1]].version
  <2> SUFFICES ASSUME NEW m \in Masters
               PROVE  master[m].version <= brief'[master[m].job[1]].version
    OBVIOUS
  <2>1. master[m].version <= brief[master[m].job[1]].version
    BY DEF ContentInv, MastersOK
  <2>2. brief'[master[m].job[1]].version >= brief[master[m].job[1]].version
    BY <1>1, <1>2 DEF BriefsAdvance
  <2>3. master[m].version \in Nat
    BY <1>2, VersionBounds
  <2> QED
    BY <1>1, <1>2, <2>1, <2>2, <2>3
<1>4. MastersOK'
  BY <1>3 DEF ContentInv, MastersOK, contentVars, Masters
<1>5. VariantsOK' /\ PackagesOK' /\ JobsOK'
  BY DEF ContentInv, VariantsOK, PackagesOK, JobsOK, contentVars, Masters, Variants, WasApproved
<1> QED
  BY <1>4, <1>5 DEF ContentInv

\* A row of a master changes: its status, and what it was archived from.
LEMMA MasterChanges ==
  ASSUME ContentInv, NEW m \in Masters, NEW row \in MasterRow,
         row.job = master[m].job, row.version = master[m].version, row.number = master[m].number,
         ArchivedFrom(row),
         WasApproved(m) => row.status = "APPROVED" \/ (row.status = "ARCHIVED" /\ row.from = "APPROVED"),
         master' = [master EXCEPT ![m] = row],
         UNCHANGED <<genJob, asked, variant, package, brief>>
  PROVE  ContentInv'
<1>0. master \in Seq(MasterRow)
  BY DEF ContentInv, MastersOK
<1>1. master' \in Seq(MasterRow) /\ Masters' = Masters /\ Len(master') = Len(master)
      /\ master'[m] = row /\ \A n \in Masters : n # m => master'[n] = master[n]
  BY <1>0 DEF Masters
<1>2. MastersOK'
  <2> SUFFICES ASSUME NEW n \in Masters
               PROVE  /\ ArchivedFrom(master'[n])
                      /\ master'[n].number <= n
                      /\ master'[n].version <= brief[master'[n].job[1]].version
    BY <1>1 DEF ContentInv, MastersOK
  <2>1. /\ ArchivedFrom(master[n])
        /\ master[n].number <= n /\ master[n].version <= brief[master[n].job[1]].version
    BY DEF ContentInv, MastersOK
  <2> QED
    BY <1>1, <2>1
<1>3. \A n \in Masters : WasApproved(n) => WasApproved(n)'
  BY <1>1 DEF WasApproved
<1>4. VariantsOK'
  BY <1>1, <1>3 DEF ContentInv, VariantsOK, Variants
<1>5. PackagesOK' /\ JobsOK'
  BY DEF ContentInv, PackagesOK, JobsOK, Variants
<1> QED
  BY <1>2, <1>4, <1>5 DEF ContentInv

\* A master is added, as a job writes one or somebody revises one.
LEMMA MasterGrows ==
  ASSUME ContentInv, NEW row \in MasterRow,
         ArchivedFrom(row),
         Len(master) < MaxMasters,
         row.number <= Len(master) + 1, row.version <= brief[row.job[1]].version,
         master' = Append(master, row), DOMAIN genJob' \subseteq JobKey,
         UNCHANGED <<asked, variant, package, brief>>
  PROVE  ContentInv'
<1>0. master \in Seq(MasterRow)
  BY DEF ContentInv, MastersOK
<1>1. Len(master) \in Nat /\ Masters = 1..Len(master)
  BY ContentFacts
<1>2. master' \in Seq(MasterRow) /\ Len(master') = Len(master) + 1
      /\ master'[Len(master) + 1] = row /\ \A n \in 1..Len(master) : master'[n] = master[n]
  BY <1>0, Appended
<1>3. Masters' = 1..(Len(master) + 1)
  BY <1>2 DEF Masters
<1>4. master'[Len(master) + 1] = row /\ \A n \in Masters : n \in Masters' /\ master'[n] = master[n]
  BY <1>1, <1>2, <1>3
<1>5. \A n \in Masters' : n \in Masters \/ n = Len(master) + 1
  BY <1>1, <1>3
<1>6. MastersOK'
  <2>1. Len(master') <= MaxMasters
    BY <1>1, <1>2, ContentAssumption
  <2> QED
    BY <1>2, <1>4, <1>5, <2>1 DEF ContentInv, MastersOK
<1>7. \A n \in Masters : WasApproved(n) => WasApproved(n)'
  BY <1>4 DEF WasApproved
<1>8. VariantsOK'
  BY <1>4, <1>7 DEF ContentInv, VariantsOK, Variants
<1>9. PackagesOK' /\ JobsOK'
  BY DEF ContentInv, PackagesOK, JobsOK, Variants
<1> QED
  BY <1>6, <1>8, <1>9 DEF ContentInv

\* A row of a platform content changes status, and may get its package.
LEMMA VariantChanges ==
  ASSUME ContentInv, NEW c \in Variants, NEW row \in VariantRow,
         row.master = variant[c].master, row.number = variant[c].number,
         variant' = [variant EXCEPT ![c] = row],
         DOMAIN package' \subseteq DOMAIN package \cup {c},
         c \in DOMAIN package' => row.status \in {"APPROVED", "PUBLISHED", "ARCHIVED"},
         UNCHANGED <<genJob, asked, master, brief>>
  PROVE  ContentInv'
<1>1. variant' \in Seq(VariantRow) /\ Variants' = Variants
      /\ variant'[c] = row /\ \A d \in Variants : d # c => variant'[d] = variant[d]
  BY DEF ContentInv, VariantsOK, Variants
<1>2. MastersOK' /\ JobsOK'
  BY DEF ContentInv, MastersOK, JobsOK, Masters
<1>3. \A n \in Masters : WasApproved(n) => WasApproved(n)'
  BY DEF WasApproved
<1>4. VariantsOK'
  BY <1>1, <1>3 DEF ContentInv, VariantsOK, Masters
<1>5. PackagesOK'
  BY <1>1 DEF ContentInv, PackagesOK
<1> QED
  BY <1>2, <1>4, <1>5 DEF ContentInv

LEMMA VariantGrows ==
  ASSUME ContentInv, NEW row \in VariantRow, row.number <= Len(variant) + 1,
         row.master \in Masters, WasApproved(row.master),
         variant' = Append(variant, row), UNCHANGED <<genJob, asked, master, package, brief>>
  PROVE  ContentInv'
<1>1. Len(variant) \in Nat /\ Variants = 1..Len(variant) /\ variant \in Seq(VariantRow)
  BY ContentFacts DEF ContentInv, VariantsOK
<1>2. variant' \in Seq(VariantRow) /\ Len(variant') = Len(variant) + 1
  BY <1>1
<1>3. Variants' = 1..(Len(variant) + 1)
  BY <1>2 DEF Variants
<1>4. variant'[Len(variant) + 1] = row
      /\ \A d \in Variants : d \in Variants' /\ variant'[d] = variant[d]
  BY <1>1, <1>3
<1>5. \A d \in Variants' : d \in Variants \/ d = Len(variant) + 1
  BY <1>1, <1>3
<1>6. MastersOK' /\ JobsOK'
  BY DEF ContentInv, MastersOK, JobsOK, Masters
<1>7. \A n \in Masters : WasApproved(n) => WasApproved(n)'
  BY DEF WasApproved
<1>8. VariantsOK'
  BY <1>2, <1>4, <1>5, <1>7 DEF ContentInv, VariantsOK, Masters
<1>9. PackagesOK'
  BY <1>4 DEF ContentInv, PackagesOK
<1> QED
  BY <1>6, <1>8, <1>9 DEF ContentInv

\* Only jobs, requests and packages change.
LEMMA RowsAroundChange ==
  ASSUME ContentInv, DOMAIN genJob' \subseteq JobKey, asked' \subseteq JobKey,
         DOMAIN package' \subseteq Variants,
         \A c \in DOMAIN package' \ DOMAIN package :
            variant[c].status \in {"APPROVED", "PUBLISHED", "ARCHIVED"},
         UNCHANGED <<master, variant, brief>>
  PROVE  ContentInv'
<1>1. MastersOK' /\ JobsOK'
  BY DEF ContentInv, MastersOK, JobsOK, Masters
<1>2. VariantsOK' /\ PackagesOK'
  BY DEF ContentInv, VariantsOK, PackagesOK, Masters, Variants, WasApproved
<1> QED
  BY <1>1, <1>2 DEF ContentInv

LEMMA ReviewedStatus ==
  /\ \A status, action : Review(status, action) \subseteq VariantStatus
  /\ \A action \in Actions, status \in MasterStatus :
        \A s \in Review(status, action) :
           /\ s \in MasterStatus /\ status # "ARCHIVED"
           /\ status = "APPROVED" => s = "ARCHIVED"
BY DEF Review, VariantStatus, MasterStatus, Actions

LEMMA MasterReviewed ==
  ASSUME ContentInv, NEW m \in Masters, NEW action \in Actions, ReviewMaster(m, action),
         UNCHANGED brief
  PROVE  ContentInv'
<1>1. PICK s \in Review(master[m].status, action) :
        master' = [master EXCEPT ![m].status = s,
                                 ![m].from = IF s = "ARCHIVED" THEN master[m].status ELSE @]
  BY DEF ReviewMaster
<1>2. master[m] \in MasterRow /\ master[m].status \in MasterStatus
  BY ContentFacts DEF MasterRow
<1>3. s \in MasterStatus /\ master[m].status # "ARCHIVED"
      /\ (master[m].status = "APPROVED" => s = "ARCHIVED")
  BY <1>2, ReviewedStatus
<1>4. ArchivedFrom(master[m])
  BY DEF ContentInv, MastersOK
<1>5. master[m].from = ""
  BY <1>3, <1>4 DEF ArchivedFrom
<1>6. PICK from : from = IF s = "ARCHIVED" THEN master[m].status ELSE ""
  OBVIOUS
<1>7. PICK row : row = [[master[m] EXCEPT !.status = s] EXCEPT !.from = from]
  OBVIOUS
<1>8. master' = [master EXCEPT ![m] = row]
  BY <1>1, <1>5, <1>6, <1>7, <1>2 DEF MasterRow
<1>9. from \in MasterStatus \cup {""}
  BY <1>2, <1>6
<1>10. row \in MasterRow
  BY <1>2, <1>3, <1>7, <1>9 DEF MasterRow
<1>11. /\ row.job = master[m].job /\ row.version = master[m].version
       /\ row.number = master[m].number /\ row.status = s /\ row.from = from
  BY <1>2, <1>7 DEF MasterRow
<1>12. ArchivedFrom(row)
  BY <1>2, <1>3, <1>6, <1>11 DEF ArchivedFrom, MasterStatus
<1>13. WasApproved(m) => row.status = "APPROVED" \/ (row.status = "ARCHIVED" /\ row.from = "APPROVED")
  BY <1>3, <1>6, <1>11 DEF WasApproved
<1> QED
  BY <1>8, <1>10, <1>11, <1>12, <1>13, MasterChanges DEF ReviewMaster

LEMMA MasterRestored ==
  ASSUME ContentInv, DecidingInv, NEW m \in Masters, RestoreMaster(m), UNCHANGED brief
  PROVE  ContentInv'
<1>1. master[m] \in MasterRow /\ master[m].from \in MasterStatus \cup {""}
  BY ContentFacts DEF MasterRow
<1>2. ArchivedFrom(master[m]) /\ master[m].status = "ARCHIVED"
  BY RestoresArchived DEF ContentInv, MastersOK
<1>3. master[m].from \in MasterStatus /\ master[m].from # "ARCHIVED"
  BY <1>1, <1>2 DEF ArchivedFrom
<1>4. PICK from : from = master[m].from
  OBVIOUS
<1>5. PICK row : row = [[master[m] EXCEPT !.status = from] EXCEPT !.from = ""]
  OBVIOUS
<1>6. master' = [master EXCEPT ![m] = row]
  BY <1>1, <1>4, <1>5 DEF RestoreMaster, MasterRow
<1>7. row \in MasterRow
  BY <1>1, <1>3, <1>4, <1>5 DEF MasterRow
<1>8. /\ row.job = master[m].job /\ row.version = master[m].version
      /\ row.number = master[m].number /\ row.status = from /\ row.from = ""
  BY <1>1, <1>5 DEF MasterRow
<1>9. ArchivedFrom(row)
  BY <1>3, <1>4, <1>8 DEF ArchivedFrom
<1>10. WasApproved(m) => row.status = "APPROVED" \/ (row.status = "ARCHIVED" /\ row.from = "APPROVED")
  BY <1>2, <1>4, <1>8 DEF WasApproved
<1> QED
  BY <1>6, <1>7, <1>8, <1>9, <1>10, MasterChanges DEF RestoreMaster

LEMMA MasterRevised ==
  ASSUME ContentInv, NEW m \in Masters, ReviseMaster(m), UNCHANGED brief
  PROVE  ContentInv'
<1>1. master[m] \in MasterRow /\ m \in 1..Len(master) /\ Len(master) \in Nat
  BY ContentFacts
<1>2. Len(master) < MaxMasters /\ MaxMasters \in Nat
  BY ContentAssumption DEF ReviseMaster
<1>3. ArchivedFrom(master[m]) /\ master[m].status # "ARCHIVED" /\ master[m].number <= m
      /\ master[m].version <= brief[master[m].job[1]].version
  BY DEF ContentInv, MastersOK, ReviseMaster
<1>4. PICK row : row = [[[master[m] EXCEPT !.number = master[m].number + 1] EXCEPT !.previous = m]
                          EXCEPT !.status = "DRAFT"]
  OBVIOUS
<1>5. master' = Append(master, row)
  BY <1>1, <1>4 DEF ReviseMaster, MasterRow
<1>6. master[m].number \in 1..MaxMasters
  BY <1>1 DEF MasterRow
<1>7. master[m].number + 1 \in 1..MaxMasters /\ m \in 0..MaxMasters
      /\ master[m].number + 1 <= Len(master) + 1
  BY <1>1, <1>2, <1>3, <1>6
<1>8. row = [job |-> master[m].job, version |-> master[m].version,
             number |-> master[m].number + 1, previous |-> m, status |-> "DRAFT",
             from |-> master[m].from]
  BY <1>1, <1>4 DEF MasterRow
<1>9. row \in MasterRow
  <2>1. master[m].job \in JobKey /\ master[m].version \in 1..MaxVersion
        /\ master[m].from \in MasterStatus \cup {""} /\ "DRAFT" \in MasterStatus
    BY <1>1 DEF MasterRow, MasterStatus
  <2> QED
    BY <1>7, <1>8, <2>1 DEF MasterRow
<1>10. ArchivedFrom(row)
  BY <1>3, <1>8 DEF ArchivedFrom
<1>11. row.number <= Len(master) + 1 /\ row.version <= brief[row.job[1]].version
  BY <1>3, <1>7, <1>8
<1>12. DOMAIN genJob' \subseteq JobKey /\ UNCHANGED <<asked, variant, package, brief>>
  BY DEF ReviseMaster, ContentInv, JobsOK
<1> QED
  BY <1>2, <1>5, <1>9, <1>10, <1>11, <1>12, MasterGrows

LEMMA MasterWritten ==
  ASSUME ContentInv, BriefsTypeOK, BriefsNumbered, NEW key \in DOMAIN genJob, WriteMaster(key),
         UNCHANGED brief
  PROVE  ContentInv'
<1>1. key \in JobKey /\ key[1] \in BriefIds
  BY DEF ContentInv, JobsOK, JobKey
<1>2. UNCHANGED <<asked, variant, package>> /\ DOMAIN genJob' = DOMAIN genJob
      /\ DOMAIN genJob \subseteq JobKey /\ asked \subseteq JobKey
  BY DEF WriteMaster, ContentInv, JobsOK
<1>3. CASE UNCHANGED master
  BY <1>2, <1>3, RowsAroundChange DEF ContentInv, PackagesOK
<1>4. CASE ~UNCHANGED master
  <2>1. brief[key[1]].status = "READY" /\ Len(master) < MaxMasters /\ Len(master) \in Nat
    BY <1>4, ContentFacts DEF WriteMaster
  <2>2. brief[key[1]].version \in Nat /\ brief[key[1]].version \in 0..MaxVersion
    BY <1>1, BriefVersions DEF BriefsTypeOK, BriefRow
  <2>3. PICK v \in Nat : v = brief[key[1]].version
    BY <2>2
  <2>4. PICK row : row = [job |-> key, version |-> v, number |-> 1,
                          previous |-> 0, status |-> "APPROVED", from |-> ""]
    OBVIOUS
  <2>5. master' = Append(master, row)
    BY <1>4, <2>3, <2>4 DEF WriteMaster
  <2>6. 1 \in 1..MaxMasters /\ 0 \in 0..MaxMasters
    BY <2>1, ContentAssumption
  <2>7. v \in 1..MaxVersion
    <3>1. v > 0
      BY <1>1, <2>1, <2>3 DEF BriefsNumbered, Taken
    <3> QED
      BY <2>2, <2>3, <3>1, VersionBounds
  <2>8. row \in MasterRow
    BY <1>1, <2>4, <2>6, <2>7 DEF MasterRow, MasterStatus
  <2>9. ArchivedFrom(row)
    BY <2>4 DEF ArchivedFrom
  <2>10. row.number <= Len(master) + 1 /\ row.version <= brief[row.job[1]].version
    <3>1. row.number = 1 /\ row.version = v /\ row.job = key
      BY <2>4
    <3> QED
      BY <2>1, <2>2, <2>3, <3>1
  <2> QED
    BY <1>2, <2>1, <2>5, <2>8, <2>9, <2>10, MasterGrows
<1> QED
  BY <1>3, <1>4

\* A review or the publication changes the status of a platform content.
LEMMA VariantTransits ==
  ASSUME ContentInv, NEW c \in Variants, NEW action, Transits(c, action),
         DOMAIN package' \subseteq DOMAIN package \cup (IF action = "APPROVE" THEN {c} ELSE {}),
         UNCHANGED <<genJob, asked, master, brief>>
  PROVE  ContentInv'
<1>1. PICK s \in Review(variant[c].status, action) : variant' = [variant EXCEPT ![c].status = s]
  BY DEF Transits
<1>2. variant[c] \in VariantRow /\ s \in VariantStatus
  BY ContentFacts, ReviewedStatus
<1>3. PICK row : row = [variant[c] EXCEPT !.status = s]
  OBVIOUS
<1>4. row \in VariantRow /\ row.master = variant[c].master /\ row.number = variant[c].number
      /\ row.status = s
  BY <1>2, <1>3 DEF VariantRow
<1>5. variant' = [variant EXCEPT ![c] = row]
  BY <1>1, <1>3
<1>6. c \in DOMAIN package' => s \in {"APPROVED", "PUBLISHED", "ARCHIVED"}
  <2>1. c \in DOMAIN package => variant[c].status \in {"APPROVED", "PUBLISHED", "ARCHIVED"}
    BY DEF ContentInv, PackagesOK
  <2>2. variant[c].status \in {"APPROVED", "PUBLISHED", "ARCHIVED"}
        => s \in {"APPROVED", "PUBLISHED", "ARCHIVED"}
    BY DEF Review
  <2>3. action = "APPROVE" => s = "APPROVED"
    BY DEF Review
  <2> QED
    BY <2>1, <2>2, <2>3
<1>7. DOMAIN package' \subseteq DOMAIN package \cup {c}
  OBVIOUS
<1> QED
  BY <1>4, <1>5, <1>6, <1>7, VariantChanges

LEMMA PackagedDomain ==
  ASSUME NEW c, Packaged(c)
  PROVE  DOMAIN package' = DOMAIN package \cup {c}
BY DEF Packaged, With

LEMMA VariantAdapted ==
  ASSUME ContentInv, NEW m \in Masters, NEW platform \in Platforms, AdaptMaster(m, platform),
         UNCHANGED brief
  PROVE  ContentInv'
<1>1. PICK row : row = [master |-> m, platform |-> platform, number |-> 1, previous |-> 0,
                        status |-> "IN_REVIEW"]
  OBVIOUS
<1>2. variant' = Append(variant, row) /\ Len(variant) < MaxContents /\ WasApproved(m)
      /\ UNCHANGED <<genJob, asked, master, package>>
  BY <1>1 DEF AdaptMaster, WasApproved
<1>3. Len(variant) \in Nat /\ Len(master) \in Nat /\ m \in 1..Len(master)
  BY ContentFacts
<1>4. m \in 1..MaxMasters
  <2>1. Len(master) <= MaxMasters
    BY DEF ContentInv, MastersOK
  <2> QED
    BY <1>3, <2>1, ContentAssumption
<1>5. 1 \in 1..MaxContents /\ 0 \in 0..MaxContents /\ 1 <= Len(variant) + 1
  BY <1>2, <1>3, ContentAssumption
<1>6. row \in VariantRow
  BY <1>1, <1>4, <1>5 DEF VariantRow, VariantStatus, MasterStatus
<1> QED
  BY <1>1, <1>2, <1>5, <1>6, VariantGrows

LEMMA VariantRevised ==
  ASSUME ContentInv, NEW c \in Variants, ReviseVariant(c), UNCHANGED brief
  PROVE  ContentInv'
<1>1. variant[c] \in VariantRow /\ c \in 1..Len(variant) /\ Len(variant) \in Nat
  BY ContentFacts
<1>2. Len(variant) < MaxContents /\ MaxContents \in Nat
      /\ UNCHANGED <<genJob, asked, master, package>>
  BY ContentAssumption DEF ReviseVariant
<1>3. variant[c].number <= c /\ variant[c].master \in Masters /\ WasApproved(variant[c].master)
  BY DEF ContentInv, VariantsOK
<1>4. PICK row : row = [[[variant[c] EXCEPT !.number = variant[c].number + 1] EXCEPT !.previous = c]
                          EXCEPT !.status = "DRAFT"]
  OBVIOUS
<1>5. variant' = Append(variant, row)
  BY <1>1, <1>4 DEF ReviseVariant, VariantRow
<1>6. variant[c].number \in 1..MaxContents
  BY <1>1 DEF VariantRow
<1>7. variant[c].number + 1 \in 1..MaxContents /\ c \in 0..MaxContents
      /\ variant[c].number + 1 <= Len(variant) + 1
  BY <1>1, <1>2, <1>3, <1>6
<1>8. row = [master |-> variant[c].master, platform |-> variant[c].platform,
             number |-> variant[c].number + 1, previous |-> c, status |-> "DRAFT"]
  BY <1>1, <1>4 DEF VariantRow
<1>9. row \in VariantRow
  <2>1. variant[c].master \in 1..MaxMasters /\ variant[c].platform \in Platforms
        /\ "DRAFT" \in VariantStatus
    BY <1>1 DEF VariantRow, VariantStatus, MasterStatus
  <2> QED
    BY <1>7, <1>8, <2>1 DEF VariantRow
<1>10. row.number <= Len(variant) + 1 /\ row.master = variant[c].master
  BY <1>7, <1>8
<1> QED
  BY <1>2, <1>3, <1>5, <1>9, <1>10, VariantGrows

LEMMA ContentKeeps ==
  ASSUME ContentInv, DecidingInv, BriefsTypeOK, BriefsNumbered, ContentNext
  PROVE  ContentInv' /\ UNCHANGED brief
<1>0. DOMAIN genJob \subseteq JobKey /\ asked \subseteq JobKey /\ DOMAIN package \subseteq Variants
  BY DEF ContentInv, JobsOK, PackagesOK
<1>b. UNCHANGED brief
  BY DEF ContentNext, GenerationStep, EditStep, AskForMaster, CreateGenerationJob, BuildInput,
         WriteMaster, EndJob, briefVars
<1>1. ASSUME NEW b \in BriefIds, AskForMaster(b) PROVE ContentInv'
  <2>1. brief[b].version \in 1..MaxVersion
    <3>1. brief[b].version \in 0..MaxVersion
      BY DEF BriefsTypeOK, BriefRow
    <3>2. brief[b].version > 0
      BY <1>1 DEF AskForMaster, BriefsNumbered
    <3> QED
      BY <3>1, <3>2, VersionBounds
  <2>2. asked' \subseteq JobKey
    BY <1>0, <1>1, <2>1 DEF AskForMaster, JobKey
  <2> QED
    BY <1>0, <1>b, <1>1, <2>2, RowsAroundChange DEF AskForMaster
<1>2. ASSUME NEW key \in asked, CreateGenerationJob(key) PROVE ContentInv'
  <2>1. DOMAIN genJob' \subseteq JobKey
    BY <1>0, <1>2 DEF CreateGenerationJob, With
  <2> QED
    BY <1>0, <1>b, <1>2, <2>1, RowsAroundChange DEF CreateGenerationJob
<1>3. ASSUME NEW key \in DOMAIN genJob, WriteMaster(key) PROVE ContentInv'
  BY <1>b, <1>3, MasterWritten
<1>4. ASSUME NEW key \in DOMAIN genJob, EndJob(key) PROVE ContentInv'
  <2>1. DOMAIN genJob' = DOMAIN genJob
    BY <1>4 DEF EndJob
  <2> QED
    BY <1>0, <1>b, <1>4, <2>1, RowsAroundChange DEF EndJob
<1>5. ASSUME NEW m \in Masters, RestoreMaster(m) PROVE ContentInv'
  BY <1>b, <1>5, MasterRestored
<1>6. ASSUME NEW m \in Masters, ReviseMaster(m) PROVE ContentInv'
  BY <1>b, <1>6, MasterRevised
<1>7. ASSUME NEW m \in Masters, NEW action \in Actions, ReviewMaster(m, action) PROVE ContentInv'
  BY <1>b, <1>7, MasterReviewed
<1>8. ASSUME NEW m \in Masters, NEW platform \in Platforms, AdaptMaster(m, platform)
      PROVE  ContentInv'
  BY <1>b, <1>8, VariantAdapted
<1>9. ASSUME NEW c \in Variants, ReviseVariant(c) PROVE ContentInv'
  BY <1>b, <1>9, VariantRevised
<1>10. ASSUME NEW c \in Variants, PreparePackage(c) PROVE ContentInv'
  <2>1. DOMAIN package' = DOMAIN package \cup {c} /\ variant[c].status = "APPROVED"
    BY <1>10, PackagedDomain DEF PreparePackage
  <2> QED
    BY <1>0, <1>b, <1>10, <2>1, RowsAroundChange DEF PreparePackage
<1>11. ASSUME NEW c \in Variants, ApprovePackage(c) PROVE ContentInv'
  <2>1. DOMAIN package' = DOMAIN package
    BY <1>11 DEF ApprovePackage
  <2> QED
    BY <1>0, <1>b, <1>11, <2>1, RowsAroundChange DEF ApprovePackage
<1>12. ASSUME NEW c \in Variants, NEW action \in Actions, ReviewVariant(c, action) PROVE ContentInv'
  <2>1. DOMAIN package' \subseteq DOMAIN package \cup (IF action = "APPROVE" THEN {c} ELSE {})
    BY <1>12, PackagedDomain DEF ReviewVariant
  <2> QED
    BY <1>b, <1>12, <2>1, VariantTransits DEF ReviewVariant
<1>13. CASE UNCHANGED <<genJob, asked, master, variant, package>>
  BY <1>0, <1>b, <1>13, RowsAroundChange
<1> QED
  BY <1>b, <1>1, <1>2, <1>3, <1>4, <1>5, <1>6, <1>7, <1>8, <1>9, <1>10, <1>11, <1>12, <1>13
     DEF ContentNext, GenerationStep, EditStep, DecideMaster, DecideVariant, Decide

\* No review begins and the rows of those under way stay in order.
LEMMA DecidingRests ==
  ASSUME DecidingInv, deciding' \subseteq deciding,
         Masters \subseteq Masters', Variants \subseteq Variants',
         \A d \in deciding' : d.kind = "master" => master'[d.row].status = master[d.row].status,
         \A d \in deciding' : d.kind = "variant" /\ VariantHead(d.row) => VariantHead(d.row)'
  PROVE  DecidingInv'
<1>1. deciding' \subseteq Reviewing'
  BY DEF DecidingInv, Reviewing
<1>2. \A d \in deciding' : d \in deciding
  OBVIOUS
<1> QED
  BY <1>1, <1>2 DEF DecidingInv, NeedsHead

\* A review begins, of a row that nobody holds.
LEMMA DecidingGrows ==
  ASSUME DecidingInv, NEW kind, NEW n, NEW action, Decide(kind, n, action),
         [kind |-> kind, row |-> n, action |-> action] \in Reviewing,
         kind = "master" /\ action = "RESTORE" => master[n].status = "ARCHIVED",
         kind = "variant" /\ NeedsHead(action) => VariantHead(n)
  PROVE  DecidingInv'
<1>1. PICK d : d = [kind |-> kind, row |-> n, action |-> action]
  OBVIOUS
<1>2. d.kind = kind /\ d.row = n /\ d.action = action /\ d \in Reviewing
  BY <1>1
<1>3. deciding' = deciding \cup {d} /\ UNCHANGED <<master, variant>> /\ ~Locked(kind, n)
  BY <1>1 DEF Decide
<1>4. Masters' = Masters /\ Variants' = Variants /\ \A c : VariantHead(c)' = VariantHead(c)
  BY <1>3 DEF Masters, Variants, VariantHead
<1>5. deciding' \subseteq Reviewing'
  BY <1>2, <1>3, <1>4 DEF DecidingInv, Reviewing
<1>6. \A e \in deciding : ~(e.kind = d.kind /\ e.row = d.row)
  BY <1>2, <1>3 DEF Locked
<1>7. \A e, f \in deciding' : e.kind = f.kind /\ e.row = f.row => e = f
  BY <1>3, <1>6 DEF DecidingInv
<1>8. \A e \in deciding' :
        /\ e.kind = "master" /\ e.action = "RESTORE" => master'[e.row].status = "ARCHIVED"
        /\ e.kind = "variant" /\ NeedsHead(e.action) => VariantHead(e.row)'
  BY <1>2, <1>3, <1>4 DEF DecidingInv
<1> QED
  BY <1>5, <1>7, <1>8 DEF DecidingInv, NeedsHead

\* The review that ends was the only one of its row.
LEMMA DecidedOnce ==
  ASSUME DecidingInv, NEW kind, NEW n, NEW action, Decided(kind, n, action)
  PROVE  /\ deciding' \subseteq deciding
         /\ Locked(kind, n) /\ ~Locked(kind, n)'
         /\ \A d \in deciding' : ~(d.kind = kind /\ d.row = n)
         /\ kind = "variant" /\ NeedsHead(action) => VariantHead(n)
<1>1. PICK d \in deciding : d = [kind |-> kind, row |-> n, action |-> action]
  BY DEF Decided
<1>2. d.kind = kind /\ d.row = n /\ d.action = action
  BY <1>1
<1>3. deciding' = deciding \ {d}
  BY <1>1 DEF Decided
<1>4. \A e \in deciding' : ~(e.kind = kind /\ e.row = n)
  BY <1>2, <1>3 DEF DecidingInv
<1>5. Locked(kind, n) /\ ~Locked(kind, n)'
  BY <1>2, <1>4 DEF Locked
<1> QED
  BY <1>2, <1>3, <1>4, <1>5 DEF DecidingInv

LEMMA VariantDecided ==
  ASSUME DecidingInv, NEW c \in Variants, NEW action \in Actions \cup {"PUBLISH"},
         DecideVariant(c, action)
  PROVE  DecidingInv'
<1>1. [kind |-> "variant", row |-> c, action |-> action] \in Reviewing
  BY DEF Reviewing
<1>2. Decide("variant", c, action) /\ (NeedsHead(action) => VariantHead(c))
  BY DEF DecideVariant
<1> QED
  BY <1>1, <1>2, DecidingGrows

LEMMA TransitsRest ==
  ASSUME ContentInv, DecidingInv, NEW c \in Variants, NEW action, Transits(c, action),
         UNCHANGED master
  PROVE  DecidingInv'
<1>1. PICK s : variant' = [variant EXCEPT ![c].status = s]
  BY DEF Transits
<1>2. Variants' = Variants /\ \A d \in Variants : variant'[d].previous = variant[d].previous
  BY <1>1, ContentFacts DEF Variants, VariantRow
<1>3. \A d : VariantHead(d) => VariantHead(d)'
  BY <1>2 DEF VariantHead
<1>4. deciding' \subseteq deciding
  BY DecidedOnce DEF Transits
<1> QED
  BY <1>2, <1>3, <1>4, DecidingRests DEF Masters

LEMMA DecidingKeeps ==
  ASSUME ContentInv, DecidingInv, ContentNext
  PROVE  DecidingInv'
<1>1. CASE UNCHANGED <<deciding, master, variant>>
  BY <1>1, DecidingRests DEF Masters, Variants, VariantHead
<1>2. ASSUME NEW row, master' = Append(master, row), UNCHANGED <<deciding, variant>>
      PROVE  DecidingInv'
  <2>1. Len(master) \in Nat /\ Masters = 1..Len(master) /\ master \in Seq(MasterRow)
    BY ContentFacts DEF ContentInv, MastersOK
  <2>2. Masters \subseteq Masters' /\ \A m \in Masters : master'[m] = master[m]
    BY <1>2, <2>1 DEF Masters
  <2>3. \A d \in deciding : d.kind = "master" => d.row \in Masters
    BY DEF DecidingInv, Reviewing
  <2> QED
    BY <1>2, <2>2, <2>3, DecidingRests DEF Variants, VariantHead
<1>3. ASSUME NEW row, variant' = Append(variant, row), UNCHANGED <<deciding, master>>,
             \A d \in deciding : d.kind = "variant" => d.row # row.previous
      PROVE  DecidingInv'
  <2>1. Len(variant) \in Nat /\ Variants = 1..Len(variant) /\ variant \in Seq(VariantRow)
    BY ContentFacts DEF ContentInv, VariantsOK
  <2>2. \A c \in Variants : c \in Variants' /\ variant'[c] = variant[c]
    BY <1>3, <2>1 DEF Variants
  <2>3. \A c \in Variants' \ Variants : variant'[c] = row
    BY <1>3, <2>1 DEF Variants
  <2>4. \A d \in deciding : d.kind = "variant" /\ VariantHead(d.row) => VariantHead(d.row)'
    BY <1>3, <2>2, <2>3 DEF VariantHead
  <2> QED
    BY <1>3, <2>2, <2>4, DecidingRests DEF Masters
<1>4. ASSUME NEW m \in Masters, NEW action, Decided("master", m, action), NEW s, NEW from,
             master' = [master EXCEPT ![m].status = s, ![m].from = from], UNCHANGED variant
      PROVE  DecidingInv'
  <2>1. Masters' = Masters /\ \A n \in Masters : n # m => master'[n] = master[n]
    BY <1>4 DEF Masters
  <2>2. deciding' \subseteq deciding /\ \A d \in deciding' : d.kind = "master" => d.row # m
    BY <1>4, DecidedOnce
  <2>3. \A d \in deciding : d.kind = "master" => d.row \in Masters
    BY DEF DecidingInv, Reviewing
  <2> QED
    BY <1>4, <2>1, <2>2, <2>3, DecidingRests DEF Variants, VariantHead
<1>5. ASSUME NEW m \in Masters, NEW action \in Actions \cup {"RESTORE"}, DecideMaster(m, action)
      PROVE  DecidingInv'
  <2>1. [kind |-> "master", row |-> m, action |-> action] \in Reviewing
    BY DEF Reviewing
  <2>2. Decide("master", m, action) /\ (action = "RESTORE" => master[m].status = "ARCHIVED")
    BY <1>5 DEF DecideMaster
  <2> QED
    BY <2>1, <2>2, DecidingGrows
<1>6. ASSUME NEW c \in Variants, NEW action \in Actions \cup {"PUBLISH"}, DecideVariant(c, action)
      PROVE  DecidingInv'
  BY <1>6, VariantDecided
<1>7. ASSUME NEW c \in Variants, NEW action \in Actions, ReviewVariant(c, action)
      PROVE  DecidingInv'
  BY <1>7, TransitsRest DEF ReviewVariant
<1>8. ASSUME NEW m \in Masters, NEW action \in Actions, ReviewMaster(m, action)
      PROVE  DecidingInv'
  BY <1>4, <1>8 DEF ReviewMaster
<1>9. ASSUME NEW m \in Masters, RestoreMaster(m) PROVE DecidingInv'
  BY <1>4, <1>9 DEF RestoreMaster
<1>10. ASSUME NEW m \in Masters, NEW platform \in Platforms, AdaptMaster(m, platform)
       PROVE  DecidingInv'
  <2>1. PICK row : row = [master |-> m, platform |-> platform, number |-> 1,
                          previous |-> 0, status |-> "IN_REVIEW"]
    OBVIOUS
  <2>2. variant' = Append(variant, row) /\ UNCHANGED <<deciding, master>> /\ row.previous = 0
    BY <1>10, <2>1 DEF AdaptMaster
  <2>3. \A d \in deciding : d.kind = "variant" => d.row \in 1..Len(variant)
    BY ContentFacts DEF DecidingInv, Reviewing
  <2>4. \A d \in deciding : d.kind = "variant" => d.row # row.previous
    BY <2>2, <2>3, ContentFacts
  <2> QED
    BY <1>3, <2>2, <2>4
<1>11. ASSUME NEW c \in Variants, ReviseVariant(c) PROVE DecidingInv'
  <2>1. PICK row : row = [variant[c] EXCEPT !.number = @ + 1, !.previous = c, !.status = "DRAFT"]
    OBVIOUS
  <2>2. variant' = Append(variant, row) /\ UNCHANGED <<deciding, master>> /\ ~Locked("variant", c)
    BY <1>11, <2>1 DEF ReviseVariant, VariantFree
  <2>3. row.previous = c
    BY <2>1, ContentFacts DEF VariantRow
  <2> QED
    BY <1>3, <2>2, <2>3 DEF Locked
<1>12. ASSUME NEW m \in Masters, ReviseMaster(m) PROVE DecidingInv'
  BY <1>2, <1>12 DEF ReviseMaster
<1>13. ASSUME NEW key \in DOMAIN genJob, WriteMaster(key) PROVE DecidingInv'
  BY <1>1, <1>2, <1>13 DEF WriteMaster
<1> QED
  BY <1>1, <1>5, <1>6, <1>7, <1>8, <1>9, <1>10, <1>11, <1>12, <1>13
     DEF ContentNext, GenerationStep, EditStep, AskForMaster, CreateGenerationJob, EndJob,
         PreparePackage, ApprovePackage

-----------------------------------------------------------------------------
(* Tracked links *)

\* The content was published, and is or was archived since.
Out(c) == variant[c].status \in {"PUBLISHED", "ARCHIVED"}

\* The post of the task is on record and its content was published.
Published(t) == task[t] = "SUCCEEDED" /\ Out(TaskContent[t])

TasksOK ==
  \A t \in Tasks : /\ task[t] # "none" => TaskContent[t] \in Variants
                   /\ task[t] = "SUCCEEDED" => Out(TaskContent[t])
ClosingOK == \A t \in DOMAIN closing : task[t] = "SUCCEEDED"
LinksOK ==
  /\ \A k \in DOMAIN link : link[k].post \in Tasks => Published(link[k].post)
  /\ \A c \in 1..MaxContents : PreKey(c) \in DOMAIN link =>
        link[PreKey(c)].post \in {"none"} \cup {t \in Tasks : TaskContent[t] = c}
ClicksOK ==
  \A e \in click : LET post == link[short[e.short]].post IN
     /\ e.short \in DOMAIN short /\ Published(e.task)
     /\ post \in Tasks /\ TaskContent[post] = TaskContent[e.task]

LinkInv == TrackingTypeOK /\ TasksOK /\ ClosingOK /\ LinksOK /\ ClicksOK

\* What was published stays so.
OutStaysOut == \A c \in Variants : c \in Variants' /\ (Out(c) => Out(c)')

LEMMA LinksBegin == TrackingInit => LinkInv
<1> SUFFICES ASSUME TrackingInit PROVE LinkInv
  OBVIOUS
<1>1. DOMAIN link = {} /\ DOMAIN short = {} /\ DOMAIN closing = {} /\ visit = {} /\ click = {}
      /\ task = [t \in Tasks |-> "none"]
  BY DEF TrackingInit
<1>2. TrackingTypeOK
  BY <1>1 DEF TrackingTypeOK, TaskStatus
<1> QED
  BY <1>1, <1>2 DEF LinkInv, TasksOK, ClosingOK, LinksOK, ClicksOK

LEMMA ContentIds == \A t \in Tasks : TaskContent[t] \in 1..MaxContents
BY TrackingAssumption

\* The tasks stay on record and the links are those there were.
LEMMA TasksMove ==
  ASSUME LinkInv, OutStaysOut, UNCHANGED <<link, short, click>>, visit' \subseteq DOMAIN short,
         task' \in [Tasks -> TaskStatus],
         \A t \in Tasks : task[t] = "SUCCEEDED" => task'[t] = "SUCCEEDED",
         TasksOK', DOMAIN closing' \subseteq Tasks, ClosingOK'
  PROVE  LinkInv'
<1>1. TrackingTypeOK'
  BY DEF LinkInv, TrackingTypeOK
<1>2. \A t \in Tasks : Published(t) => Published(t)'
  BY DEF Published, TasksOK
<1>3. LinksOK'
  BY <1>2 DEF LinkInv, LinksOK
<1>4. \A e \in click : e.task \in Tasks
  BY DEF LinkInv, TrackingTypeOK
<1>5. ClicksOK'
  BY <1>2, <1>4 DEF LinkInv, ClicksOK
<1> QED
  BY <1>1, <1>3, <1>5 DEF LinkInv

LEMMA LinksRest ==
  ASSUME LinkInv, OutStaysOut, UNCHANGED trackingVars
  PROVE  LinkInv'
<1>1. TasksOK' /\ ClosingOK'
  BY DEF LinkInv, OutStaysOut, TasksOK, ClosingOK, trackingVars
<1>2. UNCHANGED <<link, short, click, task, closing, visit>>
  BY DEF trackingVars
<1>3. task \in [Tasks -> TaskStatus] /\ DOMAIN closing \subseteq Tasks /\ visit \subseteq DOMAIN short
  BY DEF LinkInv, TrackingTypeOK
<1> QED
  BY <1>1, <1>2, <1>3, TasksMove

\* A link or a short link is added, the rest stays as it is.
LEMMA LinkAdded ==
  ASSUME LinkInv, NEW key \in LinkKey, NEW row \in LinkRow, key \notin DOMAIN link,
         link' = With(link, key, row), UNCHANGED <<taskVars, short, visitVars, variant>>,
         row.post \in Tasks => key \in RequestKeys /\ Published(row.post),
         row.post \in Tasks \/ row.post = "none"
  PROVE  LinkInv'
<1>1. DOMAIN link' = DOMAIN link \cup {key} /\ link'[key] = row
      /\ \A k \in DOMAIN link : link'[k] = link[k]
  BY DEF With
<1>2. TrackingTypeOK'
  BY <1>1 DEF LinkInv, TrackingTypeOK, taskVars, visitVars
<1>3. \A t \in Tasks : Published(t) => Published(t)'
  BY DEF Published, Out, taskVars
<1>4. TasksOK' /\ ClosingOK'
  BY DEF LinkInv, TasksOK, ClosingOK, Out, Variants, taskVars
<1>5. \A c \in 1..MaxContents : PreKey(c) \notin RequestKeys
  BY DEF PreKey, RequestKeys
<1>6. LinksOK'
  <2>1. \A k \in DOMAIN link' : link'[k].post \in Tasks => Published(link[k].post)'
    BY <1>1, <1>3 DEF LinkInv, LinksOK
  <2>2. \A c \in 1..MaxContents : PreKey(c) \in DOMAIN link' =>
           link'[PreKey(c)].post \in {"none"} \cup {t \in Tasks : TaskContent[t] = c}
    BY <1>1, <1>5 DEF LinkInv, LinksOK
  <2> QED
    BY <2>1, <2>2 DEF LinksOK
<1>7. ClicksOK'
  <2>1. \A e \in click : e.short \in DOMAIN short /\ short[e.short] \in DOMAIN link /\ e.task \in Tasks
    BY DEF LinkInv, TrackingTypeOK, ClicksOK
  <2> QED
    BY <1>1, <1>3, <2>1 DEF LinkInv, ClicksOK, visitVars
<1> QED
  BY <1>2, <1>4, <1>6, <1>7 DEF LinkInv

LEMMA ShortAdded ==
  ASSUME LinkInv, NEW key \in LinkKey, NEW k \in DOMAIN link, key \notin DOMAIN short,
         short' = With(short, key, k), UNCHANGED <<taskVars, link, visitVars, variant>>
  PROVE  LinkInv'
<1>1. DOMAIN short' = DOMAIN short \cup {key} /\ short'[key] = k
      /\ \A s \in DOMAIN short : short'[s] = short[s]
  BY DEF With
<1>2. TrackingTypeOK'
  BY <1>1 DEF LinkInv, TrackingTypeOK, taskVars, visitVars
<1>3. TasksOK' /\ ClosingOK' /\ LinksOK'
  BY DEF LinkInv, TasksOK, ClosingOK, LinksOK, Published, Out, Variants, taskVars
<1>4. ClicksOK'
  <2>1. \A e \in click : Published(e.task) => Published(e.task)'
    BY DEF Published, Out, taskVars
  <2> QED
    BY <1>1, <2>1 DEF LinkInv, ClicksOK, visitVars
<1> QED
  BY <1>2, <1>3, <1>4 DEF LinkInv

LEMMA TaskStarts ==
  ASSUME LinkInv, NEW t \in Tasks, StartPublish(t), UNCHANGED visitVars
  PROVE  LinkInv'
<1>1. task \in [Tasks -> TaskStatus] /\ DOMAIN closing \subseteq Tasks /\ visit \subseteq DOMAIN short
  BY DEF LinkInv, TrackingTypeOK
<1>2. UNCHANGED <<variant, closing, link, short, visit, click>>
  BY DEF StartPublish, visitVars, contentVars
<1>3. task' \in [Tasks -> TaskStatus] /\ task'[t] = "RUNNING" /\ task[t] = "none"
      /\ \A u \in Tasks : u # t => task'[u] = task[u]
  BY <1>1 DEF StartPublish, TaskStatus
<1>4. TasksOK' /\ ClosingOK'
  BY <1>1, <1>2, <1>3 DEF LinkInv, StartPublish, TasksOK, ClosingOK, Out, Variants
<1>5. OutStaysOut
  BY <1>2 DEF OutStaysOut, Out, Variants
<1> QED
  BY <1>1, <1>2, <1>3, <1>4, <1>5, TasksMove

LEMMA TaskPosts ==
  ASSUME LinkInv, NEW t \in Tasks, ProviderPosts(t), UNCHANGED visitVars
  PROVE  LinkInv'
<1>1. task \in [Tasks -> TaskStatus] /\ DOMAIN closing \subseteq Tasks /\ visit \subseteq DOMAIN short
  BY DEF LinkInv, TrackingTypeOK
<1>2. UNCHANGED <<variant, closing, link, short, visit, click>>
  BY DEF ProviderPosts, visitVars, contentVars
<1>3. task' \in [Tasks -> TaskStatus] /\ task'[t] = "POSTED" /\ task[t] = "RUNNING"
      /\ \A u \in Tasks : u # t => task'[u] = task[u]
  BY <1>1 DEF ProviderPosts, TaskStatus
<1>4. TasksOK' /\ ClosingOK'
  BY <1>1, <1>2, <1>3 DEF LinkInv, TasksOK, ClosingOK, Out, Variants
<1>5. OutStaysOut
  BY <1>2 DEF OutStaysOut, Out, Variants
<1> QED
  BY <1>1, <1>2, <1>3, <1>4, <1>5, TasksMove

\* Transitions take nothing back that was published.
LEMMA TransitStaysOut ==
  ASSUME ContentInv, NEW c \in Variants, NEW action, Transits(c, action)
  PROVE  /\ OutStaysOut
         /\ action = "PUBLISH" => Out(c)'
<1>1. PICK s \in Review(variant[c].status, action) : variant' = [variant EXCEPT ![c].status = s]
  BY DEF Transits
<1>2. variant[c] \in VariantRow /\ variant \in Seq(VariantRow)
  BY ContentFacts DEF ContentInv, VariantsOK
<1>3. Variants' = Variants /\ variant'[c].status = s
      /\ \A d \in Variants : d # c => variant'[d] = variant[d]
  BY <1>1, <1>2 DEF Variants, VariantRow
<1>4. variant[c].status \in {"PUBLISHED", "ARCHIVED"} => s \in {"PUBLISHED", "ARCHIVED"}
  BY DEF Review
<1>5. action = "PUBLISH" => s = "PUBLISHED"
  BY DEF Review
<1> QED
  BY <1>3, <1>4, <1>5 DEF OutStaysOut, Out

LEMMA TaskFinishes ==
  ASSUME LinkInv, ContentInv, NEW t \in Tasks, FinishPublish(t), UNCHANGED visitVars
  PROVE  LinkInv'
<1> DEFINE c == TaskContent[t]
<1>1. task \in [Tasks -> TaskStatus] /\ DOMAIN closing \subseteq Tasks /\ visit \subseteq DOMAIN short
  BY DEF LinkInv, TrackingTypeOK
<1>2. UNCHANGED <<link, short, visit, click>> /\ c \in Variants /\ task[t] = "POSTED"
  BY DEF FinishPublish, visitVars, LinkInv, TasksOK
<1>3. CASE task' = [task EXCEPT ![t] = "SUCCEEDED"]
  <2>1. closing' = With(closing, t, "ended")
        /\ (Transits(c, "PUBLISH") \/ (variant[c].status = "PUBLISHED" /\ UNCHANGED variant))
    BY <1>1, <1>3 DEF FinishPublish, TaskStatus
  <2>2. OutStaysOut /\ Out(c)'
    <3>1. CASE Transits(c, "PUBLISH")
      BY <1>2, <3>1, TransitStaysOut
    <3>2. CASE variant[c].status = "PUBLISHED" /\ UNCHANGED variant
      BY <3>2 DEF OutStaysOut, Out, Variants
    <3> QED
      BY <2>1, <3>1, <3>2
  <2>3. task' \in [Tasks -> TaskStatus] /\ task'[t] = "SUCCEEDED"
        /\ \A u \in Tasks : u # t => task'[u] = task[u]
    BY <1>1, <1>3 DEF TaskStatus
  <2>4. TasksOK'
    BY <1>2, <2>2, <2>3 DEF LinkInv, TasksOK, OutStaysOut
  <2>5. DOMAIN closing' = DOMAIN closing \cup {t}
    BY <2>1 DEF With
  <2>6. ClosingOK'
    BY <1>1, <2>3, <2>5 DEF LinkInv, ClosingOK
  <2> QED
    BY <1>1, <1>2, <2>2, <2>3, <2>4, <2>5, <2>6, TasksMove
<1>4. CASE task' = [task EXCEPT ![t] = "FAILED"] /\ UNCHANGED <<variant, closing>>
  <2>1. task' \in [Tasks -> TaskStatus] /\ task'[t] = "FAILED"
        /\ \A u \in Tasks : u # t => task'[u] = task[u]
    BY <1>1, <1>4 DEF TaskStatus
  <2>2. TasksOK' /\ ClosingOK'
    BY <1>1, <1>2, <1>4, <2>1 DEF LinkInv, TasksOK, ClosingOK, Out, Variants
  <2>3. OutStaysOut
    BY <1>4 DEF OutStaysOut, Out, Variants
  <2> QED
    BY <1>1, <1>2, <1>4, <2>1, <2>2, <2>3, TasksMove
<1> QED
  BY <1>3, <1>4 DEF FinishPublish

LEMMA LinkRead ==
  ASSUME LinkInv, NEW t \in Tasks, ReadLink(t), UNCHANGED visitVars
  PROVE  LinkInv'
<1>1. task \in [Tasks -> TaskStatus] /\ DOMAIN closing \subseteq Tasks /\ visit \subseteq DOMAIN short
  BY DEF LinkInv, TrackingTypeOK
<1>2. UNCHANGED <<variant, task, link, short, visit, click>> /\ DOMAIN closing' = DOMAIN closing
  BY DEF ReadLink, visitVars, contentVars
<1>3. TasksOK' /\ ClosingOK' /\ OutStaysOut
  BY <1>2 DEF LinkInv, TasksOK, ClosingOK, Out, Variants, OutStaysOut
<1> QED
  BY <1>1, <1>2, <1>3, TasksMove

\* The link of a content's posts gets another of its posts.
LEMMA LinkSaved ==
  ASSUME LinkInv, NEW t \in Tasks, SaveLink(t), UNCHANGED visitVars
  PROVE  LinkInv'
<1> DEFINE c == TaskContent[t]
           key == PreKey(c)
<1>1. task \in [Tasks -> TaskStatus] /\ DOMAIN closing \subseteq Tasks /\ c \in 1..MaxContents
      /\ t \in DOMAIN closing
  BY ContentIds DEF LinkInv, TrackingTypeOK, SaveLink
<1>2. UNCHANGED <<variant, task, short, visit, click>> /\ DOMAIN closing' = DOMAIN closing
  BY DEF SaveLink, visitVars, contentVars
<1>3. Published(t)
  BY <1>1 DEF LinkInv, ClosingOK, TasksOK, Published
<1>4. DOMAIN link' = DOMAIN link /\ \A k \in DOMAIN link : k # key => link'[k] = link[k]
  BY DEF SaveLink
<1>5. ASSUME key \in DOMAIN link
      PROVE  link'[key] \in LinkRow /\ link'[key].post = t
  <2>1. link'[key] = [link[key] EXCEPT !.post = t]
    BY <1>5 DEF SaveLink
  <2>2. link[key] \in LinkRow
    BY <1>5 DEF LinkInv, TrackingTypeOK
  <2> HIDE DEF key
  <2> QED
    BY <2>1, <2>2 DEF LinkRow
<1>6. TrackingTypeOK'
  BY <1>1, <1>2, <1>4, <1>5 DEF LinkInv, TrackingTypeOK
<1>7. TasksOK' /\ ClosingOK'
  BY <1>2 DEF LinkInv, TasksOK, ClosingOK, Out, Variants
<1>8. \A u \in Tasks : Published(u) => Published(u)'
  BY <1>2 DEF Published, Out
<1>9. \A d \in 1..MaxContents : PreKey(d) = key => d = c
  BY DEF PreKey
<1>10. LinksOK'
  <2>1. \A k \in DOMAIN link' : link'[k].post \in Tasks => Published(link[k].post)'
    BY <1>3, <1>4, <1>5, <1>8 DEF LinkInv, LinksOK
  <2>2. \A d \in 1..MaxContents : PreKey(d) \in DOMAIN link' =>
           link'[PreKey(d)].post \in {"none"} \cup {u \in Tasks : TaskContent[u] = d}
    BY <1>4, <1>5, <1>9 DEF LinkInv, LinksOK
  <2> QED
    BY <2>1, <2>2 DEF LinksOK
<1>11. ASSUME NEW e \in click
       PROVE  LET post == link'[short[e.short]].post IN
                /\ e.short \in DOMAIN short /\ Published(e.task)'
                /\ post \in Tasks /\ TaskContent[post] = TaskContent[e.task]
  <2>1. /\ e.short \in DOMAIN short /\ short[e.short] \in DOMAIN link /\ e.task \in Tasks
        /\ Published(e.task) /\ link[short[e.short]].post \in Tasks
        /\ TaskContent[link[short[e.short]].post] = TaskContent[e.task]
    BY DEF LinkInv, ClicksOK, TrackingTypeOK
  <2>2. CASE short[e.short] = key
    <3>1. link[key].post \in {"none"} \cup {u \in Tasks : TaskContent[u] = c}
      BY <1>1, <2>1, <2>2 DEF LinkInv, LinksOK
    <3>2. TaskContent[link[key].post] = c
      BY <2>1, <2>2, <3>1, TrackingAssumption
    <3> QED
      BY <1>5, <1>8, <2>1, <2>2, <3>2
  <2>3. CASE short[e.short] # key
    BY <1>4, <1>8, <2>1, <2>3
  <2> QED
    BY <2>2, <2>3
<1>12. ClicksOK'
  BY <1>2, <1>11 DEF ClicksOK
<1> QED
  BY <1>6, <1>7, <1>10, <1>12 DEF LinkInv

LEMMA PreKeys == \A t \in Tasks : PreKey(TaskContent[t]) \in LinkKey
BY ContentIds DEF LinkKey

LEMMA LinkPrepared ==
  ASSUME LinkInv, ContentInv, BriefsTypeOK, NEW t \in Tasks, PrepareLink(t), UNCHANGED visitVars
  PROVE  LinkInv'
<1> DEFINE c == TaskContent[t]
<1>1. PICK p \in ContentProducts(c) :
        link' = With(link, PreKey(c), [post |-> "none", product |-> p])
  BY DEF PrepareLink
<1>2. c \in Variants /\ PreKey(c) \notin DOMAIN link /\ UNCHANGED <<taskVars, short, variant>>
  BY DEF PrepareLink, LinkInv, TasksOK, contentVars
<1>3. p \in Products
  <2>1. variant[c].master \in Masters
    BY <1>2 DEF ContentInv, VariantsOK
  <2>2. ContentBrief(c) \in BriefIds
    BY <2>1, ContentFacts DEF ContentBrief, MasterRow, JobKey
  <2>3. brief[ContentBrief(c)] \in BriefRow
    BY <2>2 DEF BriefsTypeOK
  <2>4. brief[ContentBrief(c)].content.links \in Links
    BY <2>3 DEF BriefRow, Content
  <2> QED
    BY <1>1, <2>4 DEF ContentProducts, Links
<1>4. PICK row : row = [post |-> "none", product |-> p]
  OBVIOUS
<1>5. row \in LinkRow /\ row.post = "none"
  BY <1>3, <1>4 DEF LinkRow
<1>6. PreKey(c) \in LinkKey /\ "none" \notin Tasks
  BY PreKeys, TrackingAssumption
<1>7. link' = With(link, PreKey(c), row)
  BY <1>1, <1>4
<1> QED
  BY <1>2, <1>5, <1>6, <1>7, LinkAdded

LEMMA LinkCreated ==
  ASSUME LinkInv, NEW key \in RequestKeys, NEW t \in Tasks, NEW p \in Products,
         CreateLink(key, t, p), UNCHANGED visitVars
  PROVE  LinkInv'
<1>1. PICK row : row = [post |-> t, product |-> p]
  OBVIOUS
<1>2. link' = With(link, key, row) /\ key \notin DOMAIN link /\ UNCHANGED <<taskVars, short, variant>>
  BY <1>1 DEF CreateLink, contentVars
<1>3. row \in LinkRow /\ row.post = t /\ key \in LinkKey
  BY <1>1 DEF LinkRow, LinkKey
<1>4. Published(t)
  BY DEF CreateLink, LinkInv, TasksOK, Published
<1> QED
  BY <1>2, <1>3, <1>4, LinkAdded

LEMMA ClickRecorded ==
  ASSUME LinkInv, NEW s \in DOMAIN short, RecordClick(s), UNCHANGED <<taskVars, link, short, variant>>
  PROVE  LinkInv'
<1>1. short[s] \in DOMAIN link /\ link[short[s]] \in LinkRow /\ s \in LinkKey
  BY DEF LinkInv, TrackingTypeOK
<1>2. link[short[s]].post # "none" => link[short[s]].post \in Tasks
  BY <1>1 DEF LinkRow
<1>3. \A t \in Tasks : Published(t) => Published(t)'
  BY DEF Published, Out, taskVars
<1>4. TasksOK' /\ ClosingOK' /\ LinksOK'
  BY DEF LinkInv, TasksOK, ClosingOK, LinksOK, Published, Out, Variants, taskVars
<1>5. CASE UNCHANGED click
  <2>1. TrackingTypeOK'
    BY <1>5 DEF LinkInv, TrackingTypeOK, RecordClick, taskVars
  <2>2. ClicksOK'
    BY <1>3, <1>5 DEF LinkInv, ClicksOK, TrackingTypeOK
  <2> QED
    BY <1>4, <2>1, <2>2 DEF LinkInv
<1>6. CASE ~UNCHANGED click
  <2>1. PICK e : e = [short |-> s, task |-> link[short[s]].post]
    OBVIOUS
  <2>2. click' = click \cup {e} /\ link[short[s]].post \in Tasks
    BY <1>2, <1>6, <2>1 DEF RecordClick, Recordable
  <2>3. e.short = s /\ e.task = link[short[s]].post /\ e \in [short: LinkKey, task: Tasks]
    BY <1>1, <2>1, <2>2
  <2>4. TrackingTypeOK'
    BY <2>2, <2>3 DEF LinkInv, TrackingTypeOK, RecordClick, taskVars
  <2>5. Published(e.task)
    BY <1>1, <2>2, <2>3 DEF LinkInv, LinksOK
  <2>6. ClicksOK'
    BY <1>3, <2>2, <2>3, <2>5 DEF LinkInv, ClicksOK, TrackingTypeOK
  <2> QED
    BY <1>4, <2>4, <2>6 DEF LinkInv
<1> QED
  BY <1>5, <1>6

LEMMA LinksKeep ==
  ASSUME LinkInv, ContentInv, BriefsTypeOK, TrackingNext
  PROVE  LinkInv'
<1>1. ASSUME NEW t \in Tasks, StartPublish(t), UNCHANGED visitVars PROVE LinkInv'
  BY <1>1, TaskStarts
<1>2. ASSUME NEW t \in Tasks, PrepareLink(t), UNCHANGED visitVars PROVE LinkInv'
  BY <1>2, LinkPrepared
<1>3. ASSUME NEW t \in Tasks, PrepareShort(t), UNCHANGED visitVars PROVE LinkInv'
  <2>1. UNCHANGED <<taskVars, link, variant>>
    BY <1>3 DEF PrepareShort, contentVars
  <2> QED
    BY <1>3, <2>1, PreKeys, ShortAdded DEF PrepareShort
<1>4. ASSUME NEW t \in Tasks, ProviderPosts(t), UNCHANGED visitVars PROVE LinkInv'
  BY <1>4, TaskPosts
<1>5. ASSUME NEW t \in Tasks, FinishPublish(t), UNCHANGED visitVars PROVE LinkInv'
  BY <1>5, TaskFinishes
<1>6. ASSUME NEW t \in Tasks, ReadLink(t), UNCHANGED visitVars PROVE LinkInv'
  BY <1>6, LinkRead
<1>7. ASSUME NEW t \in Tasks, SaveLink(t), UNCHANGED visitVars PROVE LinkInv'
  BY <1>7, LinkSaved
<1>8. ASSUME NEW key \in RequestKeys, NEW t \in Tasks, NEW p \in Products, CreateLink(key, t, p),
             UNCHANGED visitVars
      PROVE  LinkInv'
  BY <1>8, LinkCreated
<1>9. ASSUME NEW key \in RequestKeys, NEW k \in DOMAIN link, CreateShort(key, k), UNCHANGED visitVars
      PROVE  LinkInv'
  <2>1. UNCHANGED <<taskVars, link, variant>> /\ key \in LinkKey
    BY <1>9 DEF CreateShort, contentVars, LinkKey
  <2> QED
    BY <1>9, <2>1, ShortAdded DEF CreateShort
<1>10. ASSUME VisitStep PROVE LinkInv'
  <2>1. UNCHANGED <<taskVars, link, short, variant>>
    BY <1>10 DEF VisitStep, contentVars
  <2>2. ASSUME NEW s \in DOMAIN short, Visit(s) PROVE LinkInv'
    <3>1. UNCHANGED <<task, closing, link, short, variant, click>>
      BY <2>1, <2>2 DEF Visit, taskVars
    <3>2. task \in [Tasks -> TaskStatus] /\ DOMAIN closing \subseteq Tasks /\ visit' \subseteq DOMAIN short
      BY <2>2 DEF LinkInv, TrackingTypeOK, Visit
    <3>3. TasksOK' /\ ClosingOK' /\ OutStaysOut
      BY <3>1 DEF LinkInv, TasksOK, ClosingOK, Out, Variants, OutStaysOut
    <3> QED
      BY <3>1, <3>2, <3>3, TasksMove
  <2>3. ASSUME NEW s \in DOMAIN short, RecordClick(s) PROVE LinkInv'
    BY <2>1, <2>3, ClickRecorded
  <2> QED
    BY <1>10, <2>2, <2>3 DEF VisitStep
<1>11. ASSUME NEW t \in Tasks, DecidePublish(t), UNCHANGED visitVars PROVE LinkInv'
  <2>1. OutStaysOut /\ UNCHANGED trackingVars
    BY <1>11 DEF DecidePublish, DecideVariant, Decide, OutStaysOut, Out, Variants, trackingVars,
                 taskVars, visitVars
  <2> QED
    BY <2>1, LinksRest
<1> QED
  BY <1>1, <1>2, <1>3, <1>4, <1>5, <1>6, <1>7, <1>8, <1>9, <1>10, <1>11
     DEF TrackingNext, PublicationStep, LinkStep

LEMMA ContentsStayOut ==
  ASSUME ContentInv, ContentNext
  PROVE  OutStaysOut
<1>1. CASE UNCHANGED variant
  BY <1>1 DEF OutStaysOut, Out, Variants
<1>2. ASSUME NEW row, variant' = Append(variant, row) PROVE OutStaysOut
  <2>1. Len(variant) \in Nat /\ Variants = 1..Len(variant) /\ variant \in Seq(VariantRow)
    BY ContentFacts DEF ContentInv, VariantsOK
  <2>2. \A c \in Variants : c \in Variants' /\ variant'[c] = variant[c]
    BY <1>2, <2>1 DEF Variants
  <2> QED
    BY <2>2 DEF OutStaysOut, Out
<1>3. ASSUME NEW c \in Variants, NEW action, Transits(c, action) PROVE OutStaysOut
  BY <1>3, TransitStaysOut
<1> QED
  BY <1>1, <1>2, <1>3
     DEF ContentNext, GenerationStep, EditStep, AskForMaster, CreateGenerationJob, WriteMaster, EndJob,
         RestoreMaster, ReviseMaster, ReviewMaster, AdaptMaster, ReviseVariant, PreparePackage,
         ApprovePackage, ReviewVariant, DecideMaster, DecideVariant, Decide

-----------------------------------------------------------------------------
(* The workspace with its contents and links *)


LEMMA WorkspaceAdvancesBriefs ==
  ASSUME BriefsTypeOK, BriefsNumbered, [WorkspaceNext]_workspaceRows
  PROVE  BriefsNumbered' /\ BriefsAdvance
<1>1. CASE UNCHANGED brief
  BY <1>1 DEF BriefsNumbered, BriefsAdvance, Taken
<1>2. CASE BriefStep
  BY <1>2, BriefsOnlyAdvance
<1> QED
  BY <1>1, <1>2 DEF WorkspaceNext, CatalogNext, AssetsNext, BriefsNext, workspaceRows, briefVars

LEMMA TrackedSteps ==
  ASSUME asked \subseteq JobKey, [TrackedNext]_trackedRows
  PROVE  /\ [WorkspaceNext]_workspaceRows
         /\ \/ UNCHANGED contentVars
            \/ ContentNext
            \/ \E t \in Tasks : (DecidePublish(t) \/ FinishPublish(t)) /\ UNCHANGED briefVars
<1>1. CASE WorkspaceNext /\ UNCHANGED <<contentVars, trackingVars>>
  BY <1>1
<1>2. CASE ContentNext
  BY <1>2, ContentsUseTheWorkspace
<1>3. CASE TrackingNext
  <2>1. UNCHANGED workspaceRows /\ UNCHANGED briefVars
    BY <1>3 DEF TrackingNext, workspaceRows
  <2>2. UNCHANGED contentVars \/ \E t \in Tasks : DecidePublish(t) \/ FinishPublish(t)
    BY <1>3 DEF TrackingNext, PublicationStep, LinkStep, VisitStep, StartPublish, PrepareLink,
                PrepareShort, ProviderPosts, ReadLink, SaveLink, CreateLink, CreateShort
  <2> QED
    BY <2>1, <2>2
<1>4. CASE UNCHANGED trackedRows
  BY <1>4 DEF trackedRows, workspaceRows
<1> QED
  BY <1>1, <1>2, <1>3, <1>4 DEF TrackedNext

LEMMA PublicationKeepsContents ==
  ASSUME ContentInv, DecidingInv, NEW t \in Tasks, TaskContent[t] \in Variants,
         DecidePublish(t) \/ FinishPublish(t), UNCHANGED brief
  PROVE  ContentInv' /\ DecidingInv'
<1>1. CASE DecidePublish(t)
  <2>1. UNCHANGED <<genJob, asked, master, variant, package>>
    BY <1>1 DEF DecidePublish, DecideVariant, Decide
  <2>2. DOMAIN genJob \subseteq JobKey /\ asked \subseteq JobKey /\ DOMAIN package \subseteq Variants
    BY DEF ContentInv, JobsOK, PackagesOK
  <2>3. ContentInv'
    BY <2>1, <2>2, RowsAroundChange
  <2> QED
    BY <1>1, <2>3, VariantDecided DEF DecidePublish
<1>2. CASE FinishPublish(t) /\ Transits(TaskContent[t], "PUBLISH")
  BY <1>2, VariantTransits, TransitsRest DEF FinishPublish
<1>3. CASE FinishPublish(t) /\ UNCHANGED <<variant, deciding>>
  <2>1. UNCHANGED contentVars
    BY <1>3 DEF FinishPublish, contentVars
  <2>2. ContentInv'
    BY <2>1 DEF ContentInv, MastersOK, VariantsOK, PackagesOK, JobsOK, contentVars, Masters,
           Variants, WasApproved
  <2> QED
    BY <2>1, <2>2, DecidingRests DEF contentVars, Masters, Variants, VariantHead
<1> QED
  BY <1>1, <1>2, <1>3 DEF FinishPublish

TrackedInv ==
  CatalogInv /\ BriefInv /\ BriefsNumbered /\ ContentInv /\ DecidingInv /\ LinkInv

LEMMA TrackedBegins == TrackedInit => TrackedInv
<1> SUFFICES ASSUME TrackedInit PROVE TrackedInv
  OBVIOUS
<1>1. BriefsNumbered
  <2>1. NoBrief.version = 0 /\ NoBrief.status = "none"
    BY DEF NoBrief
  <2>2. \A b \in BriefIds : brief[b] = NoBrief
    BY DEF TrackedInit, WorkspaceInit, BriefsInit
  <2> QED
    BY <2>1, <2>2 DEF BriefsNumbered, Taken
<1>2. DecidingInv
  BY DEF TrackedInit, ContentInit, DecidingInv
<1> QED
  BY <1>1, <1>2, CatalogBegins, BriefsBegin, ContentBegins, LinksBegin
     DEF TrackedInit, TrackedInv, WorkspaceInit

LEMMA TrackedKeeps ==
  ASSUME TrackedInv, [TrackedNext]_trackedRows
  PROVE  TrackedInv'
<1>0. CatalogInv /\ BriefInv /\ BriefsTypeOK /\ BriefsNumbered /\ ContentInv /\ DecidingInv
      /\ LinkInv /\ asked \subseteq JobKey
  BY DEF TrackedInv, BriefInv, ContentInv, JobsOK
<1>1. CatalogInv' /\ BriefInv' /\ BriefsTypeOK' /\ BriefsNumbered' /\ BriefsAdvance
  BY <1>0, TrackedSteps, WorkspaceKeepsBriefs, WorkspaceAdvancesBriefs DEF BriefInv
<1>2. ContentInv' /\ DecidingInv'
  <2>1. CASE UNCHANGED contentVars
    <3>1. DecidingInv'
      BY <1>0, <2>1, DecidingRests DEF contentVars, Masters, Variants, VariantHead
    <3> QED
      BY <1>0, <1>1, <2>1, <3>1, ContentRests
  <2>2. CASE ContentNext
    BY <1>0, <2>2, ContentKeeps, DecidingKeeps
  <2>3. ASSUME NEW t \in Tasks, DecidePublish(t) \/ FinishPublish(t), UNCHANGED briefVars
        PROVE  ContentInv' /\ DecidingInv'
    <3>1. TaskContent[t] \in Variants /\ UNCHANGED brief
      BY <1>0, <2>3 DEF LinkInv, TasksOK, DecidePublish, FinishPublish, briefVars
    <3> QED
      BY <1>0, <2>3, <3>1, PublicationKeepsContents
  <2> QED
    BY <1>0, <2>1, <2>2, <2>3, TrackedSteps
<1>3. LinkInv'
  <2>1. CASE UNCHANGED trackingVars /\ UNCHANGED contentVars
    <3>1. OutStaysOut
      BY <2>1 DEF OutStaysOut, Out, Variants, contentVars
    <3> QED
      BY <1>0, <2>1, <3>1, LinksRest
  <2>2. CASE ContentNext /\ UNCHANGED trackingVars
    BY <1>0, <2>2, ContentsStayOut, LinksRest
  <2>3. CASE TrackingNext
    BY <1>0, <2>3, LinksKeep
  <2> QED
    BY <2>1, <2>2, <2>3 DEF TrackedNext, trackedRows
<1> QED
  BY <1>1, <1>2, <1>3 DEF TrackedInv

\* The contents of a brief, the links made of them and the posts that carry the links
\* (content/services.py, tracking/services.py): a content comes from a master that was
\* approved, and what is on record as posted was published.
THEOREM TrackedSafe == TrackedSpec => []TrackedInv
<1>1. TrackedInv /\ [TrackedNext]_trackedRows => TrackedInv'
  BY TrackedKeeps
<1> QED
  BY <1>1, TrackedBegins, PTL DEF TrackedSpec, trackedRows

\* Contents and links add nothing to what may happen to the graph, the products, the
\* assets and the briefs they are made of.
THEOREM ContentsKeepTheWorkspace == TrackedSpec => WorkspaceSpec
<1>1. TrackedInit => WorkspaceInit
  BY DEF TrackedInit
<1>2. TrackedInv /\ [TrackedNext]_trackedRows => [WorkspaceNext]_workspaceRows
  BY TrackedSteps DEF TrackedInv, ContentInv, JobsOK
<1> QED
  BY <1>1, <1>2, TrackedSafe, PTL DEF TrackedSpec, WorkspaceSpec, trackedRows, workspaceRows

\* Every channel package was made of a content that people approved, adapted from a
\* master that had been approved too (content/services.py, transition_content).
THEOREM PackagesAreAlwaysReviewed == TrackedSpec => []PackagesAreReviewed
<1>1. TrackedInv => PackagesAreReviewed
  BY DEF TrackedInv, ContentInv, VariantsOK, PackagesOK, WasApproved, PackagesAreReviewed
<1> QED
  BY <1>1, TrackedSafe, PTL

\* A click is lost to its post for the reasons the property names only: whatever visits,
\* posts, archives and revisions race (tracking/views.py, ChannelSummaryView).
THEOREM LostClicksAreAlwaysExplained == TrackedSpec => []LostClicksAreExplained
<1>1. TrackedInv => LostClicksAreExplained
  <2> SUFFICES ASSUME TrackedInv, NEW e \in click \ Counted
               PROVE  \/ variant[TaskContent[e.task]].status = "ARCHIVED"
                      \/ ~Consistent(TaskContent[e.task])
                      \/ LET t == link[short[e.short]].post IN
                            t # e.task /\ TaskContent[t] = TaskContent[e.task]
    BY DEF LostClicksAreExplained
  <2>1. PICK t : t = link[short[e.short]].post
    OBVIOUS
  <2>2. Published(e.task) /\ t \in Tasks /\ TaskContent[t] = TaskContent[e.task]
    BY <2>1 DEF TrackedInv, LinkInv, ClicksOK
  <2>3. t = e.task => ~TaskConsistent(t)
    BY <2>1, <2>2 DEF Counted
  <2> QED
    BY <2>1, <2>2, <2>3 DEF TaskConsistent, Published, Out
<1> QED
  BY <1>1, TrackedSafe, PTL

\* What a step may do to a content that was superseded before it was approved.
PastVariantsStay ==
  \A c \in Variants :
     ~VariantHead(c) /\ variant[c].status \in {"DRAFT", "IN_REVIEW", "REJECTED"} =>
        /\ variant'[c].status \in {variant[c].status, "ARCHIVED"}
        /\ c \in DOMAIN package' => c \in DOMAIN package

\* What a step may do to a master whose brief went on, and to what is made of it.
MasterStays(m) ==
  /\ master'[m] # master[m] => Locked("master", m) /\ ~Locked("master", m)'
  /\ Locked("master", m)' => Locked("master", m)
  /\ \A n \in Masters' \ Masters : master'[n].previous # m
  /\ \A c \in Variants' \ Variants : variant'[c].master # m
PastMastersStay ==
  \A m \in Masters :
     brief[master[m].job[1]].version # master[m].version =>
        /\ brief'[master[m].job[1]].version # master'[m].version
        /\ master'[m] # master[m] => Locked("master", m) /\ ~Locked("master", m)'
        /\ Locked("master", m)' => Locked("master", m)
        /\ \A n \in Masters' \ Masters : master'[n].previous # m
        /\ \A c \in Variants' \ Variants : variant'[c].master # m

LEMMA TransitKeepsPast ==
  ASSUME ContentInv, DecidingInv, NEW d \in Variants,
         NEW action \in Actions \cup {"PUBLISH"}, Transits(d, action),
         DOMAIN package' \subseteq DOMAIN package \cup (IF action = "APPROVE" THEN {d} ELSE {})
  PROVE  PastVariantsStay
<1>1. PICK s \in Review(variant[d].status, action) : variant' = [variant EXCEPT ![d].status = s]
  BY DEF Transits
<1>2. variant[d] \in VariantRow /\ variant \in Seq(VariantRow)
  BY ContentFacts DEF ContentInv, VariantsOK
<1>3. variant'[d].status = s /\ \A c \in Variants : c # d => variant'[c] = variant[c]
  BY <1>1, <1>2 DEF Variants, VariantRow
<1>4. VariantHead(d) \/ action = "ARCHIVE"
  BY DecidedOnce DEF Transits, NeedsHead, Actions
<1>5. action = "ARCHIVE" => s = "ARCHIVED"
  BY DEF Review
<1> QED
  BY <1>3, <1>4, <1>5 DEF PastVariantsStay

LEMMA PastVariantsRest ==
  ASSUME \A c \in Variants : variant'[c] = variant[c],
         \A c \in DOMAIN package' \ DOMAIN package : VariantHead(c)
  PROVE  PastVariantsStay
BY DEF PastVariantsStay

LEMMA ContentsKeepPastVariants ==
  ASSUME ContentInv, DecidingInv, ContentNext
  PROVE  PastVariantsStay
<1>1. CASE UNCHANGED <<variant, package>>
  BY <1>1, PastVariantsRest
<1>2. ASSUME NEW row, variant' = Append(variant, row), UNCHANGED package PROVE PastVariantsStay
  <2>1. Len(variant) \in Nat /\ Variants = 1..Len(variant) /\ variant \in Seq(VariantRow)
    BY ContentFacts DEF ContentInv, VariantsOK
  <2>2. \A c \in Variants : variant'[c] = variant[c]
    BY <1>2, <2>1
  <2> QED
    BY <1>2, <2>2, PastVariantsRest
<1>3. ASSUME NEW c \in Variants, PreparePackage(c) PROVE PastVariantsStay
  <2>1. DOMAIN package' = DOMAIN package \cup {c} /\ VariantHead(c) /\ UNCHANGED variant
    BY <1>3, PackagedDomain DEF PreparePackage
  <2> QED
    BY <2>1, PastVariantsRest
<1>4. ASSUME NEW c \in Variants, ApprovePackage(c) PROVE PastVariantsStay
  <2>1. DOMAIN package' = DOMAIN package /\ UNCHANGED variant
    BY <1>4 DEF ApprovePackage
  <2> QED
    BY <2>1, PastVariantsRest
<1>5. ASSUME NEW c \in Variants, NEW action \in Actions, ReviewVariant(c, action)
      PROVE  PastVariantsStay
  <2>1. DOMAIN package' \subseteq DOMAIN package \cup (IF action = "APPROVE" THEN {c} ELSE {})
    BY <1>5, PackagedDomain DEF ReviewVariant
  <2> QED
    BY <1>5, <2>1, TransitKeepsPast DEF ReviewVariant
<1> QED
  BY <1>1, <1>2, <1>3, <1>4, <1>5
     DEF ContentNext, GenerationStep, EditStep, AskForMaster, CreateGenerationJob, WriteMaster, EndJob,
         RestoreMaster, ReviseMaster, ReviewMaster, AdaptMaster, ReviseVariant, DecideMaster,
         DecideVariant, Decide

\* Nothing is written to a master or made of one, and no review of it begins.
LEMMA MasterRests ==
  ASSUME NEW m, master'[m] = master[m], Locked("master", m)' => Locked("master", m),
         Masters' = Masters, Variants' = Variants
  PROVE  MasterStays(m)
BY DEF MasterStays

\* The rows of a review that ends and of one that begins.
LEMMA LocksMove ==
  ASSUME NEW m, NEW kind, NEW n, NEW action
  PROVE  /\ Decided(kind, n, action) => (Locked("master", m)' => Locked("master", m))
         /\ Decide(kind, n, action) /\ (kind = "master" => n # m)
            => (Locked("master", m)' => Locked("master", m))
<1>1. Decided(kind, n, action) => (Locked("master", m)' => Locked("master", m))
  BY DEF Decided, Locked
<1>2. ASSUME Decide(kind, n, action), kind = "master" => n # m, Locked("master", m)'
      PROVE  Locked("master", m)
  <2>1. PICK d \in deciding' : d.kind = "master" /\ d.row = m
    BY <1>2 DEF Locked
  <2>2. PICK e : e = [kind |-> kind, row |-> n, action |-> action]
    OBVIOUS
  <2>3. e.kind = kind /\ e.row = n /\ deciding' = deciding \cup {e}
    BY <1>2, <2>2 DEF Decide
  <2>4. d \in deciding
    BY <1>2, <2>1, <2>3
  <2> QED
    BY <2>1, <2>4 DEF Locked
<1> QED
  BY <1>1, <1>2

LEMMA MasterWrittenOver ==
  ASSUME ContentInv, DecidingInv, NEW m \in Masters, NEW n \in Masters, NEW action,
         Decided("master", n, action), NEW s, NEW from,
         master' = [master EXCEPT ![n].status = s, ![n].from = from], UNCHANGED variant
  PROVE  MasterStays(m)
<1>1. Masters' = Masters /\ Variants' = Variants /\ (n # m => master'[m] = master[m])
  BY DEF Masters, Variants
<1>2. Locked("master", m)' => Locked("master", m)
  BY LocksMove
<1>3. n = m => Locked("master", m) /\ ~Locked("master", m)'
  BY DecidedOnce
<1> QED
  BY <1>1, <1>2, <1>3 DEF MasterStays

\* A master is added that was not made of this one.
LEMMA MasterAppended ==
  ASSUME ContentInv, NEW m \in Masters, NEW row, master' = Append(master, row),
         row.previous # m, UNCHANGED <<variant, deciding>>
  PROVE  MasterStays(m)
<1>1. Len(master) \in Nat /\ Masters = 1..Len(master) /\ master \in Seq(MasterRow)
  BY ContentFacts DEF ContentInv, MastersOK
<1>2. master'[m] = master[m] /\ \A n \in Masters' \ Masters : master'[n] = row
  BY <1>1 DEF Masters
<1> QED
  BY <1>2 DEF MasterStays, Locked, Variants

LEMMA VariantAppended ==
  ASSUME ContentInv, NEW m \in Masters, NEW row, variant' = Append(variant, row),
         row.master # m, UNCHANGED <<master, deciding>>
  PROVE  MasterStays(m)
<1>1. Len(variant) \in Nat /\ Variants = 1..Len(variant) /\ variant \in Seq(VariantRow)
  BY ContentFacts DEF ContentInv, VariantsOK
<1>2. \A n \in Variants' \ Variants : variant'[n] = row
  BY <1>1 DEF Variants
<1> QED
  BY <1>2 DEF MasterStays, Locked, Masters

\* A review of a platform content writes no master.
LEMMA DecidingVariantRests ==
  ASSUME NEW m, NEW c, NEW action, DecideVariant(c, action)
  PROVE  MasterStays(m)
<1>1. Decide("variant", c, action)
  BY DEF DecideVariant
<1>2. UNCHANGED <<master, variant>>
  BY <1>1 DEF Decide
<1> QED
  BY <1>1, <1>2, LocksMove, MasterRests DEF Masters, Variants

LEMMA TransitsMastersRest ==
  ASSUME ContentInv, NEW m, NEW c, NEW action, Transits(c, action), UNCHANGED master
  PROVE  MasterStays(m)
<1>1. PICK s : variant' = [variant EXCEPT ![c].status = s]
  BY DEF Transits
<1>2. Variants' = Variants /\ Decided("variant", c, action)
  BY <1>1 DEF Transits, Variants
<1> QED
  BY <1>2, LocksMove, MasterRests DEF Masters

LEMMA ContentsKeepPastMasters ==
  ASSUME ContentInv, DecidingInv, ContentNext, NEW m \in Masters,
         brief[master[m].job[1]].version # master[m].version
  PROVE  MasterStays(m)
<1>0. ~MasterConsistent(m) /\ \A c \in Variants : variant[c].master = m => ~Consistent(c)
  BY DEF MasterConsistent, Consistent
<1>1. CASE UNCHANGED <<master, variant, deciding>>
  BY <1>1, MasterRests DEF Masters, Variants, Locked
<1>2. ASSUME NEW n \in Masters, NEW action \in Actions, ReviewMaster(n, action)
      PROVE  MasterStays(m)
  <2>1. PICK s : master' = [master EXCEPT ![n].status = s,
                              ![n].from = IF s = "ARCHIVED" THEN master[n].status ELSE @]
    BY <1>2 DEF ReviewMaster
  <2>2. PICK from : from = IF s = "ARCHIVED" THEN master[n].status ELSE master[n].from
    OBVIOUS
  <2>3. master' = [master EXCEPT ![n].status = s, ![n].from = from]
    BY <2>1, <2>2, ContentFacts DEF MasterRow
  <2> QED
    BY <1>2, <2>3, MasterWrittenOver DEF ReviewMaster
<1>3. ASSUME NEW n \in Masters, RestoreMaster(n) PROVE MasterStays(m)
  BY <1>3, MasterWrittenOver DEF RestoreMaster
<1>4. ASSUME NEW n \in Masters, NEW action \in Actions \cup {"RESTORE"}, DecideMaster(n, action)
      PROVE  MasterStays(m)
  <2>1. n # m /\ Decide("master", n, action)
    BY <1>0, <1>4 DEF DecideMaster
  <2>2. UNCHANGED <<master, variant>>
    BY <2>1 DEF Decide
  <2> QED
    BY <2>1, <2>2, LocksMove, MasterRests DEF Masters, Variants
<1>5. ASSUME NEW c \in Variants, NEW action \in Actions, DecideVariant(c, action)
      PROVE  MasterStays(m)
  BY <1>5, DecidingVariantRests
<1>6. ASSUME NEW c \in Variants, NEW action \in Actions, ReviewVariant(c, action)
      PROVE  MasterStays(m)
  BY <1>6, TransitsMastersRest DEF ReviewVariant
<1>7. ASSUME NEW n \in Masters, ReviseMaster(n) PROVE MasterStays(m)
  <2>1. PICK row : row = [master[n] EXCEPT !.number = @ + 1, !.previous = n, !.status = "DRAFT"]
    OBVIOUS
  <2>2. master' = Append(master, row) /\ UNCHANGED <<variant, deciding>> /\ n # m
    BY <1>0, <1>7, <2>1 DEF ReviseMaster
  <2>3. row.previous = n
    BY <2>1, ContentFacts DEF MasterRow
  <2> QED
    BY <2>2, <2>3, MasterAppended
<1>8. ASSUME NEW key \in DOMAIN genJob, WriteMaster(key) PROVE MasterStays(m)
  <2>1. PICK row : row = [job |-> key, version |-> brief[key[1]].version, number |-> 1,
                          previous |-> 0, status |-> "APPROVED", from |-> ""]
    OBVIOUS
  <2>2. row.previous = 0
    BY <2>1
  <2>3. m # 0
    BY ContentFacts
  <2>4. UNCHANGED <<variant, deciding>> /\ (master' = Append(master, row) \/ UNCHANGED master)
    BY <1>8, <2>1 DEF WriteMaster
  <2> QED
    BY <1>1, <2>2, <2>4, <2>3, MasterAppended
<1>9. ASSUME NEW n \in Masters, NEW platform \in Platforms, AdaptMaster(n, platform)
      PROVE  MasterStays(m)
  <2>1. PICK row : row = [master |-> n, platform |-> platform, number |-> 1,
                          previous |-> 0, status |-> "IN_REVIEW"]
    OBVIOUS
  <2>2. variant' = Append(variant, row) /\ UNCHANGED <<master, deciding>> /\ n # m
        /\ row.master = n
    BY <1>0, <1>9, <2>1 DEF AdaptMaster
  <2> QED
    BY <2>2, VariantAppended
<1>10. ASSUME NEW c \in Variants, ReviseVariant(c) PROVE MasterStays(m)
  <2>1. PICK row : row = [variant[c] EXCEPT !.number = @ + 1, !.previous = c, !.status = "DRAFT"]
    OBVIOUS
  <2>2. variant' = Append(variant, row) /\ UNCHANGED <<master, deciding>>
        /\ variant[c].master # m
    BY <1>0, <1>10, <2>1 DEF ReviseVariant
  <2>3. row.master = variant[c].master
    BY <2>1, ContentFacts DEF VariantRow
  <2> QED
    BY <2>2, <2>3, VariantAppended
<1> QED
  BY <1>1, <1>2, <1>3, <1>4, <1>5, <1>6, <1>7, <1>8, <1>9, <1>10
     DEF ContentNext, GenerationStep, EditStep, AskForMaster, CreateGenerationJob, EndJob,
         PreparePackage, ApprovePackage

LEMMA MastersStayPast ==
  ASSUME ContentInv, BriefsTypeOK, BriefsTypeOK', BriefsAdvance,
         \A m \in Masters : /\ master'[m].version = master[m].version
                            /\ brief[master[m].job[1]].version # master[m].version
                               => MasterStays(m)
  PROVE  PastMastersStay
<1> SUFFICES ASSUME NEW m \in Masters, brief[master[m].job[1]].version # master[m].version
             PROVE  brief'[master[m].job[1]].version # master'[m].version
  BY DEF PastMastersStay, MasterStays
<1>1. master[m].job[1] \in BriefIds /\ master[m].version \in 1..MaxVersion
  BY ContentFacts DEF MasterRow, JobKey
<1>2. PICK b \in BriefIds : b = master[m].job[1]
  BY <1>1
<1>3. brief[b].version \in Nat /\ brief'[b].version \in Nat
  BY BriefVersions, BriefVersionsNext
<1>4. brief'[b].version >= brief[b].version
  BY <1>3 DEF BriefsAdvance
<1>5. master[m].version <= brief[b].version /\ master[m].version # brief[b].version
  BY <1>2 DEF ContentInv, MastersOK
<1>6. master[m].version \in Nat
  BY <1>1, VersionBounds
<1>7. brief'[b].version # master[m].version
  BY <1>3, <1>4, <1>5, <1>6
<1> QED
  BY <1>2, <1>7

\* No step changes what a master was written from.
LEMMA MastersKeepVersions ==
  ASSUME ContentInv, ContentNext, NEW m \in Masters
  PROVE  master'[m].version = master[m].version
<1>1. CASE UNCHANGED master
  BY <1>1
<1>2. ASSUME NEW row, master' = Append(master, row) PROVE master'[m] = master[m]
  <2>1. Len(master) \in Nat /\ Masters = 1..Len(master) /\ master \in Seq(MasterRow)
    BY ContentFacts DEF ContentInv, MastersOK
  <2> QED
    BY <1>2, <2>1
<1>3. ASSUME NEW n \in Masters, NEW action \in Actions, ReviewMaster(n, action)
      PROVE  master'[m].version = master[m].version
  <2>1. PICK s : master' = [master EXCEPT ![n].status = s,
                              ![n].from = IF s = "ARCHIVED" THEN master[n].status ELSE @]
    BY <1>3 DEF ReviewMaster
  <2> QED
    BY <2>1, ContentFacts DEF Masters, MasterRow
<1>4. ASSUME NEW n \in Masters, RestoreMaster(n) PROVE master'[m].version = master[m].version
  BY <1>4, ContentFacts DEF RestoreMaster, Masters, MasterRow
<1> QED
  BY <1>1, <1>2, <1>3, <1>4
     DEF ContentNext, GenerationStep, EditStep, AskForMaster, CreateGenerationJob, WriteMaster, EndJob,
         ReviseMaster, AdaptMaster, ReviseVariant, PreparePackage, ApprovePackage, ReviewVariant,
         DecideMaster, DecideVariant, Decide

\* Superseded versions and contents left behind by their brief stay what they are,
\* whatever reviews, revisions, archives and restores race (content/services.py,
\* transition_content and content_is_consistent).
THEOREM PastVersionsAlwaysStay == TrackedSpec => PastVersionsStay
<1>1. ASSUME TrackedInv, TrackedInv', [TrackedNext]_trackedRows
      PROVE  PastVariantsStay /\ PastMastersStay
  <2>0. BriefsTypeOK /\ BriefsTypeOK' /\ BriefsNumbered /\ ContentInv /\ DecidingInv /\ LinkInv
        /\ asked \subseteq JobKey
    BY <1>1 DEF TrackedInv, BriefInv, ContentInv, JobsOK
  <2>1. BriefsAdvance
    BY <1>1, <2>0, TrackedSteps, WorkspaceAdvancesBriefs
  <2>2. CASE UNCHANGED contentVars
    <3>1. UNCHANGED <<variant, package, master, deciding>>
      BY <2>2 DEF contentVars
    <3>2. \A m \in Masters : MasterStays(m)
      BY <3>1, MasterRests DEF Masters, Variants, Locked
    <3> QED
      BY <2>0, <2>1, <3>1, <3>2, PastVariantsRest, MastersStayPast
  <2>3. CASE ContentNext
    BY <2>0, <2>1, <2>3, ContentsKeepPastVariants, ContentsKeepPastMasters, MastersKeepVersions,
       MastersStayPast
  <2>4. ASSUME NEW t \in Tasks, DecidePublish(t) \/ FinishPublish(t)
        PROVE  PastVariantsStay /\ PastMastersStay
    <3>1. TaskContent[t] \in Variants /\ UNCHANGED <<package, master>>
      BY <2>0, <2>4 DEF LinkInv, TasksOK, DecidePublish, DecideVariant, Decide, FinishPublish
    <3>2. CASE Transits(TaskContent[t], "PUBLISH")
      <4>1. PastVariantsStay /\ \A m \in Masters : MasterStays(m)
        BY <2>0, <3>1, <3>2, TransitKeepsPast, TransitsMastersRest
      <4> QED
        BY <2>0, <2>1, <3>1, <4>1, MastersStayPast
    <3>3. CASE DecidePublish(t)
      <4>1. UNCHANGED variant /\ \A m \in Masters : MasterStays(m)
        BY <3>3, DecidingVariantRests DEF DecidePublish, DecideVariant, Decide
      <4> QED
        BY <2>0, <2>1, <3>1, <4>1, PastVariantsRest, MastersStayPast
    <3>4. CASE UNCHANGED <<variant, deciding>>
      <4>1. \A m \in Masters : MasterStays(m)
        BY <3>1, <3>4, MasterRests DEF Masters, Variants, Locked
      <4> QED
        BY <2>0, <2>1, <3>1, <3>4, <4>1, PastVariantsRest, MastersStayPast
    <3> QED
      BY <2>4, <3>2, <3>3, <3>4 DEF FinishPublish
  <2> QED
    BY <1>1, <2>0, <2>2, <2>3, <2>4, TrackedSteps
<1>2. TrackedInv /\ TrackedInv' /\ [TrackedNext]_trackedRows
      => [PastVariantsStay /\ PastMastersStay]_<<contentVars, brief>>
  BY <1>1
<1> QED
  BY <1>2, TrackedSafe, PTL
     DEF TrackedSpec, trackedRows, PastVersionsStay, PastVariantsStay, PastMastersStay

-----------------------------------------------------------------------------
(* Asset understanding.  Every step is a step of the job queue or leaves it  *)
(* alone, so the theorems of JobQueueProofs hold here too.  On top of them   *)
(* ReadingInv follows one attempt at a time: what its worker and its AIRun   *)
(* say of each other and of the job.                                         *)

LEMMA ReadingStepsAreJobSteps == [UnderstandingNext]_understandingVars => [JobNext]_jobVars
<1> SUFFICES ASSUME UnderstandingNext PROVE JobNext \/ UNCHANGED jobVars
  BY DEF understandingVars, jobVars
<1>1. ASSUME NEW j \in Jobs,
             \/ StartUnderstanding(j) \/ RetryUnderstanding(j) \/ SendUnderstanding(j)
             \/ RequestDies(j) \/ QueueStep(j) \/ MessageWasted(j) \/ ClaimUnderstanding(j)
             \/ ReviewFact(j)
      PROVE  JobNext \/ UNCHANGED jobVars
  BY <1>1 DEF StartUnderstanding, RetryUnderstanding, SendUnderstanding, RequestDies, QueueStep,
              MessageWasted, ClaimUnderstanding, ReviewFact, JobNext, JobStep
<1>2. ASSUME NEW j \in Jobs, NEW n \in Numbers,
             \/ OpenRun(j, n) \/ ReadingRaises(j, n) \/ FailRun(j, n) \/ ReaderDies(j, n)
      PROVE  UNCHANGED jobVars
  BY <1>2 DEF OpenRun, ReadingRaises, FailRun, ReaderDies
<1>3. ASSUME NEW j \in Jobs, NEW n \in Numbers, StoreFacts(j, n) \/ FailUnderstanding(j, n)
      PROVE  JobNext \/ UNCHANGED jobVars
  BY <1>3 DEF StoreFacts, FailUnderstanding, JobNext, TokenStep
<1>4. CASE ReapUnderstanding
  BY <1>4 DEF ReapUnderstanding, JobNext
<1> QED
  BY <1>1, <1>2, <1>3, <1>4 DEF UnderstandingNext

(* Understanding is a second client of the queue: it implements JobSpec, so what is *)
(* proved of JobService holds of its jobs (understanding.py calls nothing else).    *)
THEOREM ReadersUseTheQueue == UnderstandingSpec => JobSpec
<1>1. UnderstandingInit => JobInit
  BY DEF UnderstandingInit
<1> QED
  BY <1>1, ReadingStepsAreJobSteps, PTL DEF UnderstandingSpec, JobSpec

-----------------------------------------------------------------------------
RunStates == {"NONE", "RUNNING", "SUCCEEDED", "FAILED"}

ReadingTypes ==
  /\ reader \in [Jobs -> [Numbers -> ReaderStates]]
  /\ aiRun \in [Jobs -> [Numbers -> RunStates]]
  /\ facts \in [Jobs -> SUBSET Fact]

\* Attempt n of job j: its worker, its AIRun and the job.
Reading(j, n) ==
  /\ reader[j][n] \in {"none", "claimed"} => aiRun[j][n] = "NONE"
  /\ reader[j][n] \in {"reading", "failing"} => aiRun[j][n] = "RUNNING"
  /\ aiRun[j][n] = "RUNNING" => reader[j][n] \in {"reading", "failing", "dead"}
  /\ aiRun[j][n] = "SUCCEEDED" <=> job[j].result = n
  /\ aiRun[j][n] = "FAILED" => job[j].attempt > n \/ job[j].status # "SUCCEEDED"
  /\ reader[j][n] # "none" => attempt[j][n] # "NONE"

Sourced(j) == \A f \in facts[j] : job[j].status = "SUCCEEDED" /\ f.attempt = job[j].result

ReadingInv ==
  /\ JobInv /\ ReadingTypes
  /\ \A j \in Jobs : Sourced(j) /\ \A n \in Numbers : Reading(j, n)

\* A step that leaves the result of job k as it is.
Quiet(k) ==
  /\ job'[k].result = job[k].result /\ job'[k].attempt >= job[k].attempt
  /\ job'[k].status = "SUCCEEDED" <=> job[k].status = "SUCCEEDED"
  /\ \A n \in Numbers : attempt[k][n] # "NONE" => attempt'[k][n] # "NONE"

LEMMA JobFacts ==
  ASSUME JobInv, NEW j \in Jobs
  PROVE  /\ job[j].attempt \in Nat
         /\ job[j].status # "SUCCEEDED" => job[j].result = 0
         /\ job[j].status = "SUCCEEDED" => job[j].result = job[j].attempt
         /\ job[j].status = "RUNNING" => job[j].owner = job[j].attempt
         /\ \A n \in Numbers : n > job[j].attempt => attempt[j][n] = "NONE"
BY Bounds, RowOf DEF JobInv, HistoryFits, OutcomeFits

LEMMA MostJobStepsAreQuiet ==
  ASSUME JobInv, JobInv', NEW j \in Jobs, JobStep(j) \/ (\E n \in Numbers : FailJob(j, n)) \/ ReapJobs
  PROVE  \A k \in Jobs : Quiet(k)
<1> SUFFICES ASSUME NEW k \in Jobs PROVE Quiet(k)
  OBVIOUS
<1> DEFINE Moved == /\ job'[k].attempt >= job[k].attempt
                    /\ job'[k].status = "SUCCEEDED" <=> job[k].status = "SUCCEEDED"
                    /\ job[k].status = "SUCCEEDED" => job'[k].attempt = job[k].attempt
                    /\ \A n \in Numbers : attempt[k][n] # "NONE" => attempt'[k][n] # "NONE"
<1>1. /\ job \in [Jobs -> JobRow] /\ attempt \in [Jobs -> [Numbers -> AttemptStatus]]
      /\ job[k].attempt \in Int /\ job[j].attempt \in Int
  BY Bounds, RowOf DEF JobInv, JobTypeOK
<1>2. ASSUME CreateJob(j) PROVE Moved
  <2>1. job'[k].attempt = job[k].attempt /\ job[j].status # "SUCCEEDED" /\ attempt' = attempt
        /\ job'[k].status = IF k = j THEN "QUEUED" ELSE job[k].status
    BY <1>1, <1>2 DEF CreateJob, JobRow
  <2> QED
    BY <1>1, <2>1
<1>3. ASSUME ClaimJob(j) PROVE Moved
  <2>1. job'[k].attempt = job[k].attempt /\ job[j].status # "SUCCEEDED"
        /\ job'[k].status = IF k = j THEN "RUNNING" ELSE job[k].status
    BY <1>1, <1>3 DEF ClaimJob, Waiting, JobRow
  <2>2. \A n \in Numbers : attempt[k][n] # "NONE" => attempt'[k][n] # "NONE"
    BY <1>1, <1>3 DEF ClaimJob
  <2> QED
    BY <1>1, <2>1, <2>2
<1>4. ASSUME RetryJob(j) PROVE Moved
  <2>1. job'[k].attempt = (IF k = j THEN job[k].attempt + 1 ELSE job[k].attempt)
        /\ job[j].status # "SUCCEEDED" /\ attempt' = attempt
        /\ job'[k].status = IF k = j THEN "RETRY_QUEUED" ELSE job[k].status
    BY <1>1, <1>4 DEF RetryJob, JobRow
  <2> QED
    BY <1>1, <2>1
<1>5. ASSUME CancelJob(j) PROVE Moved
  <2>1. job'[k].attempt = job[k].attempt /\ job[j].status # "SUCCEEDED"
        /\ job'[k].status = IF k = j THEN "CANCELED" ELSE job[k].status
    BY <1>1, <1>5 DEF CancelJob, Transitions, JobRow
  <2>2. \A n \in Numbers : attempt[k][n] # "NONE" => attempt'[k][n] # "NONE"
    BY <1>1, <1>5 DEF CancelJob
  <2> QED
    BY <1>1, <2>1, <2>2
<1>6. ASSUME LeaseRunsOut(j) PROVE Moved
  <2>1. job'[k].attempt = job[k].attempt /\ job'[k].status = job[k].status /\ attempt' = attempt
    BY <1>1, <1>6 DEF LeaseRunsOut, JobRow
  <2> QED
    BY <1>1, <2>1
<1>7. ASSUME NEW n \in Numbers, FailJob(j, n)
      PROVE  Moved
  <2>1. job'[k].attempt = job[k].attempt /\ job[j].status # "SUCCEEDED"
        /\ job'[k].status = IF k = j THEN "FAILED" ELSE job[k].status
    BY <1>1, <1>7 DEF FailJob, Owns, JobRow
  <2>2. \A m \in Numbers : attempt[k][m] # "NONE" => attempt'[k][m] # "NONE"
    BY <1>1, <1>7 DEF FailJob
  <2> QED
    BY <1>1, <2>1, <2>2
<1>8. ASSUME ReapJobs PROVE Moved
  <2>1. job'[k].attempt = job[k].attempt
        /\ (job'[k].status = job[k].status \/ (job[k].status = "RUNNING" /\ job'[k].status = "FAILED"))
    <3>1. job[k] \in JobRow
      BY <1>1
    <3>2. CASE k \in StaleJobs
      <4> DEFINE row == [job[k] EXCEPT !.status = "FAILED", !.error = "stale_worker", !.result = 0,
                                       !.finished = TRUE, !.owner = 0]
      <4>1. job'[k] = row /\ job[k].status = "RUNNING"
        BY <1>8, <3>2 DEF ReapJobs, StaleJobs
      <4> QED
        BY <3>1, <4>1 DEF JobRow
    <3>3. CASE k \notin StaleJobs
      BY <1>8, <3>3 DEF ReapJobs
    <3> QED
      BY <3>2, <3>3
  <2>2. \A n \in Numbers : attempt[k][n] # "NONE" => attempt'[k][n] # "NONE"
    BY <1>1, <1>8 DEF ReapJobs
  <2> QED
    BY <1>1, <2>1, <2>2
<1>9. /\ job[k].status # "SUCCEEDED" => job[k].result = 0
      /\ job'[k].status # "SUCCEEDED" => job'[k].result = 0
      /\ job[k].status = "SUCCEEDED" => job[k].result = job[k].attempt
      /\ job'[k].status = "SUCCEEDED" => job'[k].result = job'[k].attempt
  BY DEF JobInv, OutcomeFits
<1>10. Moved
  BY <1>2, <1>3, <1>4, <1>5, <1>6, <1>7, <1>8 DEF JobStep
<1> QED
  BY <1>9, <1>10 DEF Quiet

-----------------------------------------------------------------------------
(* Attempt n of job j moves to state s, its AIRun to r; no result changes.   *)
LEMMA CellWritten ==
  ASSUME ReadingInv, JobInv', \A k \in Jobs : Quiet(k),
         NEW j \in Jobs, NEW n \in Numbers, NEW s \in ReaderStates, NEW r \in RunStates,
         reader' = [reader EXCEPT ![j][n] = s], aiRun' = [aiRun EXCEPT ![j][n] = r],
         UNCHANGED facts, Reading(j, n)'
  PROVE  ReadingInv'
<1>1. ReadingTypes'
  BY DEF ReadingInv, ReadingTypes
<1>2. ASSUME NEW k \in Jobs, NEW m \in Numbers PROVE Reading(k, m)'
  <2>1. CASE k = j /\ m = n
    BY <2>1
  <2>2. CASE ~(k = j /\ m = n)
    <3>1. reader'[k][m] = reader[k][m] /\ aiRun'[k][m] = aiRun[k][m]
      BY <2>2 DEF ReadingInv, ReadingTypes
    <3>2. Reading(k, m) /\ Quiet(k) /\ job[k].attempt \in Int /\ job'[k].attempt \in Int /\ m \in Int
      BY Bounds DEF ReadingInv, JobInv, JobTypeOK, JobRow
    <3> QED
      BY <3>1, <3>2 DEF Reading, Quiet
  <2> QED
    BY <2>1, <2>2
<1>3. \A k \in Jobs : Sourced(k)'
  BY DEF ReadingInv, Sourced, Quiet
<1> QED
  BY <1>1, <1>2, <1>3 DEF ReadingInv

\* Nothing is written but the queue's rows.
LEMMA QueueAlone ==
  ASSUME ReadingInv, JobInv', \A k \in Jobs : Quiet(k), UNCHANGED <<reader, aiRun, facts>>
  PROVE  ReadingInv'
<1>1. ASSUME NEW k \in Jobs, NEW m \in Numbers PROVE Reading(k, m)'
  <2>1. Reading(k, m) /\ Quiet(k) /\ job[k].attempt \in Int /\ job'[k].attempt \in Int /\ m \in Int
    BY Bounds DEF ReadingInv, JobInv, JobTypeOK, JobRow
  <2> QED
    BY <2>1 DEF Reading, Quiet
<1> QED
  BY <1>1 DEF ReadingInv, ReadingTypes, Sourced, Quiet

LEMMA ResultsStand ==
  ASSUME ReadingInv, UNCHANGED jobVars
  PROVE  JobInv' /\ \A k \in Jobs : Quiet(k)
<1>1. \A k \in Jobs : job[k].attempt \in Int
  BY Bounds DEF ReadingInv, JobInv, JobTypeOK, JobRow
<1> QED
  BY <1>1 DEF jobVars, ReadingInv, JobInv, JobTypeOK, HistoryFits, LatestFits, OutcomeFits, Quiet

\* What the worker of one attempt may do before it ends.
WorkerAdvances(j, n, s, r) ==
  \/ reader[j][n] = "claimed" /\ s = "reading" /\ r = "RUNNING"
  \/ reader[j][n] = "failing" /\ s = "failed" /\ r = "FAILED"
  \/ reader[j][n] # "none" /\ s \in {"done", "dead", "failing"} /\ r = aiRun[j][n]
     /\ (aiRun[j][n] = "RUNNING" => s # "done") /\ (s = "failing" => aiRun[j][n] = "RUNNING")

LEMMA WorkerMoves ==
  ASSUME ReadingInv, JobInv', \A k \in Jobs : Quiet(k), NEW j \in Jobs, NEW n \in Numbers,
         NEW s \in ReaderStates, NEW r \in RunStates, WorkerAdvances(j, n, s, r),
         reader' = [reader EXCEPT ![j][n] = s], aiRun' = [aiRun EXCEPT ![j][n] = r],
         UNCHANGED facts
  PROVE  ReadingInv'
<1>1. /\ reader \in [Jobs -> [Numbers -> ReaderStates]] /\ aiRun \in [Jobs -> [Numbers -> RunStates]]
      /\ Reading(j, n) /\ JobInv /\ Quiet(j)
  BY DEF ReadingInv, ReadingTypes
<1>2. reader'[j][n] = s /\ aiRun'[j][n] = r
  BY <1>1
<1>3. /\ job[j].attempt \in Int /\ job'[j].attempt \in Int /\ n \in Int
      /\ job'[j].attempt >= job[j].attempt
      /\ attempt[j][n] # "NONE" => job[j].attempt >= n
      /\ job[j].status = "SUCCEEDED" => job[j].result = job[j].attempt
      /\ job'[j].status = "SUCCEEDED" <=> job[j].status = "SUCCEEDED"
      /\ job'[j].result = job[j].result /\ (attempt[j][n] # "NONE" => attempt'[j][n] # "NONE")
  <2>1. /\ job[j].attempt \in Int /\ n \in Int
        /\ attempt[j][n] # "NONE" => job[j].attempt >= n
        /\ job[j].status = "SUCCEEDED" => job[j].result = job[j].attempt
    BY <1>1, JobFacts, Bounds
  <2>2. job'[j].attempt \in Int
    BY Bounds DEF JobInv, JobTypeOK, JobRow
  <2> QED
    BY <1>1, <2>1, <2>2 DEF Quiet
<1>4. Reading(j, n)'
  <2>1. CASE s = "reading" /\ reader[j][n] = "claimed" /\ r = "RUNNING"
    BY <1>1, <1>2, <1>3, <2>1 DEF Reading
  <2>2. CASE s = "failed" /\ reader[j][n] = "failing" /\ r = "FAILED"
    <3>1. aiRun[j][n] = "RUNNING" /\ job[j].result # n /\ attempt[j][n] # "NONE"
      BY <1>1, <2>2 DEF Reading
    <3>2. job'[j].attempt > n \/ job'[j].status # "SUCCEEDED"
      BY <1>3, <3>1
    <3> QED
      BY <1>2, <1>3, <2>2, <3>1, <3>2 DEF Reading
  <2>3. CASE s \in {"done", "dead", "failing"} /\ r = aiRun[j][n] /\ reader[j][n] # "none"
             /\ (r = "RUNNING" => s # "done") /\ (s = "failing" => r = "RUNNING")
    BY <1>1, <1>2, <1>3, <2>3 DEF Reading
  <2> QED
    BY <2>1, <2>2, <2>3 DEF WorkerAdvances
<1> QED
  BY <1>4, CellWritten

LEMMA WorkerKeeps ==
  ASSUME ReadingInv, NEW j \in Jobs, NEW n \in Numbers,
         OpenRun(j, n) \/ ReadingRaises(j, n) \/ FailRun(j, n) \/ ReaderDies(j, n)
  PROVE  ReadingInv'
<1>1. UNCHANGED jobVars /\ UNCHANGED facts
  BY DEF OpenRun, ReadingRaises, FailRun, ReaderDies
<1>2. JobInv' /\ \A k \in Jobs : Quiet(k)
  BY <1>1, ResultsStand
<1>3. /\ aiRun[j][n] \in RunStates /\ Reading(j, n)
      /\ aiRun' = aiRun => aiRun' = [aiRun EXCEPT ![j][n] = aiRun[j][n]]
  BY DEF ReadingInv, ReadingTypes
<1>4. CASE OpenRun(j, n)
  <2>1. CASE ReaderBecomes(j, n, "reading") /\ aiRun' = [aiRun EXCEPT ![j][n] = "RUNNING"]
    <3>1. WorkerAdvances(j, n, "reading", "RUNNING")
      BY <1>4 DEF OpenRun, WorkerAdvances
    <3> QED
      BY <1>1, <1>2, <2>1, <3>1, WorkerMoves DEF ReaderBecomes, ReaderStates, RunStates
  <2>2. CASE ReaderBecomes(j, n, "done") /\ UNCHANGED aiRun
    <3>1. WorkerAdvances(j, n, "done", aiRun[j][n])
      BY <1>3, <1>4 DEF OpenRun, WorkerAdvances, Reading
    <3> QED
      BY <1>1, <1>2, <1>3, <2>2, <3>1, WorkerMoves DEF ReaderBecomes, ReaderStates
  <2> QED
    BY <1>4, <2>1, <2>2 DEF OpenRun
<1>5. CASE ReadingRaises(j, n)
  <2>1. WorkerAdvances(j, n, "failing", aiRun[j][n])
    BY <1>3, <1>5 DEF ReadingRaises, WorkerAdvances, Reading
  <2> QED
    BY <1>1, <1>2, <1>3, <1>5, <2>1, WorkerMoves DEF ReadingRaises, ReaderBecomes, ReaderStates
<1>6. CASE FailRun(j, n)
  <2>1. WorkerAdvances(j, n, "failed", "FAILED")
    BY <1>6 DEF FailRun, WorkerAdvances
  <2> QED
    BY <1>1, <1>2, <1>6, <2>1, WorkerMoves DEF FailRun, ReaderBecomes, ReaderStates, RunStates
<1>7. CASE ReaderDies(j, n)
  <2>1. WorkerAdvances(j, n, "dead", aiRun[j][n])
    BY <1>3, <1>7 DEF ReaderDies, WorkerAdvances, Reading
  <2> QED
    BY <1>1, <1>2, <1>3, <1>7, <2>1, WorkerMoves DEF ReaderDies, ReaderBecomes, ReaderStates
<1> QED
  BY <1>4, <1>5, <1>6, <1>7

LEMMA FailureKeeps ==
  ASSUME ReadingInv, JobInv', NEW j \in Jobs, NEW n \in Numbers, FailUnderstanding(j, n)
  PROVE  ReadingInv'
<1>1. \A k \in Jobs : Quiet(k)
  <2>1. JobInv /\ (FailJob(j, n) \/ UNCHANGED jobVars)
    BY DEF FailUnderstanding, ReadingInv
  <2> QED
    BY <2>1, MostJobStepsAreQuiet, ResultsStand
<1>2. /\ aiRun[j][n] \in RunStates /\ Reading(j, n) /\ reader[j][n] = "failed"
      /\ aiRun' = [aiRun EXCEPT ![j][n] = aiRun[j][n]]
  BY DEF ReadingInv, ReadingTypes, FailUnderstanding
<1>3. WorkerAdvances(j, n, "done", aiRun[j][n])
  <2>1. aiRun[j][n] # "RUNNING"
    BY <1>2 DEF Reading
  <2> QED
    BY <1>2, <2>1 DEF WorkerAdvances
<1> QED
  BY <1>1, <1>2, <1>3, WorkerMoves DEF FailUnderstanding, ReaderBecomes, ReaderStates

LEMMA ClaimKeeps ==
  ASSUME ReadingInv, JobInv', NEW j \in Jobs, ClaimUnderstanding(j)
  PROVE  ReadingInv'
<1> PICK n \in Numbers : n = job[j].attempt
  BY RowOf DEF ReadingInv, JobInv
<1>1. attempt[j][n] = "NONE" /\ Reading(j, n) /\ ReadingTypes /\ JobInv
  BY DEF ReadingInv, ClaimUnderstanding, ClaimJob
<1>2. reader[j][n] = "none" /\ aiRun[j][n] = "NONE"
  BY <1>1 DEF Reading
<1>3. \A k \in Jobs : Quiet(k)
  BY <1>1, MostJobStepsAreQuiet DEF ClaimUnderstanding, JobStep
<1>4. /\ reader' = [reader EXCEPT ![j][n] = "claimed"] /\ aiRun' = [aiRun EXCEPT ![j][n] = "NONE"]
      /\ UNCHANGED facts /\ aiRun' = aiRun /\ reader'[j][n] = "claimed"
  BY <1>1, <1>2 DEF ClaimUnderstanding, ReaderBecomes, ReadingTypes
<1>5. attempt'[j][n] = "RUNNING"
  BY <1>1 DEF ClaimUnderstanding, ClaimJob, JobInv, JobTypeOK
<1>6. aiRun'[j][n] = "NONE" /\ job'[j].result = job[j].result /\ job[j].result # n
  BY <1>1, <1>2, <1>3, <1>4 DEF Reading, Quiet
<1>7. Reading(j, n)'
  BY <1>4, <1>5, <1>6 DEF Reading
<1> QED
  BY <1>1, <1>3, <1>4, <1>7, CellWritten DEF ReaderStates, RunStates

\* The success: facts, run and job in one transaction.
LEMMA SuccessKeeps ==
  ASSUME ReadingInv, JobInv', NEW j \in Jobs, NEW n \in Numbers, StoreFacts(j, n)
  PROVE  ReadingInv'
<1>1. /\ ReadingTypes /\ JobInv /\ reader[j][n] = "reading" /\ Reading(j, n) /\ Sourced(j)
      /\ job[j].status = "RUNNING" /\ job[j].owner = n /\ job[j] \in JobRow
  BY RowOf DEF ReadingInv, JobInv, StoreFacts, SucceedJob, Owns
<1>2. job[j].attempt = n /\ job[j].result = 0 /\ n \in Int /\ n # 0
  BY <1>1, JobFacts, Bounds
<1>3. /\ job'[j].status = "SUCCEEDED" /\ job'[j].result = n /\ job'[j].attempt = n
      /\ attempt'[j][n] = "SUCCEEDED"
      /\ \A m \in Numbers \ {n} : attempt'[j][m] = attempt[j][m]
      /\ \A k \in Jobs \ {j} : job'[k] = job[k] /\ attempt'[k] = attempt[k]
  BY <1>1, <1>2 DEF StoreFacts, SucceedJob, JobInv, JobTypeOK, JobRow
<1>4. /\ reader' = [reader EXCEPT ![j][n] = "done"] /\ aiRun' = [aiRun EXCEPT ![j][n] = "SUCCEEDED"]
      /\ reader'[j][n] = "done" /\ aiRun'[j][n] = "SUCCEEDED"
  BY <1>1 DEF StoreFacts, ReaderBecomes, ReadingTypes
<1>5. facts[j] = {}
  BY <1>1 DEF Sourced
<1>6. PICK news \in SUBSET {[attempt |-> n, review |-> "SUGGESTED"]} :
        facts' = [facts EXCEPT ![j] = facts[j] \cup news]
  BY <1>1 DEF StoreFacts, ReadingTypes
<1>7. ReadingTypes'
  <2>1. news \in SUBSET Fact
    BY DEF Fact
  <2>2. facts' \in [Jobs -> SUBSET Fact]
    BY <1>1, <1>6, <2>1 DEF ReadingTypes
  <2>3. reader' \in [Jobs -> [Numbers -> ReaderStates]]
    BY <1>1, <1>4 DEF ReadingTypes, ReaderStates
  <2>4. aiRun' \in [Jobs -> [Numbers -> RunStates]]
    BY <1>1, <1>4 DEF ReadingTypes, RunStates
  <2> QED
    BY <2>2, <2>3, <2>4 DEF ReadingTypes
<1>8. ASSUME NEW k \in Jobs PROVE Sourced(k)'
  <2>1. CASE k = j
    <3>1. facts'[j] = news
      BY <1>1, <1>5, <1>6 DEF ReadingTypes
    <3> QED
      BY <1>3, <2>1, <3>1 DEF Sourced
  <2>2. CASE k # j
    <3>1. facts'[k] = facts[k]
      BY <1>1, <1>6, <2>2 DEF ReadingTypes
    <3> QED
      BY <1>3, <2>2, <3>1 DEF Sourced, ReadingInv
  <2> QED
    BY <2>1, <2>2
<1>9. ASSUME NEW k \in Jobs, NEW m \in Numbers PROVE Reading(k, m)'
  <2>1. CASE k # j
    <3>1. reader'[k][m] = reader[k][m] /\ aiRun'[k][m] = aiRun[k][m] /\ Reading(k, m)
      BY <1>1, <1>4, <2>1 DEF ReadingTypes, ReadingInv
    <3> QED
      BY <1>3, <2>1, <3>1 DEF Reading
  <2>2. CASE k = j /\ m = n
    BY <1>2, <1>3, <1>4, <2>2 DEF Reading
  <2>3. CASE k = j /\ m # n
    <3>1. reader'[j][m] = reader[j][m] /\ aiRun'[j][m] = aiRun[j][m] /\ Reading(j, m) /\ m \in Int
          /\ m # 0
      BY <1>1, <1>4, <2>3, Bounds DEF ReadingTypes, ReadingInv
    <3>2. m > n => aiRun[j][m] = "NONE"
      <4>1. m > n => attempt[j][m] = "NONE"
        BY <1>1, <1>2, JobFacts
      <4> QED
        BY <3>1, <4>1 DEF Reading
    <3>3. aiRun[j][m] # "SUCCEEDED"
      BY <1>2, <3>1 DEF Reading
    <3> QED
      BY <1>2, <1>3, <2>3, <3>1, <3>2, <3>3 DEF Reading
  <2> QED
    BY <2>1, <2>2, <2>3
<1> QED
  BY <1>7, <1>8, <1>9 DEF ReadingInv

LEMMA ReviewKeeps ==
  ASSUME ReadingInv, NEW j \in Jobs, ReviewFact(j)
  PROVE  ReadingInv'
<1>1. ReadingTypes /\ UNCHANGED jobVars /\ UNCHANGED <<reader, aiRun>>
  BY DEF ReviewFact, ReadingInv
<1>2. PICK f \in facts[j], verdict \in {"VERIFIED", "REJECTED"} :
        facts' = [facts EXCEPT ![j] = (facts[j] \ {f}) \cup {[f EXCEPT !.review = verdict]}]
  BY <1>1 DEF ReviewFact, ReadingTypes
<1> DEFINE reviewed == [f EXCEPT !.review = verdict]
<1>3. reviewed \in Fact /\ reviewed.attempt = f.attempt
  BY <1>1 DEF ReadingTypes, Fact
<1> HIDE DEF reviewed
<1>4. facts' = [facts EXCEPT ![j] = (facts[j] \ {f}) \cup {reviewed}]
  BY <1>2 DEF reviewed
<1>5. ReadingTypes'
  BY <1>1, <1>3, <1>4 DEF ReadingTypes
<1>6. JobInv'
  BY <1>1, ResultsStand
<1>7. \A k \in Jobs : Sourced(k)'
  BY <1>1, <1>3, <1>4 DEF ReadingInv, ReadingTypes, Sourced, jobVars
<1>8. \A k \in Jobs, m \in Numbers : Reading(k, m)'
  BY <1>1 DEF ReadingInv, Reading, jobVars
<1> QED
  BY <1>5, <1>6, <1>7, <1>8 DEF ReadingInv

LEMMA ReadingBegins == UnderstandingInit => ReadingInv
<1> SUFFICES ASSUME UnderstandingInit PROVE ReadingInv
  OBVIOUS
<1>1. JobInv /\ \A j \in Jobs : job[j].result = 0
  BY JobsBegin DEF UnderstandingInit, JobInit, NoJob
<1>2. \A n \in Numbers : n # 0
  BY Bounds
<1> QED
  BY <1>1, <1>2 DEF UnderstandingInit, ReadingInv, ReadingTypes, ReaderStates, RunStates, Reading, Sourced

LEMMA ReadingKeeps == ReadingInv /\ [UnderstandingNext]_understandingVars => ReadingInv'
<1> SUFFICES ASSUME ReadingInv, [UnderstandingNext]_understandingVars PROVE ReadingInv'
  OBVIOUS
<1>1. JobInv'
  BY ReadingStepsAreJobSteps, StepsPreserve DEF ReadingInv
<1>2. CASE UNCHANGED understandingVars
  BY <1>2, ResultsStand, QueueAlone DEF understandingVars, readVars
<1>3. ASSUME NEW j \in Jobs, UNCHANGED <<reader, aiRun, facts>>, JobStep(j) \/ UNCHANGED jobVars
      PROVE  ReadingInv'
  BY <1>1, <1>3, ResultsStand, MostJobStepsAreQuiet, QueueAlone DEF ReadingInv
<1>4. ASSUME NEW j \in Jobs,
             \/ StartUnderstanding(j) \/ RetryUnderstanding(j) \/ SendUnderstanding(j)
             \/ RequestDies(j) \/ QueueStep(j) \/ MessageWasted(j)
      PROVE  ReadingInv'
  BY <1>3, <1>4 DEF StartUnderstanding, RetryUnderstanding, SendUnderstanding, RequestDies, QueueStep,
                    MessageWasted, JobStep
<1>5. ASSUME NEW j \in Jobs, NEW n \in Numbers,
             \/ OpenRun(j, n) \/ StoreFacts(j, n) \/ ReadingRaises(j, n) \/ FailRun(j, n)
             \/ FailUnderstanding(j, n) \/ ReaderDies(j, n)
      PROVE  ReadingInv'
  BY <1>1, <1>5, WorkerKeeps, SuccessKeeps, FailureKeeps
<1>6. CASE ReapUnderstanding
  <2>1. ReapJobs /\ UNCHANGED <<reader, aiRun, facts>>
    BY <1>6 DEF ReapUnderstanding, readVars
  <2>2. PICK j \in Jobs : TRUE
    BY <2>1 DEF ReapJobs, StaleJobs
  <2> QED
    BY <1>1, <2>1, <2>2, MostJobStepsAreQuiet, QueueAlone DEF ReadingInv
<1> QED
  BY <1>1, <1>2, <1>4, <1>5, <1>6, ClaimKeeps, ReviewKeeps DEF UnderstandingNext

(* The inductive invariant: what a worker, its AIRun and its job say of each other.       *)
THEOREM ReadingsSafe == UnderstandingSpec => []ReadingInv
BY ReadingBegins, ReadingKeeps, PTL DEF UnderstandingSpec

(* The facts of a job come from the one attempt its result names (FactsHaveOneSource, *)
(* which TLC checks on one job of two attempts): whatever a worker whose job was      *)
(* reaped, canceled or retried still does, it leaves no fact behind.                  *)
THEOREM FactsAlwaysHaveOneSource == UnderstandingSpec => []FactsHaveOneSource
<1>1. ReadingInv => FactsHaveOneSource
  BY DEF ReadingInv, Sourced, Reading, FactsHaveOneSource
<1> QED
  BY <1>1, ReadingsSafe, PTL

-----------------------------------------------------------------------------
(* The whole workspace *)

\* A behaviour of the whole is one of each of its parts.
LEMMA PartsBehave == StudiedSpec => TrackedSpec /\ UnderstandingSpec
<1>1. StudiedInit => TrackedInit /\ UnderstandingInit
  BY DEF StudiedInit
<1>2. [StudiedNext]_<<trackedRows, understandingVars>> =>
        [TrackedNext]_trackedRows /\ [UnderstandingNext]_understandingVars
  BY DEF StudiedNext
<1> QED
  BY <1>1, <1>2, PTL DEF StudiedSpec, TrackedSpec, UnderstandingSpec, trackedRows

LEMMA TrackedTypes ==
  ASSUME TrackedInv PROVE CatalogTypeOK /\ BriefsTypeOK /\ ContentTypeOK /\ TrackingTypeOK
<1>1. CatalogTypeOK /\ BriefsTypeOK /\ TrackingTypeOK
  BY DEF TrackedInv, CatalogInv, BriefInv, LinkInv
<1>2. ContentTypeOK
  BY DEF TrackedInv, ContentInv, JobsOK, MastersOK, ArchivedFrom, VariantsOK, PackagesOK,
         DecidingInv, ContentTypeOK
<1> QED
  BY <1>1, <1>2

LEMMA ReadingTyped == ASSUME ReadingInv PROVE UnderstandingTypeOK
BY DEF ReadingInv, ReadingTypes, RunStates, JobInv, UnderstandingTypeOK

(* The rows of the workspace have their types, and what one row names of another *)
(* exists and may be named by its owner: relations and documents stay within an  *)
(* overlay, a channel package is that of a content, a short link that of a       *)
(* tracking link (knowledge/services.py, content/services.py, tracking).         *)
THEOREM RowsAlwaysTyped == StudiedSpec => []WorkspaceTypeOK
<1>1. TrackedInv /\ AssetInv /\ KnowledgeTypeOK /\ ReadingInv => WorkspaceTypeOK
  BY TrackedTypes, ReadingTyped DEF AssetInv, WorkspaceTypeOK
<1> QED
  BY <1>1, PartsBehave, ContentsKeepTheWorkspace, TrackedSafe, AssetsSafe, KnowledgeTypes,
     ReadingsSafe, PTL
===============================================================================
