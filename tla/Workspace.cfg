SPECIFICATION MCSpec
CONSTANTS
  g1 = g1  g2 = g2  SYSTEM = SYSTEM
  gear = gear  spur = spur  line = line  own = own
  sheet = sheet  p1 = p1  p2 = p2  u1 = u1  u2 = u2  u3 = u3
  Orgs = {g1, g2}
  Concepts = {gear, spur, line, own}
  Evidence = {sheet}
  Words = {"gear"}
  ConceptOwner <- Owner
  ConceptType <- Type
  EvidenceOwner <- DocOwner
  UsedPredicates = {"IS_A", "APPLIES_TO"}
  SeedConcepts = {gear, line}
  SeedName <- Name
  SeedRelations <- Installed
  MaxAliases = 2
  MaxRelations = 3
  Tenant = g1
  Products = {p1, p2}
  Texts = {"old", "new"}
  MaxVersion = 6
  Uploads = {u1, u2, u3}
  Checksum <- Sum3
  MaxBriefs = 2
  Fields = {"partial", "full"}
  Complete = {"full"}
  MaxInputs = 2
  Jobs = {"job"}
  MaxAttempts = 3
  Progress = {0, 100}
  MaxAsks = 4
  t1 = t1  t2 = t2
  Platforms = {"LINKEDIN", "TIKTOK"}
  Selected = {"LINKEDIN"}
  MaxMasters = 2
  MaxContents = 3
  Tasks = {t1, t2}
  TaskContent <- FirstContent
  Keys = {1}
  Desks = {"hierarchy", "names", "catalog", "uploads", "briefs", "contents", "links", "understanding"}
  MaxEffort = 8
CONSTRAINT BoundedEffort
INVARIANTS WorkspaceTypeOK HierarchyIsAcyclic SnapshotIsTheNeighbourhood AssetsKeepOriginals FactsHaveOneSource VersionsNameRows ReadyIsFrozen PackagesAreReviewed LostClicksAreExplained
PROPERTIES PastVersionsStay
CHECK_DEADLOCK FALSE
