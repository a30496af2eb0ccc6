SPECIFICATION MCSpec
CONSTANTS
  web = web  plain = plain  buyer = buyer
  mailer = mailer  guest = guest  strategist = strategist
  writer = writer  adapter = adapter  poster = poster
  m1 = m1  m2 = m2
  Companies = {web, plain, buyer}
  Discovered = {web, plain}
  Online = {web}
  Evidence <- Knows
  MaxDrafts = 2
  MaxMails = 3
  Runs = {mailer, guest, strategist, writer, adapter, poster}
  AgentType <- TypeOf
  Subject <- SubjectOf
  Mode <- ModeOf
  Arguments <- Given
  AIChoices <- PlannerPicks
  MaxChoices = 2
  MaxSteps = 9
  MaxReviewers = 2
  Missions = {m1, m2}
  Terms = {"old", "new"}
  MissionOf <- KeyNames
  MaxPlans = 3
  MaxStarts = 1
  q1 = q1  q2 = q2  q3 = q3  q4 = q4
  Inquiries = {q1, q2, q3, q4}
  Request <- RequestOf
  Person <- PersonOf
  Text <- TextOf
  Clear <- ClearTexts
  NoId = "none"
  Visits = {1, 2, 3}
  Notices = {"n1", "n2"}
  Entries = {"by hand"}
  Figures = {"first", "corrected"}
  MaxRuns = 3
  MaxSyncs = 4
  MaxApprovals = 3
  Calls = {"j1", "j2", "a1", "plan"}
  Kind <- KindByName
  TokenBudget = 3
  R = 2
  CostBudget = 3
  Estimate <- UnevenEstimates
  Bills <- AnyBills
  LastDay = 1
  Desks = {"outreach", "mails", "contents", "posts", "missions", "starts", "inquiries", "visits", "discovery", "maps", "trade", "promotion", "budget"}
CONSTRAINT BoundedEffort
INVARIANTS GrowthTypeOK InquiriesAreRecordedOnce ReadingsMissOnlyOvertakers SignalsAreCounted ReadingsAreTheLastHeard BudgetInv CostOvershootIsExplained ActionsWereApproved MailsAreSpaced MissionsRunTheirPlan CreditFollowsTheRun
PROPERTIES EndedRunsRest
CHECK_DEADLOCK FALSE
