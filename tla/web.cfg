SPECIFICATION FairSpec
CONSTANTS
  t1 = t1
  t2 = t2
  x1 = x1
  TenantList <- MCTenants
  NoTenant = NoTenant
  Slots = 2
  Site = {x1}
  PageSize = 1
  MaxJobs = 4
  FirstJobs <- MCFirstJobs
  EntityType = {"person"}
  MaxConditions = 2
  MaxEntries = 2
  Sit = {"ssn", "card"}
  MaxPolicies = 3
  FirstPolicies <- MCFirstPolicies
  Sheets <- MCSheets
  Reports <- MCReports
  LogLength <- MCLogLength
  Person = {"ann", "bob"}
  Visits <- MCVisits
INVARIANTS JobsAreAsShown PoliciesNeedEvidence
  RemovesWhatTheSheetLists ViewsShowWhatIsSelected ChartsAddUp
PROPERTY SpinnersEnd
CHECK_DEADLOCK FALSE
