\* Requests of two tenants submit feedback at the same time.
SPECIFICATION ServicesSpec
CONSTANTS
  Subjects = {"feedback"}
  c1 = c1
  c2 = c2
  c3 = c3
  ta = ta
  tb = tb
  f1 = f1
  f2 = f2
  f3 = f3
  h1 = h1
  h2 = h2
  p1 = p1
  p2 = p2
  r1 = r1
  r2 = r2
  r3 = r3
  small = small
  huge = huge
  notes = notes
  table = table
  report1 = report1
  outside = outside
  local = local
  remote = remote
  Nobody = Nobody
  Missing = Missing
  Empty = Empty
  Torn = Torn
  Nothing = Nothing
  Broken = Broken
  Clients <- ThreeClients
  TenantOfClient <- MCTenantOfClient
  Hosts <- TwoHosts
  Callers <- ThreeCalls
  SkillIds <- TwoSkills
  NameOf <- MCNameOf
  Versions <- MCVersions
  Servers <- TwoServers
  FileCalls <- ThreeFileCalls
  Large <- LargeFiles
  Found <- OldFiles
  Paths <- FourPaths
  Format <- MCFormat
  Below <- MCBelow
  Urls <- FourUrls
  Schemes = {"https", "http"}
  Domains = {"docs", "wiki"}
  BlockPrivate = TRUE
  MaxRedirects = 1
  MaxResults = 2
  MaxHits = 3
  MaxTokens = 60
  MaxSkills = 2
  MaxDescription = 3
  Skillsets <- MCSkillsets
  Lengths <- MCLengths
  ToolWords = 5
  TaskTypes <- MCTypes
  Sensitivities <- MCSensitivities
  Rules <- MCRules
  Default <- local
  Fallbacks <- MCFallbacks
  Providers <- MCProviders
INVARIANT ReportIsOwn
CHECK_DEADLOCK FALSE
