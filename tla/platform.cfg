\* All parts beside the tasks and the accounts, each on a small instance of its own.
SPECIFICATION PlatformSpec
CONSTANTS
  Subjects = {"feedback", "skills", "deployment", "files", "web", "generation", "knowledge", "pipeline"}
  c1 = c1
  c2 = c2
  c3 = c3
  ta = ta
  tb = tb
  f1 = f1
  f2 = f2
  f3 = f3
  h1 = h1
  h2 = h2
  p1 = p1
  p2 = p2
  r1 = r1
  r2 = r2
  r3 = r3
  small = small
  huge = huge
  notes = notes
  table = table
  report1 = report1
  outside = outside
  local = local
  remote = remote
  Nobody = Nobody
  Missing = Missing
  Empty = Empty
  Torn = Torn
  Nothing = Nothing
  Broken = Broken
  Clients <- ThreeClients
  TenantOfClient <- MCTenantOfClient
  Hosts <- TwoHosts
  Callers <- ThreeCalls
  SkillIds <- TwoSkills
  NameOf <- MCNameOf
  Versions <- MCVersions
  Servers <- TwoServers
  FileCalls <- ThreeFileCalls
  Large <- LargeFiles
  Found <- OldFiles
  Paths <- FourPaths
  Format <- MCFormat
  Below <- MCBelow
  Urls <- FourUrls
  Schemes = {"https", "http"}
  Domains = {"docs", "wiki"}
  BlockPrivate = TRUE
  MaxRedirects = 1
  MaxResults = 2
  MaxHits = 3
  MaxTokens = 60
  MaxSkills = 2
  MaxDescription = 3
  Skillsets <- MCSkillsets
  Lengths <- MCLengths
  ToolWords = 5
  TaskTypes <- MCTypes
  Sensitivities <- MCSensitivities
  Rules <- MCRules
  Default <- local
  Fallbacks <- MCFallbacks
  Providers <- MCProviders
  i1 = i1
  i2 = i2
  i3 = i3
  s1 = s1
  s2 = s2
  s3 = s3
  a = a
  b = b
  NoChunk = NoChunk
  Ingests <- ThreeIngests
  Sources <- ThreeSources
  TenantOf <- MCTenantOf
  Texts <- TwoTexts
  Queries <- TwoQueries
  Limit = 1
  Window = 2
  j1 = j1
  j2 = j2
  j3 = j3
  Jobs <- AllJobs
  Request <- Asked
  MaxTurns = 1
  MaxRuns = 3
  MaxMishaps = 1
INVARIANTS
  TypeOK
  OncePerRun
  ReportedTruly
  AckedTextStays
  StoredInOnePiece
  LoadIsLatest
  TornForACause
  NewestIsUsed
  TaskIsKept
  FallbackIsTold
  ReportIsComplete
  ProductionIsShared
  ReadIsSound
  WebIsBounded
PROPERTIES
  SeesEarlierAnswers
  FoundUnlessCrowded
CHECK_DEADLOCK FALSE
