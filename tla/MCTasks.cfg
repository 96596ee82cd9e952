\* Requests for VOD and catch-up sessions, a recording through a crash and a shutdown, one account's numbers, one source's guide, two accounts' streams.
SPECIFICATION SubjectSpec
CONSTANTS
  v1 = v1
  v2 = v2
  v3 = v3
  w1 = w1
  w2 = w2
  q1 = q1
  q2 = q2
  f1 = f1
  f2 = f2
  news = news
  films = films
  g1 = g1
  g2 = g2
  x1 = x1
  x2 = x2
  a1 = a1
  a2 = a2
  e1 = e1
  e2 = e2
  e3 = e3
  sport = sport
  kids = kids
  pu1 = pu1
  pu2 = pu2
  ch1 = ch1
  Subjects <- AllSubjects
  Missing = Missing
  Requests = {v1, v2, v3}
  Sessions = {w1, w2}
  VodProfiles = {q1, q2}
  OwnSession <- ThreeRequests
  Room <- OneAndTwo
  NoFeed = NoFeed
  MaxGets = 3
  Feeds = {f1, f2}
  FeedOrder <- BothFeeds
  FeedRoom <- OneThenTwo
  MaxJobs = 2
  MaxParts = 2
  MaxPaths = 2
  MaxNow = 2
  MaxFaults = 1
  MaxEdits = 1
  ChannelStreams = {1, 2, 3, 4}
  GroupOrder <- BothGroups
  GroupOf <- GroupOfEach
  Compact = {news}
  Mode <- AllFixed
  Chno <- NoneNumbered
  RangeStart <- FirstOf
  RangeEnd <- LastOf
  Taken = {2}
  Scans <- FullOrThin
  NoNumber = NoNumber
  MaxUnhides = 2
  GuideRows = {g1, g2}
  Lists <- BothThenOne
  Parsers = {x1, x2}
  MaxAsks = 2
  MaxMappings = 2
  MaxBuilds = 1
  MaxTroubles = 1
  Accounts = {a1, a2}
  Entries = {e1, e2, e3}
  AccountOf <- AccountOfEntry
  GroupTitle <- GroupOfEntry
  Steady = {e2, e3}
  NameUnder <- UrlOrName
  FirstKeys = "url"
  Pullers = {pu1, pu2}
  Lineup = {ch1}
  FirstWants <- OneLinked
  Nothing = Nothing
  Retention = 1
  AutoEnable = FALSE
  MaxStreams = 5
  MaxToday = 2
  MaxPulls = 2
  MaxRehashes = 2
  MaxLineEdits = 1
  MaxMishaps = 1
INVARIANTS
  SlotsFollowSessions
  CatchUpSlotsFollowEntry
  OneWriter
  FootageIsKept
  PackedNumbersAreDistinct
  GuideIsCurrent
PROPERTY ChannelsKeepTheirStreams
CHECK_DEADLOCK FALSE
