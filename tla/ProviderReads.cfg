SPECIFICATION Spec
CONSTANTS
  MinId <- MCMinId
  MaxId = 500
  Fine = 2
  NoId = NoId
  Unusable = Unusable
  Junk = Junk
  FixtureEntries <- MCFixtureEntries
  StoredFixtures = {1, 2}
  ProviderMarkets <- MCProviderMarkets
  ProviderKeys <- MCProviderKeys
  Nested = "score"
  Percent = 2
  MaxEntries = 3
  NotAList = NotAList
  NotAnObject = NotAnObject
  NoRow = NoRow
  Requested <- MCRequested
  StoredLeagues = {8, 10}
  GradeEntries <- MCGradeEntries
  GradedMarkets = {"result", "score"}
  Good = Good
  Poor = Poor
  Words = {Good, Poor}
  Share = 1
  MaxGradeEntries = 4
  NoData = NoData
  Ungraded = Ungraded
  LeagueIds = {8, 9}
  LeagueEntries <- MCLeagueEntries
  WindowEntries <- MCWindowEntries
  FixtureIds = {1, 2}
  TeamIds = {1, 2, 3}
  ProviderStates <- MCProviderStates
  Scheduled = "scheduled"
  Early = Early
  Late = Late
  InWindow = {Early}
  GoalsLimit = 2
  MaxLeagueEntries = 2
  MaxWindowEntries = 2
  Unstorable = {"nul"}
  Malformed = Malformed
  Unset = Unset
INVARIANT TypeOK
INVARIANT WindowIsNeverRefused
PROPERTY StoresTheLastStatements
PROPERTY GradesArePairsOfOneRead
PROPERTY FixturesAreReadWhole
