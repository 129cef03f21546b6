SPECIFICATION Spec
CONSTANTS
  web = web
  cli = cli
  match = match
  alias = alias
  cup = cup
  NotFT = NotFT
  Unset = Unset
  Web = {web}
  Cli = {cli}
  Ids = {match, alias, cup}
  Resolve <- MCResolve
  Final <- MCFinal
  Kickoff <- MCKickoff
  Offers <- MCOffers
  Replays <- MCReplays
  Histories <- MCHistories
  Closings <- MCClosings
  Purgeable = {cup}
  Elite = {match, alias}
  AlwaysLog = TRUE
  MinInterval = 1
  Grace = 0
  Lock = 1
  FtAfter = 1
  Limit = 1
  Retain = 1
  MaxRows = 2
  MaxTime = 2
  MaxDeaths = 1
  Excluded = {"CUP"}
  DayLength = 2
  ScoredLag = 1
  Fetched = 1
  AuditOn = TRUE
  ClvOn = TRUE
  CronScheduled = TRUE
  Since = 0
  ShortWindow = 1
  LongWindow = 2
  MinMatchdays = 1
  CapturePct = 50
  ScoredPct = 80
  ClvMinRows = 2
  BeatPct = 50
  ValueBeatPct = 50
  Codes = {"EPL", "CUP"}
  TierA = {"EPL"}
  TierC = {"CUP"}
  BadFields <- MCBadFields
CHECK_DEADLOCK FALSE
INVARIANTS
  ResultOfItsMatch
  SpacedUnlessOverlapped
  JudgedOnce
  VerdictsAgree
  HeadlinesAgree
  GradesAgree
PROPERTIES
  SettledKept
  PickFrozen
  EverySettled
