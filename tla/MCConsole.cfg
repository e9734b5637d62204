\* Two or three requests for each part of the console, with faults.
SPECIFICATION ConsoleSpec

CONSTANTS
  c1 = c1
  c2 = c2
  a1 = a1
  a2 = a2
  h1 = h1
  h2 = h2
  bad = bad
  other = other
  x = x
  y = y
  q1 = q1
  q2 = q2
  q3 = q3
  s1 = s1
  s2 = s2
  v1 = v1
  e1 = e1

  Clients = {c1, c2}
  FeedMessages = {a1, a2, bad, h1, h2, other}
  Script <- MCScript
  AboutOf <- MCAboutOf
  Readable = {a1, a2, h1, h2, other}
  EnabledProjects = {"p1"}
  FeedAsks <- MCFeedAsks
  FeedFaults = {"config", "redis", "shutdown"}
  NoAction = NoAction
  NoMessage = NoMessage

  Changes = {"r1", "r2"}
  ConfigKeys = {"k1", "k2"}
  HighRiskKeys = {"k1"}
  ConfigValues = {"v1", "v2"}
  UnknownKey = "unknown"
  ConfigAsks <- MCConfigAsks
  Default = "default"
  Drivers = {"none", "shipped", "injected"}
  ChangeFaults = {"crash", "database", "redis"}
  MaxWipes = 1

  UserIds = {"admin", "u"}
  AdminId = "admin"
  SeededUsers = {"u"}
  UserRequests = {q1, q2, q3}
  UserOps <- MCUserOps
  Seeded = Seeded
  NoRequest = NoRequest

  QueryIds = {1, 2, 3, 4}
  QueryNames = {"A", "B", "C"}
  QueryCalls = {"first", "second", "third"}
  CallOps <- MCCallOps
  SavedAtStart <- MCSavedAtStart
  Unsaved = "unsaved"
  Deleted = "deleted"
  NoCall = "nobody"

  Seeders = {s1, s2}
  SeedAsks <- MCSeedAsks
  Fingerprints = {"f1"}
  Production = TRUE
  CollectedKeys = {"recent_logs"}
  Original = Original
  Collected = Collected

  Notes = {1, 2, 3}
  NoteReaders = {1, 2, 3}
  NoteOps <- MCNoteOps
  PageLimit = 2
  NoReader = 0

  Viewers = {v1}
  ViewAsks <- MCViewAsks
  Snapshots <- MCSnapshots
  LastTime = 4
  DefaultSpan = 1
  NoTime = NoTime
  Absent = Absent

  EntryCount = 3
  LogProjects = {"p1", "p2"}
  ProjectOf <- MCProjectOf
  Matching = {1, 3}
  Reports = {e1}
  ReportAsks <- MCReportAsks
  SearchLimit <- MCSearchLimit
  ReportFaults = {"database", "redis", "reset"}

INVARIANTS
  ConsoleTypeOK
  FeedsDeliver
  ChangesAccounted
  AccountsAudited
  RecordsSound
  ViewsFaithful

PROPERTIES
  ConsoleRequestsEnd

\* Requests are finite, and the console is idle when all are answered.
CHECK_DEADLOCK FALSE
