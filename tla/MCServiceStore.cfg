SPECIFICATION MCSpec
CONSTANTS
  i1 = i1
  r1 = r1
  r2 = r2
  c1 = c1
  Stores = {s1, s2}
  Projects = {p1, p2}
  Branches = {b1}
  Commits = {c1, c2}
  Identities = {i1}
  Actors = {alice}
  Stamps = {t1, t2}
  Live = Live
  Absent = Absent
  NoState = NoState
  AnyBranch = AnyBranch
  Reports = {r1, r2}
  FindingsOf <- MCFindingsOf
  ContextOf <- MCContextOf
  NoContext = NoContext
  EpochOf <- MCEpochOf
  RequestedStates = {"safe", "to_review"}
  MaxRows = 7
  MaxVersion = 2
  MaxBackups = 1
INVARIANTS TypeOK SchemaConstraints ReviewHistoryComplete TombstonesAudited AuditedOnce ExportRestorable RestoreIsUnion RestoreAddsNothingAgain
PROPERTIES HistoryImmutable ReviewsStayVisible ImplementsReviewLog
SYMMETRY Alike
CHECK_DEADLOCK FALSE
