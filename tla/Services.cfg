\* One component moves in each behaviour (focus). Every one of them may end:
\* a subject delivered, every bound used up.
CONSTANTS
  Kinds = {"write", "field", "translate", "pick", "generate", "questions", "sections", "cover", "image", "video", "compose"}
  NLanguages = 2
  NSections = 1
  NScenes = 2
  NSerps = 1
  Retries = 1
  Every = 1
  LeaseTicks = 2

  Channel = "shop"
  Rules = {"ra"}
  FactIds = {"f1"}
  FactValues = {"v1", "v2"}
  Suggestions = {"e1", "e2"}
  ScopeOf <- MCScopeOf
  ItemOf <- MCItemOf
  Editors = {"r1"}
  MaxVersions <- MCMaxVersions

  s1 = s1
  s2 = s2
  s3 = s3
  p1 = p1
  p2 = p2
  Refs = {s1, s2, s3}
  Callers = {p1, p2}
  NowMax = 1
  QueueMax = 2
  MaxOrders = 2
  MaxBatches = 1
  Lanes = {"", "now"}

  Catalogue <- MCCatalogue
  Limits = {1}
  Cooldown = 1
  MaxRuns = 2
  GapPage = 2
  MaxBrings = 2

  WorkTypes = {"fix", "translate", "write"}
  Retention = 1
  MaxRetries = 1

  Texts = {"x1"}
  Wordings = {"w1", "w2"}
  Correctors = {"k1"}
  BatchMax = 1
  MaxCorrectionRuns = 2
  MaxNumber = 3

  Sentences = {"a", "b"}
  MaxRules = 2
  Writers = {p1, p2}
  MaxVersion = 3

  Cap = 16
  NoteReserve = 6
  NoteLength = 2
  RecallLimit = 2
  PromptMax = 20
  MustMax = 4
  NeverMax = 3
  StyleMax = 5
  LabelWidth = 1
  SeedMax = 5
  SeedsMax = 2
  SerpTop = 1
  Lengths = {1, 4}
  MaxList = 2
  Heads = {1, 3, 5, 12}
  Budgets = {0, 1, 2, 3, 4, 5, 6, 7, 8}
  Routes <- MCRoutes

  Chars = {1, 2, 3}
  OpenTag = 2
  CloseTag = 3
  Escaped = 4
  MaxText = 3
  MaxVariants = 2
  PageSize = 2
  MaxRows = 5
  Wholes <- MCWholes
  Fractions <- MCFractions

SPECIFICATION Spec
SYMMETRY Same
CHECK_DEADLOCK FALSE

INVARIANTS
  BooksHonest HistoryKept PromptTraceable OrdersServed RuleBounded AnswersAwaited FileServes
  WarningsTrue LayersHold PromptsFit AnswersRead
PROPERTIES
  PaidOnLease
