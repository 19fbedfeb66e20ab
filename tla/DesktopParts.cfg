SPECIFICATION AllSpec
CONSTANTS
  None = None
  Torn = Torn
  Local = Local
  Foreign = Foreign
  Frame = Frame
  AudioChunks = 2
  Readings = {1, 2}
  Resources = {"small", "large"}
  Policies = {"older", "newer"}
  Groups = 1
  MaxFaults = 2
  Runs <- TwoRuns
  RangeOf <- OneRange
  Remote = {}
  MaxRevisions = 1
  PlainLetters <- LowerCase
  Blanks = {" "}
  Bytes <- OneByte
  LoopBytes = 2
  MinOverlap = 2
  MaxOverlap = 3
  DenseSize = 3
  DenseRate = 2
  Transcripts <- OneTranscript
  Verdicts = {"resolved"}
  Deciders = {"d1", "d2"}
  MaxRuns = 2
  MaxDecisions = 2
  MaxDecisionTime = 2
  Models = {"model"}
  ModelSize = 2
  Mirror = TRUE
  MaxSetbacks = 3
  Packages = {1, 2}
  MaxMishaps = 1
  Lookups = {"l1", "l2"}
  DictionaryKinds = {"indexed", "unpacked"}
  Profiles = {"p1", "p2"}
  Keys = {"k1", "k2"}
  Environment = None
  Renders <- TwoRenders
  VideoOutputs = {"video.mp4"}
  TargetOf <- OneOutput
  Consenting = {"r1"}
  Present = {}
  Capacity = 1
  Hardware = TRUE
  Askers = {"c1", "c2", "c3"}
  Requests <- FourRequests
  UnknownId = 9
  MaxTargets = 3
  MaxFailures = 1
  GlossaryIds = {1, 2, 3}
  BuiltinKey = "key"
  BuiltinName = "built"
  CustomName = "own"
  Shipped <- TwoVersions
  UserTerms = {"u1"}
  CorrectionOf <- Corrections
  HeardTexts = {"heard", "ehard"}
  Cues = {1, 2}
  Windows = {1, 2}
  Original = "o"
  DraftTexts = {"a ", "a", "o", "blank"}
  DraftTrimmed <- Written
  Blank = {"blank"}
  Others = {"x", "y"}
  MaxTyped = 3
  MaxItems = 2
  Segments = {"s1"}
  Lines = {"Haru haru", "haru"}
  Spans = {"first", "whole"}
  WholeSpan = "whole"
  TextOf <- Selected
  KeyOf <- Folded
  TranslationOf <- Translated
  Providers = {"d1"}
  Definitions = {"x"}
  Typed = {"mine"}
  MaxNotes = 2
  FileLengths = {0, 2, 3}
  Ranges <- TenRanges
  MaxRanges = 2
  ReadSize = 2
  MaxWrites = 2
  WaveLoads = {"l1", "l2"}
  Lengths = {2, 3}
  Stamps = {1, 2}
  Views <- OneView
  Second = 4
  Rate = 6
  BucketRate = 3
  MinPoints = 1
  MaxPoints = 2
  MaxLoads = 2
  CommandNames <- FiveCommands
  MaxWork = 1
  MaxCommands = 2
  Artifacts = {"source", "ass"}
  MaxEdits = 1
  Callers = {"c1", "c2"}
  MaxCalls = 3
  ChunkSize = 2
  WordCounts = {0, 1}
  MaxCloudCalls = 2
  MaxCloudTroubles = 2
  MaxDeviceTroubles = 3
  MaxChanges = 3
  MaxTroubles = 1
  MaxUpsets = 2
CHECK_DEADLOCK FALSE
INVARIANTS PartsTypeOK EvidenceKept ChosenIsVerified DictionaryHonest ProvidersHonest
INVARIANTS OutputSafe GlossariesKept DraftsKeepTyping NotebookKept ServedAsDeclared
INVARIANTS ManifestHonest WordsKept TranslationsOwn
PROPERTY PartsSettle
