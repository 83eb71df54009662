SPECIFICATION LibrarySpec
CHECK_DEADLOCK FALSE
CONSTANTS
  v1 = v1
  v2 = v2
  v3 = v3
  v4 = v4
  v5 = v5
  Values = {v1, v2, v3, v4, v5}
  mMaxCap = 4
  PopArgs = {}
  NullArg = NullArg
  MaxList = 5
  ThreadIds = {1, 2}
  Times = {0, 1, 2}
  MaxAnswers = 2
  mRunSecond = 1
  Counts = {0, 1, 2, 3}
  Sizes = {0, 1, 2, 9}
  ProcessCounts = {1, 2}
  Half = 8
  MaxMessages = 6
  Callers = {1, 2}
  NoCall = NoCall
  Word = 4096
  Bits = 8
  Unit = 10
  NumberWord = 64
  MaxArgument = 8
  CacheSizes = {0, 1, 3, 10}
  Base = 16
  Small = 20
  Children = {v1, v2}
  Data <- ChildData
  Absent = Absent
  Null = Null
  max_value_size = 2
  MaxChanges = 2
  Objects = {v3, v4, v5}
  Fds = {0, 1, 2}
  Dead = Dead
  Chunk = 2
  End = End
  Bad = Bad
  NULL = NULL
  EmptyString = EmptyString
  INVALID_VALUE = INVALID_VALUE
INVARIANTS
  InSync
  StatisticsAreMeasured
  FilesBounded
  KeepsNewest
  HandlesGivenBack
  TextsAgree
  StreamsAgree
  CachesAreRight
  NumbersAreRight
  ChildrenValueIsTrue
  FdsOwned
PROPERTIES
  IsBoundedFifo
  CookiesKept
