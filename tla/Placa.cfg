\* Some parts may end: the bounded counters, the busy loop, a stack overflow.
CONSTANTS
  Half = 3
  ResetPeriod = 7
  Latency = 1
  Alarm = {a1, a2, a3}
  head = head
  MaxPeriod = 2
  StopsOthers = FALSE
  ALT_US = 2
  TickRates = {1, 2}
  LowWord = 3
  MaxTicks = 4
  MaxSec = 1
  IrqLines = {0, 1}
  IsrVersions = 2
  MaxNested = 1
  CallsNested = FALSE
  ALT_MAX_FD = 5
  Device = {jtag, uart}
  SmallOnes = {uart}
  STDIO = jtag
  null = null
  None = None
  FileSystem <- MCFileSystem
  FileName <- MCFileName
  OpenMode <- MCOpenMode
  FcntlArg <- MCFcntlArg
  IdModulus = 8
  LogPlaces = 2
  LogEchoLen = 3
  LogInterval = 2
  LogAlarm = 3
  LogMaxGaps = 1
  LogTexts <- MCTexts
  PtWord = 256
  PtArgs = {0, 7, 16, 100, 127, 128, 240, 255}
  PtMaxSpec = 4
  PtBufSize = 3
  CcBytes = 4
  CcText = 8
  CcLine = 2
  CcICache = 4
  HpLimit = 24
  HpIncrements = {0, 4, 8}
  HpWord = 4
  PfFns = {f}
  PfCallers = {p, q}
  PfMaxCalls = 2
  PfText = 4
  PfBucket = 2
  BtLayout <- MCLayout
  BtCtors = 2
  BtOptions = {{"direct", "no_cpp", "no_exit"}, {}, {"no_clean_exit"}}
  WordMod = 1024
  Factor = 5
  Requests <- MCCovered
SPECIFICATION BspSpec
INVARIANTS BspTypeOK TimeSafe AlarmSafe FdSafe IrqSafe AddressesAgree PrintSafe LogSafe MemorySafe
  ProfileSafe Calibrated
PROPERTIES DescriptorsKept BspLive
CHECK_DEADLOCK FALSE
