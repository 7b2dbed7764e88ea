SPECIFICATION Spec
CONSTANTS
  USEC = 4
  MSECS = 2
  FarSecs = 2
  Secs = {1, 2, 4}
  MaxDelay = 5
  MaxFolds = 2
  SeqSpace = 8
  MaxCount = 27
  MaxStep = 5
  Radix = 3
  OctRadix = 2
  HexRadix = 4
  Word = 256
  MaxDigits = 6
  SmallBits = 2
  SmallBytes = 2
  SmallHead = 1
  SmallAddresses <- MCSmallAddresses
  SmallPlens <- MCSmallPlens
  Ip6Addresses <- MCIp6Addresses
  Ip6Plens <- MCIp6Plens
  ByteBits = 2
  NBytes = 3
  V4Head = 2
  Addresses <- TextAddresses
  Plens = {0}
  Lens <- MCLens
  EuiTexts <- MCEuiTexts
  MaxParses = 2
  Blocks = {"b1", "b2", "b3"}
  MaxSent = 3
  MaxAddresses = 3
  MaxFds = 2
  MaxCalls = 3
  Chars <- MCChars
  HostLists <- MCHostLists
INVARIANTS TimesSound NumbersSound PrefixesSound TextSound NetlibSound AddressesParsed
PROPERTY LoggerSound
CHECK_DEADLOCK FALSE
