CONSTANTS
  Env <- MCEnvLoop
  Tokens <- MCTokens
  MaxTokens = 3
  MaxLen = 6
  SizeMod = 65536
  Absent = Absent
  Default <- MCDefault
  Addrs = {a1}
  Nums = {1}
  Bad = Bad
  DefaultAddr = DefaultAddr
  EmptyPass <- MCEmptyPass
  PassLines <- MCPassLines
  PassLen <- MCPassLen
  Passwords <- MCPasswords
  SlaveofLines <- MCSlaveofLines
  WalLines <- MCWalLines
  WalDefault <- MCWalDefault
  Commands <- MCCommands
  NewNames <- MCNewNames
  NoRename = NoRename
  RenameFiles <- MCRenameFiles
  DbArgs = {0, 1, NotNum}
  NotNum = NotNum
  MaxLines = 0
SPECIFICATION ServerSpec
\* main exits, or serves clients that may stop sending commands
CHECK_DEADLOCK FALSE
PROPERTY StartsOrExits
