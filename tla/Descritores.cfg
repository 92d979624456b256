CONSTANTS
  ALT_MAX_FD = 5
  Device = {jtag, uart}
  SmallOnes = {uart}
  STDIO = jtag
  null = null
  None = None
  FileSystem <- MCFileSystem
  FileName <- MCFileName
  OpenMode <- MCOpenMode
  FcntlArg <- MCFcntlArg
SPECIFICATION FdSpec
PROPERTY ExclusiveMeansAlone
