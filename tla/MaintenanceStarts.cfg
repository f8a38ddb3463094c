\* A baud rate that the web page accepts is loaded by the restart.
CONSTANTS
  NumberOfTz = 14
  StandardBps = {300, 600, 1200, 2400, 4800, 9600, 19200, 38400, 57600, 115200}
  ExtendedBps = {300, 600, 1200, 2400, 4800, 9600, 19200, 38400, 57600, 115200, 230400, 460800, 921600}
  BusyPorts = {3}
  Fonts = {0, 1}
  DefaultFile <- MCDefault
  FA20Requests <- MCFA20
  FERequests <- MCFE
  FA01Requests <- MCFA01
  FA02Requests <- MCFA02
  WebRequests <- MCWeb
  WebExtRequests <- MCWebExt
  Imports <- MCImports
  NetDefault <- MCNetDefault
  NetSettings <- MCNetSettings
  FileSizeMin = 65536
  FileSizeMax = 200000
  FileSizes = {65537, 65536}
  PktSizesK = {64, 3}
  PktLens = {65536, 1, 0}
  PktMax = 1
  K = 1024
SPECIFICATION Spec
CONSTRAINT OneAtATime
INVARIANT RestartLoadsSetting
