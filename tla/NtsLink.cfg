\* One master, one session; packets and replies are lost and doubled.
CONSTANTS
  Conns = {"serial"}
  TcpConns = {}
  SeqMax = 2
  Timeouts = {1}
  Conn = "serial"
  MaxJobs = 5
  LineSize = 3
SPECIFICATION LinkSpec
INVARIANTS RepeatIsAccepted
PROPERTY KeepsPromise
CHECK_DEADLOCK FALSE
