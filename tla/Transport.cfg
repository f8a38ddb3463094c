\* The serial port and a pool of one slot; one number beside 0 is enough here.
CONSTANTS
  Conns = {"serial", "tcp"}
  TcpConns = {"tcp"}
  SeqMax = 1
  Timeouts = {0, 2}
  TcpTimeout = 1
  Backlog = 1
SPECIFICATION TransportFairSpec
INVARIANTS PoolIsSound OnlineIsSupervised OnlineIsShown
PROPERTIES IdleOutlivesSession OnlyIdleDropped SilentIsDropped SilentIsReleased
