\* One sign with two slaves, one trouble of each kind, a log of three entries.
CONSTANTS
  Entries = 3
  Numbers = 4
  Cnt = 2
  Slaves = {1, 2}
  First = 1
  NoisySets <- Alone
  LogsReset = FALSE
SPECIFICATION FaultSpec
INVARIANTS LogTellsBits OfflineIsTold
PROPERTY LogGoesOn
