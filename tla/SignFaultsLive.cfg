\* One slave, the troubles that meet, a log of one entry that may be reset.
CONSTANTS
  Entries = 1
  Numbers = 1
  Cnt = 2
  Slaves = {1}
  First = 1
  NoisySets <- Meeting
  LogsReset = TRUE
SPECIFICATION FaultSpec
INVARIANT BitsAreFaults
PROPERTY LastingIsTold
