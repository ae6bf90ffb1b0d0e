CONSTANTS
  Server = {s1, s2}
  Client = {c1, c2}
  Family = {"tcp", "udp", "unix_stream", "unix_dgram"}
  Backlog = 0
  MaxKills = 1
  None = none
SPECIFICATION FairSpec
INVARIANTS
  AnswersEarned
  ServerCanBeFound
  NoFileLeft
PROPERTY EveryClientEnds
CHECK_DEADLOCK FALSE
