SPECIFICATION FairSpec
CONSTANTS
  Workers = {w1, w2, w3}
  Posters = {p1, p2}
  MaxPosts = 4
INVARIANTS
  NoLostWakeup
  TasksDone
PROPERTIES
  PoolLive
