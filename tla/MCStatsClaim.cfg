SPECIFICATION Spec
CONSTANTS
  Workers = {w1, w2}
  Pids = {p1, p2, p3}
  NoPid = NoPid
  Keys = {k1, k2}
  MaxRequests = 3
  MaxFailures = 1
  MaxDeaths = 1
  MaxRestarts = 1
SYMMETRY StatsSymmetry
INVARIANTS AnswerSinceStart
