SPECIFICATION Spec
CONSTANTS
  Workers = {w1, w2}
  Nobody = Nobody
  Retries = 5
  MaxDeploys = 1
  MaxOutages = 0
  MaxDeaths = 0
INVARIANTS NoStartupFails
CHECK_DEADLOCK FALSE
