SPECIFICATION AFairSpec
CONSTANTS
  Workers = {w1, w2}
  Nobody = Nobody
  NoLogin = NoLogin
  NoToken = NoToken
  Retries = 5
  MaxDeploys = 2
  MaxOutages = 2
  MaxDeaths = 1
INVARIANTS ServingMeansRotated LoginIsCurrent RotationShutsOut TokenHolds
PROPERTIES EveryWorkerServes GetsIn
