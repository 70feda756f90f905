SPECIFICATION Spec
CONSTANTS
  None = None
  Raw <- MCRaw
  MaxDeploys = 3
INVARIANTS FailsSpeaking OneCluster
