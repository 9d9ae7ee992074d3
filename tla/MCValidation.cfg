CONSTANTS
  a0 = a0
  a1 = a1
  a2 = a2
  a3 = a3
  v0 = v0
  v1 = v1
  v2 = v2
  v3 = v3
  zero = zero
  ones = ones
  Zero = zero
  Ones = ones
  Words = 1
  Fields <- MCFields
  Byte <- MCByte
  Negative <- MCNegative
  InitialWords <- MCInitialWords
  Values <- MCValues
  Bits = 2
  Signatures = {"defect", "other"}
  Asks = {2, 3, 4}
  Bases = {2, 4}
  Release = 3
  MaxCampaigns = 2
SPECIFICATION ValidationSpec
\* A behaviour ends when its campaigns are used up.
CHECK_DEADLOCK FALSE
INVARIANT OraclesAgree
INVARIANT ArmRowsAgree
INVARIANT ThumbWordsAgree
INVARIANT CoverageCloses
INVARIANT AcceptedIsEarned
INVARIANT VerdictStands
INVARIANT ReproducerReproduces
PROPERTY CampaignEnds
