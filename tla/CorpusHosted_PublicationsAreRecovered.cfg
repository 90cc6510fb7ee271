\* The same job; a pass may die or a call throw between a proof and its checkpoint.
CONSTANTS
  Shards = {1, 2}
  Texts <- TwoTexts
  Lanes = {"dry"}
  Settings <- FourSettings
  BatchCap = 2
  ByteCap = 2
  MaxMishaps = 1
  None = None
  a = a
  b = b
SPECIFICATION FairSpec
PROPERTY PublicationsAreRecovered
