\* Three strings compete for two places of a set; every agent names itself.
SPECIFICATION Spec
CONSTANTS
  UAWords <- MCUAWords
  BrandWords <- MCBrandWords
  CutBrand <- MCCutBrand
  Grease = {"Not_A Brand", "Not.A/Brand", "Not;A=Brand"}
  Agents <- MCAgents
  Texts <- MCTexts
  Cap = 2
  TTL = 2
  MaxClock = 4
  None = None
INVARIANTS Bounded ForgottenByFlood NamesItself SamePlatform
