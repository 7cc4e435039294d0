SPECIFICATION Spec
CONSTANTS
  Feeds = {"mullvad"}
  Brands = {"m247"}
  Callers = {c1}
  Addresses = {"me", "you", "lan"}
  V4 = {"me", "lan"}
  Routable = {"me", "you"}
  NoAddr = "invalid"
  TrustCF = TRUE
  Snapshots <- MCSnapshots
  MaxRounds = 2
INVARIANTS OneSnapshot StampFollowsEvidence ProviderOfBestEvidence OwnIsUnmetered CountryIsTheTargets ToldMeansReady
