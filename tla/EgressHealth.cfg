\* Two endpoints and the broker, in ticks of 10 s: a scan every 60 s that takes
\* up to 10 s, reports up to 10 s late, checks valid for 90 s.
SPECIFICATION FairSpec
CONSTANTS
  fr1 = fr1
  de1 = de1
  gb1 = gb1
  FR = FR
  DE = DE
  GB = GB
  SE = SE
  Catalog <- MCCatalogTwo
  Country <- MCCountry
  AllowedCountries = {DE, GB, SE}
  MinHealthyCountries = 3
  MaxHealthAge = 9
  StableXEndpoint = fr1
  Jobs = {j1}
  Enabled = TRUE
  Interval = 6
  ScanMax = 1
  Stamps <- MCPrompt
  None = None
INVARIANTS
  TypeOK
  LeakExcludes
  ThreeStrikes
  OneLateActivation
  StaysFresh
PROPERTY
  Recovers
