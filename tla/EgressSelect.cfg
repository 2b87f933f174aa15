\* Three countries, the fewest that may be leased from.
SPECIFICATION Spec
CONSTANTS
  fr1 = fr1
  de1 = de1
  gb1 = gb1
  FR = FR
  DE = DE
  GB = GB
  SE = SE
  Catalog <- MCCatalog
  Country <- MCCountry
  AllowedCountries = {FR, DE, GB}
  MinHealthyCountries = 3
  MaxHealthAge = 1
  StableXEndpoint = fr1
  Jobs = {j1}
  Enabled = FALSE
  Interval = 1
  ScanMax = 0
  Stamps = {0}
  None = None
INVARIANT AlternateExists
