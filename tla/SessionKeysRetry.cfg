SPECIFICATION MCSpec
CONSTANTS
  old = old
  new = new
  v1 = v1
  v2 = v2
  Kid = {old, new}
  Verifier = {v1, v2}
  KeyTTL = 3
  MinRefresh = 2
  MaxFetch = 1
  Nobody = Nobody
PROPERTY FetchesAreSpaced
