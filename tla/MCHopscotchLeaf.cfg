SPECIFICATION LeafSpec
CONSTANTS
  Span = 6
  Neighbor = 3
  VacancyBits = 5
  MaxKey = 9
  Home <- MCHome
  Versions = 2
  Upserts = {5, 6, 7, 8}
CHECK_DEADLOCK FALSE
INVARIANTS LeafTypeOK HopBitmapExact VacancySound MaxKeyKnown LeafAsserts LatestFound
