SPECIFICATION LeafSpec
CONSTANTS
  Span = 4
  Neighbor = 2
  VacancyBits = 3
  MaxKey = 8
  Home <- MCHome
  Versions = 2
  Upserts = {1, 2, 3, 4, 5, 6, 7, 8}
CHECK_DEADLOCK FALSE
INVARIANT UpsertFound
