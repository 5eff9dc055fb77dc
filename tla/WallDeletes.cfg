CONSTANTS
  Items = {i1, i2}
  Submissions = {s1}
  FullRuns = {f1}
  IncrementalRuns = {n1}
  MAX_UNCHANGED_PAGES = 1
  MaxChanges = 1
  MaxErrors = 1
SPECIFICATION TabyinSpec
PROPERTY OnlyRemovedAreDeleted
CHECK_DEADLOCK FALSE
