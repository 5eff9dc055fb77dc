CONSTANTS
  Renderers = {t1, t2}
  MaxPages = 1
  MaxDocs = 2
  MaxFaults = 0
SPECIFICATION PagesSpec
INVARIANT FreshManifestNamesNoOldPage
CHECK_DEADLOCK FALSE
