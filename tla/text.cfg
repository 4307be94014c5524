SPECIFICATION Spec
CONSTANTS
  Pages <- MCPages
  Query <- MCQuery
  Fragment <- MCFragment
  Captured <- MCCaptured
  NoLinks <- MCNoLinks
INVARIANTS LinksResolved LinksStored ContentIsText
PROPERTIES PageEnds
