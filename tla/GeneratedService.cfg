\* Every recipe of the catalog, then one flag with every valid draft, ramps,
\* and builds that approve more, fewer or other attributes.
SPECIFICATION ServiceSpec
CONSTANTS
  v1 = v1
  v2 = v2
  Strings = {v1, v2}
  Attributes <- MCAttributes
  Variants <- MCVariants
  Drafts <- MCDrafts
  Empty = Empty
  Other = Other
  Absent = Absent
  Percentages <- MCPercentages
  Buckets = {0, 100, 9999}
  Names <- MCNames
  AttributeLists <- MCAttributeLists
  Replicas <- MCReplicas
  None = None
INVARIANTS
  OffersAreAccepted
  DecisionsAreDefined
  OnlyApprovedDecide
PROPERTIES
  RampKeepsSubjects
CHECK_DEADLOCK FALSE
