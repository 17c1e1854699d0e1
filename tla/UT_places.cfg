SPECIFICATION FairSpec
CONSTANTS
  MaxN = 20
INVARIANTS
  TypeOK
  ReadsInTable
  Bracketed
  WidthSet
PROPERTIES
  SearchEnds
