SPECIFICATION FairSpec
CONSTANTS
  MAX_PMT_TABLES = 3
  MAX_PMT_ENTRIES = 3
  HalfRange = 16
  Sizes <- MCSizes
INVARIANTS TypeOK InsideDirectory AnswersAsClosedForm GrantedIsFree
PROPERTIES SearchEnds
