SPECIFICATION FairSpec
CONSTANTS
  Texts <- MCTexts
  Keywords <- MCKeywords
INVARIANTS
  TypeOK
  AssertionsHold
  LocationsAreThoseOfTheText
  TokensAreThoseOfTheText
  CommentsAreSkipped
PROPERTIES
  LexingEnds
