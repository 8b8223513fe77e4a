\* Options 0001 and 0101 share the attribute Boot01.
SPECIFICATION Spec
CONSTANTS
  Options <- MCOptions
  Id <- MCId
  Labels <- MCLabels
  NoName = NoName
  Foreign <- MCForeign
  Values <- MCValues
  Missing = Missing
INVARIANTS
  OwnCurrent
  StaleOnlyAfterFailure
PROPERTIES
  OthersKeptUnlessRaced
