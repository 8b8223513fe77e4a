\* The boot override with one source, setup mode, two options and two client writes.
SPECIFICATION Spec
CONSTANTS
  Sources <- MCSources
  Options <- MCOptions
  NoOption = 0
  Preferred <- MCPreferred
  OptionSets <- MCOptionSets
  Orders <- MCOrders
  Leftover <- MCLeftover
  MaxWrites = 2
INVARIANTS
  SettledMeansApplied
  NoSecondOneTimeBoot
  ResetOnlyWhenUsed
  OneTimeNeverPersists
PROPERTIES
  ConsumedIsReconciled
