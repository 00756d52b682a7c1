SPECIFICATION EvidenceSpec
CONSTANTS
  Scene = {s1}
  FeedbackId = {f1, f2, f3}
  Type = {"thumb_down", "never_show"}
  MaxClock = 1
  MaxSyncs = 1
  Tag = {t1}
  PreferenceId = {1, 2, 3}
  AnswerId = {a1}
  MaxAt = 1
  MaxHour = 2
  MatchWindow = 1
  Average = "long"
  Judged = {"x1", "x2"}
  EvidenceId = {e1, e2}
  Rating100 = {55, 90}
  Displayed <- OneImpression
  Content = {"a", "b", "c", "d"}
  Carries <- SmallLibrary
  Hierarchies <- TwoHierarchies
  MaxFacts = 3
INVARIANTS  RemovalsAreTagged EvidenceCountsOnce EvidenceIsWeighed
PROPERTIES LabelsAreSound
SYMMETRY Symmetry
CHECK_DEADLOCK FALSE
