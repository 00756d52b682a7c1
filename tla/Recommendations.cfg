SPECIFICATION RecommendationSpec
CONSTANTS
  Scene = {1, 2, 3, 4, 5}
  Tag = {"t"}
  Touched = {2}
  MaxChanges = 3
  NotNow = 1
  Recovery = 1
  Lane = {"for_you"}
  LaneOrder <- MCLaneOrder
  Luck <- MCLuck
  PageSize = 1
  Chunk = 1
  LeastPool = 2
  MostPool = 4
  Hiding <- MCHiding
  Candidate <- MCCandidate
  GreedyLane = {"for_you"}
  ForYou <- MCForYou
  Familiar <- MCFamiliar
  Adventurous <- MCFamiliar
  Likeness <- MCLikeness
  Shown = {3}
  Recent = {3}
  FreshFor = 1
  MostAsked = 3
  Candidates <- MCCandidates
  Pattern <- MCPattern
  Queried = {"stretch"}
  Orders <- MCOrders
  PerformerPenalty = 2
  StudioPenalty = 1
  ContentPenalty = 2
  UncoveredBonus = 1
  Whole = 12
  Scored = {1, 2, 3}
  Score <- MCScore
  Facet <- MCFacet
  FacetsOf <- MCFacetsOf
  Added <- MCAdded
  Dormant <- MCDormant
  Strength = 1
  MinLibrary = 2
  MaxLibrary = 3
  MinFeatures = 4
  WindowDays = 3
  MinScenes = 1
  LongAgo = 4
  LastNow = 9
  Listed = {1, 2}
  ImpressionId = {1, 2}
  ShownAt <- MCShownAt
  SessionId = {1, 2, 3}
  Report <- MCReport
  MaxThumbs = 1
  MaxTime = 2
  Window = 2
  Gap = 1
  PruneTag = "t"
  Appeal <- MCAppeal
  Confidence <- MCConfidence
  StudioOf <- MCStudioOf
  Aggressiveness = {0, 100}
  Alpha = 1
  DarkMaxLibrary = 2
  PrunePage = 2
  Content = {1, 2, 3}
  Evidence = {1}
  Opener = {o1}
  MaxBuilds = 3
INVARIANTS NarrowingIsExact CachedCountIsRight  OrdersAreGreedy LanesAgree PlaysAddUp PruneViewsAreHonest
PROPERTIES GenerationsAreWhole
CHECK_DEADLOCK FALSE
