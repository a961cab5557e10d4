CONSTANTS
  s1 = s1  s2 = s2  p1 = p1  p2 = p2  d1 = d1
  NoScene = NoScene
  Scenes <- TwoScenes
  Handlers <- TwoHandlers
  Writers <- OneWriter
  Debounce = 1
  Crashes = TRUE
SPECIFICATION FairRoomSpec
INVARIANTS TypeOK LatestStored NoDeadBoard JoinerCatchesUp
PROPERTIES SnapshotFirst EditsSaved
