SPECIFICATION RestartSpec
CONSTANTS
  SpiderCnt = 1
  Urls <- MCUrls
  NoUrl = "none"
  Key <- MCKey
  Links <- MCLinks
  Rewrite <- MCRewrite
  Seeds <- MCSeeds
  SkipLine = 0
  UrlLevel = 1
  UrlCount = 6
  UrlFeedback = {TRUE, FALSE}
  Period = 1
  StickyEof = FALSE
  MaxCrashes = 2
  Resume <- FromCheckpoint
INVARIANTS SInv NoDuplicateLine NothingLost CheckpointFollowed FeedbackRight LayerByLayer
