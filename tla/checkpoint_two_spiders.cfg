SPECIFICATION Spec
CONSTANTS
  SpiderCnt = 2
  Urls <- MCUrls
  NoUrl = "none"
  Key <- MCKey
  Links <- MCLinks
  Rewrite <- MCRewrite
  Seeds <- MCTwoSeeds
  SkipLine = 0
  UrlLevel = 9
  UrlCount = 9
  UrlFeedback = {FALSE}
  Period = 2
  StickyEof = FALSE
INVARIANTS CheckpointCovers
