SPECIFICATION FairSpec
CONSTANTS
  SpiderCnt = 2
  Urls <- MCUrls
  NoUrl = "none"
  Key <- MCKey
  Links <- MCLinks
  Rewrite <- MCRange
  Seeds <- MCOneSeed
  SkipLine = 0
  UrlLevel = 0
  UrlCount = 9
  UrlFeedback = {TRUE}
  Period = 2
  StickyEof = FALSE
PROPERTIES Termination
