SPECIFICATION Spec
CONSTANTS
  SpiderCnt = 1
  Urls <- MCUrls
  NoUrl = "none"
  Key <- MCKey
  Links <- MCLinks
  Rewrite <- MCRewrite
  Seeds <- MCOneSeed
  SkipLine = 0
  UrlLevel = 9
  UrlCount = 9
  UrlFeedback = {FALSE}
  Period = 2
  StickyEof = TRUE
PROPERTIES EofMeansFileRead
