SPECIFICATION FairSpec
CONSTANTS
  SpiderCnt = 2
  Urls <- MCWebUrls
  NoUrl = "none"
  Key <- MCWebKey
  Links <- MCWebLinks
  Rewrite <- MCWebRange
  Seeds <- MCOneSeed
  SkipLine = 0
  UrlLevel = 9
  UrlCount = 3
  UrlFeedback = {TRUE, FALSE}
  Period = 2
  StickyEof = FALSE
INVARIANTS LineBound IInv NoDuplicateLine TableMatchesFile NoUrlLeftBehind CrawlComplete OwnLinesTaken
PROPERTIES ImplementsFrontier Termination
