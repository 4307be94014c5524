SPECIFICATION Spec
CONSTANTS
  JsonMax = 200
  Confs <- MCConfs
  MainConf = "main"
  Document <- MCDocument
  Included <- MCIncluded
  UrlCount <- MCUrlCount
  Feedback <- MCFeedback
  Text <- MCText
  Unset = "unset"
  Lines = 2
  FirstThread = FALSE
INVARIANT SearchesEnd
