SPECIFICATION Spec
CONSTANTS
  DefaultStack = 1
  DefaultBuffer = 4
  DomStack = 8
  ElemSize = 3
  Texts <- MCTexts
  Configs <- MCConfigs
  Envs <- MCEnvs
INVARIANTS AcceptsDocuments BufferRoom PrintsBack TreeInStep
CHECK_DEADLOCK FALSE
