SPECIFICATION Spec
CONSTANTS
  Strings <- MCStrings
  Keys <- MCKeys
  Values <- MCValues
  Glob <- MCGlob
  Number <- MCNumber
  Regex <- MCRegex
  Whitespace <- MCWhitespace
  Pods <- MCPods
  Configs <- MCConfigs
  Null = Null
  MaxTokens = 4
  MaxTail = 6
INVARIANTS Inv NoOverrun ParsedAsDocumented RulesApplyAsWritten LegacyDecides
PROPERTIES SetupEnds
CHECK_DEADLOCK FALSE
