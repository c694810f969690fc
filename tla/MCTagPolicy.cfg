SPECIFICATION PolicySpec
CONSTANTS
  TagNames <- MCTagNames
  Text <- MCText
  Matches <- MCMatches
  Group <- MCGroup
  InRange <- Versions1
  Policies <- MCPolicies
  MaxTags = 4
INVARIANT SelectsTheBest
PROPERTY NewTagOrSame
