SPECIFICATION PagesSpec
CONSTANTS
  Casts <- MCCasts
  Clickable = {1, 2, 3}
  MaxClicks = 2
  MaxVisits = 2
  NoData = NoData
  Lists <- MCLists
  Nickname <- MCNickname
  Thousand <- MCThousand
  Sizes <- MCSizes
INVARIANT LabelMatches
PROPERTIES ChartsFollowThePage PageExists LabelsTellSizes
CHECK_DEADLOCK FALSE
