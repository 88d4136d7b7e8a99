SPECIFICATION Spec
CONSTANTS
  Teasers = 3
  Handles = {1, 2}
  Parts = {month, day}
  Values = {filled}
  Blank = blank
  MaxClicks = 2
INVARIANTS TypeOK OwnTitleWhenSeen UncheckedOnlyIf OnePerClick WaitsForAnswer
PROPERTIES LabelComesBack CheckedIsPosted TeasersGoRound
CHECK_DEADLOCK FALSE
