SPECIFICATION Spec
CONSTANTS
  MaxWorld = 1
  MaxAnswers = 2
  MaxPosts = 2
  MaxTrouble = 2
INVARIANT PagesRender
CHECK_DEADLOCK FALSE
