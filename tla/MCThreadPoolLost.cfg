SPECIFICATION FairSpec
CONSTANTS
  Worker = {w1}
  Main = main
  Descriptors = {d1, d2}
  NoTask = notask
  Free = free
PROPERTY TaskIsTaken
