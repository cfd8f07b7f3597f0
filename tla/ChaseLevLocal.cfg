CONSTANTS
  Tasks = {t1, t2, t3}
  Thieves = {h1, h2}
  Size = 2
  RemotePush = FALSE
  NoTask = NoTask
  Torn = Torn
SPECIFICATION FairSpec
INVARIANTS TakenAtMostOnce NoTaskLost IInv
PROPERTIES RefinesTaskDeque EventuallyTaken
