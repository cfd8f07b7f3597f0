CONSTANTS
  Tasks = {t1}
  Thieves = {}
  Size = 2
  RemotePush = TRUE
  NoTask = NoTask
  Torn = Torn
SPECIFICATION Spec
INVARIANT NoTaskLost
