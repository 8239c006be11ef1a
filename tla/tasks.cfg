SPECIFICATION TasksSpec
CONSTANTS
  n1 = n1  n2 = n2  n3 = n3  t1 = t1  t2 = t2
  Node = {n1, n2, n3}
  Gone = Gone
  Plans <- SomePlans
  Task = {t1, t2}
  NoTask = NoTask
  Goals <- SomeGoals
  Views <- SomeViews
  MaxChoice = 5  MaxQuestions = 2
  Surfaces <- SomeSurfaces
  s1 = s1  s2 = s2  r1 = r1  app = app
  Sub = {s1, s2}
  Reader = {r1}
  Resource = {app}
  On <- BothOnApp
  Of <- ReadsFirst
  Conditional = {s1}
  Retain = 2  MaxLive = 2  PageSize = 1
  MaxEvents <- Reports  MaxLeases = 2
INVARIANTS NoRetryOfDelivered PlanSound GoalSound SelectionSound NoSilentGap NoLostWakeup StreamHasPump
PROPERTIES EveryTaskEnds StaleStreamEnds
CHECK_DEADLOCK FALSE
