SPECIFICATION ActorsSpec
CONSTANTS
  host = host  alice = alice  t1 = t1  t2 = t2
  Actor = {host, alice}
  Default = host
  Resource = {1}
  Task = {t1, t2}
  Goal <- OneGoal
  Idle = Idle  NoClaim = NoClaim  Nothing = Nothing  Nobody = Nobody
  Budget <- OneAction
  MaxActors = 3
  MaxLeases = 2  MaxEpoch = 2
  RootCalls = {t1, t2}
  RootActors = {a1, a2}
  Windows = {1, 2, 3}
  FirstWindows = {1}
  Pages = {p1}
  IdOf <- MCIdOf
  TitleOf <- MCTitleOf
  Over <- MCOver
  MaxRootCalls = 3
  MaxEvents = 2
INVARIANTS DeliveryFenced RefsKeepTheirRoots NamedWindowSeen OwnPagesOnly
PROPERTY ClosedStartsNothing
SYMMETRY ActorsSymmetry
CHECK_DEADLOCK FALSE
