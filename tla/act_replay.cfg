SPECIFICATION Spec
CONSTANTS
  c1 = c1  c2 = c2  c3 = c3  app1 = app1  app2 = app2
  Call = {c1, c2, c3}
  App = {app1, app2}
  Attention = Attention  Nobody = Nobody
  On <- Place3
  Settings <- TwoPresses
INVARIANT AtMostOnce
CHECK_DEADLOCK FALSE
