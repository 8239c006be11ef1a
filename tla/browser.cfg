SPECIFICATION BrowserSpec
CONSTANTS w1=w1 w2=w2 Workspace={w1,w2} Tab={a,b} r1=r1 r2=r2 r3=r3 Request={r1,r2,r3} NoTab=NoTab UserMoves=1 PreconnectRetries=1
 Wants <- SomeWants
 Host={h1,h2} Client={k1} NoHost=NoHost Ghost=Ghost
 p1=p1 p2=p2 c1=c1 c2=c2 c3=c3 Page={p1,p2} DirectPages={p1} NoConn=NoConn CdpCall={c1,c2,c3}
 CallKinds <- SomeCalls
 MaxGeneration=2
 Transactions <- SomeTransactions
 MaxAttempts=2 MaxChanges=2
INVARIANTS OneTabPerRequest WorkspacesSound RelayExclusive OneConnection MutationSeen
PROPERTIES AckedOnce EveryRequestEnds
CHECK_DEADLOCK FALSE
