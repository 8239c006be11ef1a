SPECIFICATION HelpersSpec
CONSTANTS j1=j1 j2=j2 m1=m1 m2=m2 MacCall={j1,j2} MacClient={m1,m2} Kind={accessibility} MaxPolls=1 MaxRechecks=1 MaxUpsets=1
 Crews <- SomeCrews
 PipeCall={q1,q2} MaxKids=3 MaxMishaps=2
 Worlds <- SomeWorlds
 Installer={i1,i2} NoOne=NoOne MaxSnags=1
INVARIANTS WorkRunsOnce RecheckSeesGrant PipeSound InstallsSound
PROPERTY EveryHelperCallEnds
CHECK_DEADLOCK FALSE
