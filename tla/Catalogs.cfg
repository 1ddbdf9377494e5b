CONSTANTS
 a1=a1
 a2=a2
 g1=g1
 g2=g2
 x=x
 y=y
 p1=p1
 p2=p2
 Accounts={a1,a2}
 Groups={g1,g2}
 Names={x,y}
 Procs={p1,p2}
 None=None
 Scenes <- MCScenes
SPECIFICATION Spec
INVARIANTS GroupsIsolated InLine
PROPERTIES ChoicesKept
CHECK_DEADLOCK FALSE
SYMMETRY Same
