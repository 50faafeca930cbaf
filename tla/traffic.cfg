SPECIFICATION Spec
CONSTANTS
    Nil = Nil
    s1 = s1  s2 = s2  g1 = g1  g2 = g2
    p1 = p1  c1 = c1  q1 = q1  q2 = q2
INVARIANTS NeverCountsTwice OneCutPerAllowance AppKeepsItsSession
PROPERTIES EventuallyExact SpentIsMarked
CHECK_DEADLOCK FALSE
