--------------------------- MODULE MCEk3Reactor ---------------------------
EXTENDS Ek3Reactor

CONSTANTS s1, s2,       \* sessions
          e1, e2, e3,   \* events of s1, s1 and s2
          e4,           \* of s1 too, on the descriptor of e1
          t1,           \* a timer of s2
          f1, f2, f3    \* descriptors

MCSessionOf == [e \in Event |-> IF e \in {e3, t1} THEN s2 ELSE s1]

\* The first descriptor of a session is its own, f2 is one more.
MCOwnFd == [s \in Session |-> IF s = s1 THEN f1 ELSE f3]

MCFdOf == [e \in Event \ Timer |-> CASE e = e2 -> f2
                                     [] e = e3 -> f3
                                     [] OTHER -> f1]
=============================================================================
