-------------------------- MODULE MCTrafficClient --------------------------
EXTENDS TrafficClient

CONSTANTS c1, c2, t1, t2, t3

MCCallers2 == {c1, c2}
MCThreads2 == {t1, t2}
MCThreads3 == {t1, t2, t3}

NoDisturbance == {}
AnyDisturbance == Disturbances

============================================================================
