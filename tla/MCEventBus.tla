----------------------------- MODULE MCEventBus -----------------------------
\* Instance of EventBus for TLC: the loop and two other tasks push.
EXTENDS EventBus, TLC
CONSTANTS t1, t2
MCTwoTasks == {t1, t2}
=============================================================================
