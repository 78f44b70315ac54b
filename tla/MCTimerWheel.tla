---------------------------- MODULE MCTimerWheel ----------------------------
EXTENDS TimerWheel, TLC
=============================================================================
