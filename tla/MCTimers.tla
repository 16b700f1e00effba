------------------------------ MODULE MCTimers ------------------------------
EXTENDS Timers

SomeDelays == {-1, 1, 2}
===============================================================================
