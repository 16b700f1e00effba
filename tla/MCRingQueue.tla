----------------------------- MODULE MCRingQueue -----------------------------
EXTENDS RingQueue, RingCapacity

\* The queue the constructor makes, whatever was asked for, can be indexed by its
\* mask (ringqueue::ringqueue, push, pop): looked at once, where the runs begin.
IndexedByMask == Init => MaskFitsCapacity
===============================================================================
