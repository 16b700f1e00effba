----------------------------- MODULE MCStateCache -----------------------------
EXTENDS StateCache

\* Two objects of a type without a timestamp, under two dests, whose fields
\* share hashes, and one object of a type with a timestamp.
Both == {1, 2}
Published ==
  { [dest |-> 1, type |-> "Order", key |-> <<{1}>>],
    [dest |-> 1, type |-> "Position", key |-> <<{1}, {2}, {3}>>],
    [dest |-> 2, type |-> "Position", key |-> <<{1}, {2}, {3, 4}>>] }
Orders == {"Order"}
===============================================================================
